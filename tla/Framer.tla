------------------------------ MODULE Framer ------------------------------
(***************************************************************************)
(* The framer of one serial device, and the part of the reader's session   *)
(* that drives it: reads of any size up to the read buffer, reads that     *)
(* time out (silence), and the new framer of a reopened port.              *)
(*                                                                         *)
(* A byte is a member of Bytes, most of which are payload; what matters of *)
(* them is which of them the separator is made of.                         *)
(***************************************************************************)
EXTENDS Integers, Sequences, FiniteSets, SequencesExt

CONSTANTS
    Bytes,        \* the bytes a device sends
    Separators,   \* what a device may be configured to end its frames with
    MaxFrame,     \* Framer.maxFrame
    MaxStream     \* BOUND: bytes, silences and reopenings in a behaviour

\* NewFramer refuses an empty separator and a maximum below 1.
ASSUME FramerAssumption ==
    /\ \A s \in Separators : s \in Seq(Bytes) /\ s # <<>>
    /\ MaxFrame \in Nat \ {0} /\ MaxStream \in Nat
    /\ "silence" \notin Bytes /\ "reopened" \notin Bytes

VARIABLES
    separator, \* Framer.separator
    buf,       \* Framer.buf
    dropping,  \* Framer.dropping
    dropped,   \* Framer.dropped
    frames,    \* history: the frames emitted
    discards,  \* history: the discards reported
    stream,    \* history: what the device did
    abandoned  \* history: bytes pending when the port was lost

vars == <<separator, buf, dropping, dropped, frames, discards, stream, abandoned>>

Silence == "silence"
Reopened == "reopened"
\* serial.New: the read buffer holds a whole frame with its separator.
ReadBufferBytes == MaxFrame + Len(separator)
BytesIn(s) == Cardinality({i \in 1..Len(s) : s[i] \in Bytes})

CarryNothing == 0  \* BUG: a separator split across two reads is not found
Carry == Len(separator) - 1

\* bytes.Index: the bytes before the first separator, or -1.
Index(b) ==
    LET at == {i \in 0..(Len(b) - Len(separator)) :
                  SubSeq(b, i + 1, i + Len(separator)) = separator}
    IN  IF at = {} THEN -1 ELSE Min(at)
Drop(b, n) == SubSeq(b, n + 1, Len(b))  \* consume

Discard(reason, bytes) == [reason |-> reason, bytes |-> bytes]

\* One round of Append's loop: everything up to and with the first separator
\* becomes a frame or a discard.
SplitOne(f) ==
    LET at == Index(f.buf)
        report(reason, bytes) == Append(f.discards, Discard(reason, bytes))
        rest == [f EXCEPT !.buf = Drop(@, at + Len(separator))]
    IN  IF at = -1 THEN f
        ELSE IF f.dropping
        THEN [rest EXCEPT !.discards = report("resync", f.dropped + at + Len(separator)),
                          !.dropping = FALSE, !.dropped = 0]
        ELSE IF at = 0
        THEN [rest EXCEPT !.discards = report("empty_frame", Len(separator))]
        ELSE IF at > MaxFrame
        THEN [rest EXCEPT !.discards = report("oversize", at)]
        ELSE [rest EXCEPT !.frames = Append(@, SubSeq(f.buf, 1, at))]

\* The whole loop: as many rounds as there can be separators.
Split(f) ==
    LET rounds[n \in 0..Len(f.buf)] ==
            IF n = 0 THEN f ELSE SplitOne(rounds[n - 1])
    IN  rounds[Len(f.buf)]

\* How many bytes trimTo drops.
Trim(b) == IF Len(b) <= Carry THEN 0 ELSE Len(b) - Carry

\* BUG: what was dropped in earlier reads is forgotten.
BoundForgets(f) ==
    IF f.dropping
    THEN [f EXCEPT !.dropped = Trim(f.buf), !.buf = Drop(@, Trim(f.buf))]
    ELSE IF Len(f.buf) > MaxFrame + Carry
    THEN [f EXCEPT !.dropping = TRUE, !.dropped = Trim(f.buf),
                   !.buf = Drop(@, Trim(f.buf)),
                   !.discards = Append(@, Discard("oversize", Len(f.buf)))]
    ELSE f
\* BUG: a partial frame grows for as long as no separator comes.
Unbounded(f) == f
\* The end of Append: while dropping only what may begin a separator is kept,
\* and a partial frame that is too long is given up.
Bound(f) ==
    IF f.dropping
    THEN [f EXCEPT !.dropped = @ + Trim(f.buf), !.buf = Drop(@, Trim(f.buf))]
    ELSE IF Len(f.buf) > MaxFrame + Carry
    THEN [f EXCEPT !.dropping = TRUE, !.dropped = Trim(f.buf),
                   !.buf = Drop(@, Trim(f.buf)),
                   !.discards = Append(@, Discard("oversize", Len(f.buf)))]
    ELSE f

-----------------------------------------------------------------------------
Init ==
    /\ separator \in Separators
    /\ buf = <<>> /\ dropping = FALSE /\ dropped = 0
    /\ frames = <<>> /\ discards = <<>> /\ stream = <<>> /\ abandoned = 0

\* A read returns src, and the session appends it.
ReadBytes(src) ==
    /\ Len(stream) + Len(src) <= MaxStream
    /\ stream' = stream \o src
    /\ LET after == Bound(Split([buf |-> buf \o src, dropping |-> dropping,
                                 dropped |-> dropped, frames |-> frames,
                                 discards |-> discards]))
       IN  /\ buf' = after.buf /\ dropping' = after.dropping
           /\ dropped' = after.dropped /\ frames' = after.frames
           /\ discards' = after.discards
    /\ UNCHANGED <<separator, abandoned>>

\* What Timeout reports when it ends a resynchronisation.
ResyncEnded(bytes) ==
    IF bytes = 0 THEN discards
    ELSE Append(discards, Discard("resync", bytes))

\* A read times out with no byte, and the session calls Timeout: it ends a
\* resynchronisation, or gives a partial frame up and starts one.
Timeout ==
    /\ Len(stream) < MaxStream
    /\ stream' = Append(stream, Silence)
    /\ buf' = <<>> /\ dropped' = 0
    /\ \/ /\ dropping /\ dropping' = FALSE
          /\ discards' = ResyncEnded(dropped + Len(buf))
       \/ /\ ~dropping /\ buf = <<>> /\ UNCHANGED <<dropping, discards>>
       \/ /\ ~dropping /\ buf # <<>> /\ dropping' = TRUE
          /\ discards' = Append(discards, Discard("inter_char_timeout", Len(buf)))
    /\ UNCHANGED <<separator, frames, abandoned>>

\* The port is lost and opened again: the session makes a new framer, and what
\* the old one held is gone without a report.
Reopen ==
    /\ Len(stream) < MaxStream
    /\ stream' = Append(stream, Reopened)
    /\ buf' = <<>> /\ dropping' = FALSE /\ dropped' = 0
    /\ abandoned' = abandoned + Len(buf) + dropped
    /\ UNCHANGED <<separator, frames, discards>>

Next ==
    \/ \E src \in SeqOf(Bytes, ReadBufferBytes) \ {<<>>} : ReadBytes(src)
    \/ Timeout
    \/ Reopen

Spec == Init /\ [][Next]_vars

-----------------------------------------------------------------------------
(* The reference: what the frames of a stream are, told one byte at a time *)
(* with nothing of reads, buffers and their limits.                        *)

\* What is known after some of the stream: the bytes since the last separator,
\* whether they are the tail of a frame that silence broke, and the frames.
Nothing == [part |-> <<>>, broken |-> FALSE, frames |-> <<>>]

RefByte(sep, r, byte) ==
    LET part == Append(r.part, byte)
        payload == Len(part) - Len(sep)
        ends == payload >= 0 /\ Drop(part, payload) = sep
    IN  IF ~ends THEN [r EXCEPT !.part = part]
        ELSE [part |-> <<>>, broken |-> FALSE,
              frames |-> IF ~r.broken /\ payload \in 1..MaxFrame
                         THEN Append(r.frames, SubSeq(part, 1, payload))
                         ELSE r.frames]

\* Silence breaks a frame that has begun, unless it was broken already or had
\* grown too long to be one.
RefSilence(sep, r) ==
    [r EXCEPT !.part = <<>>,
              !.broken = /\ ~r.broken
                         /\ Len(r.part) \in 1..(MaxFrame + Len(sep) - 1)]

RefItem(sep, r, item) ==
    IF item = Silence THEN RefSilence(sep, r)
    ELSE IF item = Reopened THEN [Nothing EXCEPT !.frames = r.frames]
    ELSE RefByte(sep, r, item)

RefAfter(sep, s) ==
    LET after[n \in 0..Len(s)] ==
            IF n = 0 THEN Nothing ELSE RefItem(sep, after[n - 1], s[n])
    IN  after[Len(s)]

RefFrames(s) == RefAfter(separator, s).frames

-----------------------------------------------------------------------------
(* Properties.                                                             *)

\* "It makes no assumption that one read equals one scan": the frames are those
\* of the stream, however the reads cut it up, separators included; and no tail
\* of a broken frame is among them.
FramesAreTheStreams == frames = RefFrames(stream)

\* "A device that never terminates cannot grow the buffer."
BufferBounded == Len(buf) <= IF dropping THEN Carry ELSE MaxFrame + Carry

SumOf(s) ==
    LET sum[n \in 0..Len(s)] == IF n = 0 THEN 0 ELSE sum[n - 1] + s[n]
    IN  sum[Len(s)]
FrameBytes == SumOf([i \in 1..Len(frames) |-> Len(frames[i])])
DiscardBytes == SumOf([i \in 1..Len(discards) |-> discards[i].bytes])

\* Every byte read, apart from those of separators that ended a frame, is in a
\* frame, was reported in a discard, is pending, or went with the port.
NothingLostSilently ==
    LET separators == Len(frames) + Cardinality(
            {i \in 1..Len(discards) : discards[i].reason = "oversize"})
    IN  BytesIn(stream) <= FrameBytes + DiscardBytes + separators * Len(separator)
                           + Len(buf) + dropped + abandoned

=============================================================================
