--------------------------- MODULE FramerProofs ---------------------------
(***************************************************************************)
(* Framer, for every separator, every limit and every way of cutting the   *)
(* stream into reads.                                                      *)
(*                                                                         *)
(* Split and the reference are recursive functions over an interval.  An   *)
(* induction over them is an argument about a least counterexample: the    *)
(* numbers where a fact fails have a least one, it is not 0, and the fact  *)
(* holds just below it.                                                    *)
(***************************************************************************)
EXTENDS Framer, SequenceTheorems, FiniteSetTheorems, WellFoundedInduction, TLAPS

-----------------------------------------------------------------------------
(* Induction and recursion.                                                *)

\* A set of natural numbers has a least member.
LEMMA LeastOf ==
    ASSUME NEW S \in SUBSET Nat, S # {}
    PROVE  \E x \in S : \A y \in S : x <= y
<1>1. PICK x \in S : \A y \in S : ~(<<y, x>> \in OpToRel(<, Nat))
  BY NatLessThanWellFounded, WFMin
<1>2. \A y \in S : ~(y < x)
  BY <1>1 DEF OpToRel
<1>3. \A y \in S : x <= y
  BY <1>2
<1> QED
  BY <1>3

\* Some steps on S, one per number, and a run of them from b.
Steps(N, S) == [1..N -> [S -> S]]
Runs(N, S, b, step) ==
    \E g \in [0..N -> S] : g[0] = b /\ \A n \in 1..N : g[n] = step[n][g[n - 1]]

\* A recursive function over 0..N exists: N steps from b can be run.
LEMMA Iterates ==
    ASSUME NEW S, NEW b \in S, NEW N \in Nat, NEW step \in Steps(N, S)
    PROVE  Runs(N, S, b, step)
<1> USE DEF Steps, Runs
<1> DEFINE Is(g, m) == g[0] = b /\ \A n \in 1..m : g[n] = step[n][g[n - 1]]
           bad == {m \in 0..N : ~ \E g \in [0..m -> S] : Is(g, m)}
<1>1. SUFFICES bad = {}
  BY <1>1
<1>2. SUFFICES ASSUME bad # {} PROVE FALSE
  BY <1>2
<1>3. PICK m \in bad : \A k \in bad : m <= k
  <2>1. bad \in SUBSET Nat
    OBVIOUS
  <2> QED
    BY <2>1, <1>2, LeastOf
<1>4. m # 0
  <2>1. Is([n \in 0..0 |-> b], 0) /\ [n \in 0..0 |-> b] \in [0..0 -> S]
    OBVIOUS
  <2> QED
    BY <2>1
<1>5. m \in 0..N /\ m - 1 \in 0..N /\ m - 1 \notin bad
  <2> HIDE DEF Is
  <2>1. m \in 0..N
    OBVIOUS
  <2> HIDE DEF bad
  <2> QED
    BY <2>1, <1>3, <1>4
<1>6. PICK g \in [0..(m - 1) -> S] : Is(g, m - 1)
  BY <1>5
<1> DEFINE h == [n \in 0..m |-> IF n = m THEN step[m][g[m - 1]] ELSE g[n]]
<1>7. h \in [0..m -> S]
  BY <1>4, <1>5
<1>8. Is(h, m)
  BY <1>4, <1>5, <1>6
<1> QED
  BY <1>7, <1>8, <1>3

-----------------------------------------------------------------------------
(* Types.                                                                  *)

Items == Bytes \cup {Silence, Reopened}
Reports == [reason : {"resync", "empty_frame", "oversize", "inter_char_timeout"},
            bytes : Nat]

\* The framer's own state, with what it emitted.
States == [buf : Seq(Bytes), dropping : BOOLEAN, dropped : Nat,
           frames : Seq(Seq(Bytes)), discards : Seq(Reports)]
\* Bytes are dropped only while resynchronising.
Settled(f) == ~f.dropping => f.dropped = 0

Framed == [buf |-> buf, dropping |-> dropping, dropped |-> dropped,
           frames |-> frames, discards |-> discards]

TypeInv ==
    /\ separator \in Separators
    /\ Framed \in States
    /\ stream \in Seq(Items)
    /\ abandoned \in Nat

\* The separator is at i, after the first i bytes of b.
SepAt(b, i) == SubSeq(b, i + 1, i + Len(separator)) = separator

LEMMA SeparatorType ==
    ASSUME separator \in Separators
    PROVE  separator \in Seq(Bytes) /\ Len(separator) \in Nat \ {0}
           /\ Carry \in Nat /\ Carry = Len(separator) - 1 /\ MaxFrame \in Nat \ {0}
<1>1. separator \in Seq(Bytes) /\ separator # <<>> /\ MaxFrame \in Nat \ {0}
  BY FramerAssumption
<1>2. Len(separator) \in Nat \ {0}
  BY <1>1, EmptySeq
<1> QED
  BY <1>1, <1>2 DEF Carry

\* consume keeps the end of the buffer.
LEMMA DropIs ==
    ASSUME NEW S, NEW b \in Seq(S), NEW n \in 0..Len(b)
    PROVE  /\ Drop(b, n) \in Seq(S)
           /\ Len(Drop(b, n)) = Len(b) - n
           /\ \A i \in 1..(Len(b) - n) : Drop(b, n)[i] = b[n + i]
<1>1. Len(b) \in Nat /\ n \in Nat /\ \A i \in (n + 1)..Len(b) : b[i] \in S
  BY LenProperties, ElementOfSeq
<1>2. /\ SubSeq(b, n + 1, Len(b)) \in Seq(S)
      /\ Len(SubSeq(b, n + 1, Len(b))) = IF n + 1 <= Len(b) THEN Len(b) - (n + 1) + 1 ELSE 0
      /\ \A i \in 1..(Len(b) - (n + 1) + 1) : SubSeq(b, n + 1, Len(b))[i] = b[(n + 1) + i - 1]
  <2>1. n + 1 \in Int /\ Len(b) \in Int
    BY <1>1
  <2> QED
    BY <1>1, <2>1, SubSeqProperties
<1>3. \A i \in 1..(Len(b) - n) : Drop(b, n)[i] = b[n + i]
  BY <1>1, <1>2 DEF Drop
<1> QED
  BY <1>1, <1>2, <1>3 DEF Drop

\* An occurrence of the separator, byte by byte.
LEMMA SepAtIs ==
    ASSUME separator \in Separators, NEW b \in Seq(Bytes),
           NEW i \in 0..(Len(b) - Len(separator))
    PROVE  SepAt(b, i) <=> \A j \in 1..Len(separator) : b[i + j] = separator[j]
<1> DEFINE L == Len(separator)
           w == SubSeq(b, i + 1, i + L)
<1>1. separator \in Seq(Bytes) /\ L \in Nat \ {0} /\ Len(b) \in Nat /\ i \in Nat /\ i + L <= Len(b)
  BY SeparatorType, LenProperties
<1>2. \A j \in (i + 1)..(i + L) : b[j] \in Bytes
  BY <1>1, ElementOfSeq
<1>3. w \in Seq(Bytes) /\ Len(w) = L /\ \A j \in 1..L : w[j] = b[i + j]
  <2>1. i + 1 \in Int /\ i + L \in Int
    BY <1>1
  <2>2. /\ w \in Seq(Bytes)
        /\ Len(w) = IF i + 1 <= i + L THEN i + L - (i + 1) + 1 ELSE 0
        /\ \A j \in 1..(i + L - (i + 1) + 1) : w[j] = b[i + 1 + j - 1]
    BY <1>2, <2>1, SubSeqProperties
  <2> HIDE DEF w
  <2>3. \A j \in 1..L : w[j] = b[i + j]
    BY <1>1, <2>2
  <2> QED
    BY <1>1, <2>2, <2>3
<1>4. SepAt(b, i) <=> w = separator
  BY DEF SepAt
<1> HIDE DEF w
<1>5. (\A j \in 1..L : w[j] = separator[j]) => w = separator
  BY <1>1, <1>3, SeqEqual
<1> QED
  BY <1>3, <1>4, <1>5

\* bytes.Index finds the first separator, if there is one.
LEMMA IndexIs ==
    ASSUME separator \in Separators, NEW b \in Seq(Bytes)
    PROVE  \/ /\ Index(b) = -1
              /\ \A i \in 0..(Len(b) - Len(separator)) : ~SepAt(b, i)
           \/ /\ Index(b) \in 0..(Len(b) - Len(separator))
              /\ SepAt(b, Index(b))
              /\ \A i \in 0..(Index(b) - 1) : ~SepAt(b, i)
<1> DEFINE at == {i \in 0..(Len(b) - Len(separator)) : SepAt(b, i)}
<1>1. Index(b) = IF at = {} THEN -1 ELSE Min(at)
  BY DEF Index, SepAt
<1>2. CASE at = {}
  BY <1>1, <1>2
<1>3. CASE at # {}
  <2>1. at \in SUBSET Nat
    BY SeparatorType, LenProperties
  <2>2. PICK x \in at : \A y \in at : x <= y
    <3> HIDE DEF at
    <3> QED
      BY <2>1, <1>3, LeastOf
  <2>3. Min(at) \in at /\ \A y \in at : Min(at) <= y
    BY <2>2 DEF Min
  <2>4. Index(b) \in at /\ \A y \in at : Index(b) <= y
    BY <1>1, <1>3, <2>3
  <2> HIDE DEF Index
  <2>5. Index(b) \in 0..(Len(b) - Len(separator)) /\ SepAt(b, Index(b))
    BY <2>4
  <2>6. ASSUME NEW i \in 0..(Index(b) - 1) PROVE ~SepAt(b, i)
    <3>1. i \in 0..(Len(b) - Len(separator)) /\ ~(Index(b) <= i)
      BY <2>5, SeparatorType, LenProperties
    <3>2. i \notin at
      BY <2>4, <3>1
    <3> QED
      BY <3>1, <3>2
  <2> QED
    BY <2>5, <2>6
<1> QED
  BY <1>2, <1>3
-----------------------------------------------------------------------------
(* Append's loop.                                                          *)

\* A round of the loop, case by case.
LEMMA SplitOneIs ==
    ASSUME separator \in Separators, NEW f \in States
    PROVE  LET at == Index(f.buf)
               g == SplitOne(f)
           IN  /\ at = -1 => g = f
               /\ at # -1 => /\ g.buf = Drop(f.buf, at + Len(separator))
                             /\ at + Len(separator) \in 1..Len(f.buf)
                             /\ g.dropping = FALSE
               /\ at # -1 /\ f.dropping =>
                    /\ g.dropped = 0 /\ g.frames = f.frames
                    /\ g.discards = Append(f.discards,
                           Discard("resync", f.dropped + at + Len(separator)))
               /\ at # -1 /\ ~f.dropping =>
                    /\ g.dropped = f.dropped
                    /\ at = 0 => /\ g.frames = f.frames
                                 /\ g.discards = Append(f.discards,
                                        Discard("empty_frame", Len(separator)))
                    /\ at > MaxFrame => /\ g.frames = f.frames
                                        /\ g.discards = Append(f.discards, Discard("oversize", at))
                    /\ at \in 1..MaxFrame => /\ g.frames = Append(f.frames, SubSeq(f.buf, 1, at))
                                             /\ g.discards = f.discards
               /\ g \in States
<1> DEFINE at == Index(f.buf)
           L == Len(separator)
           g == SplitOne(f)
<1>0. /\ f.buf \in Seq(Bytes) /\ Len(f.buf) \in Nat /\ L \in Nat \ {0} /\ MaxFrame \in Nat \ {0}
      /\ f.dropping \in BOOLEAN /\ f.dropped \in Nat
      /\ f.frames \in Seq(Seq(Bytes)) /\ f.discards \in Seq(Reports)
  BY SeparatorType, LenProperties DEF States
<1>1. at = -1 \/ at \in 0..(Len(f.buf) - L)
  BY <1>0, IndexIs
<1>2. at = -1 => g = f
  BY DEF SplitOne
<1>3. ASSUME at # -1
      PROVE  /\ at \in Nat /\ at + L \in 1..Len(f.buf)
             /\ Drop(f.buf, at + L) \in Seq(Bytes) /\ SubSeq(f.buf, 1, at) \in Seq(Bytes)
  <2> HIDE DEF at
  <2>1. at \in Nat /\ at + L \in 0..Len(f.buf) /\ at + L >= 1
    BY <1>0, <1>1, <1>3
  <2>2. Drop(f.buf, at + L) \in Seq(Bytes)
    BY <1>0, <2>1, DropIs
  <2>3. \A i \in 1..at : f.buf[i] \in Bytes
    BY <1>0, <2>1, ElementOfSeq
  <2>4. SubSeq(f.buf, 1, at) \in Seq(Bytes)
    BY <2>1, <2>3, SubSeqProperties
  <2> QED
    BY <2>1, <2>2, <2>4
<1>4. CASE at # -1 /\ f.dropping
  <2>1. g = [f EXCEPT !.buf = Drop(f.buf, at + L), !.dropping = FALSE, !.dropped = 0,
                      !.discards = Append(f.discards, Discard("resync", f.dropped + at + L))]
    BY <1>4 DEF SplitOne, States
  <2>2. Discard("resync", f.dropped + at + L) \in Reports
    BY <1>0, <1>3, <1>4 DEF Discard, Reports
  <2>3. Append(f.discards, Discard("resync", f.dropped + at + L)) \in Seq(Reports)
    BY <1>0, <2>2, AppendProperties
  <2> HIDE DEF at, g
  <2>4. g \in States
    BY <1>3, <1>4, <2>1, <2>3 DEF States
  <2> QED
    BY <1>2, <1>3, <1>4, <2>1, <2>4 DEF States, at, g
<1>5. CASE at # -1 /\ ~f.dropping /\ at = 0
  <2>1. g = [f EXCEPT !.buf = Drop(f.buf, at + L),
                      !.discards = Append(f.discards, Discard("empty_frame", L))]
    BY <1>5 DEF SplitOne, States
  <2>2. Discard("empty_frame", L) \in Reports
    BY <1>0 DEF Discard, Reports
  <2>3. Append(f.discards, Discard("empty_frame", L)) \in Seq(Reports)
    BY <1>0, <2>2, AppendProperties
  <2> HIDE DEF at, g
  <2>4. g \in States
    BY <1>3, <1>5, <2>1, <2>3 DEF States
  <2> QED
    BY <1>0, <1>2, <1>3, <1>5, <2>1, <2>4 DEF States, at, g
<1>6. CASE at # -1 /\ ~f.dropping /\ at > MaxFrame
  <2>1. g = [f EXCEPT !.buf = Drop(f.buf, at + L),
                      !.discards = Append(f.discards, Discard("oversize", at))]
    BY <1>0, <1>3, <1>6 DEF SplitOne, States
  <2>2. Discard("oversize", at) \in Reports
    BY <1>3, <1>6 DEF Discard, Reports
  <2>3. Append(f.discards, Discard("oversize", at)) \in Seq(Reports)
    BY <1>0, <2>2, AppendProperties
  <2> HIDE DEF at, g
  <2>4. g \in States
    BY <1>3, <1>6, <2>1, <2>3 DEF States
  <2> QED
    BY <1>0, <1>2, <1>3, <1>6, <2>1, <2>4 DEF States, at, g
<1>7. CASE at # -1 /\ ~f.dropping /\ at # 0 /\ ~(at > MaxFrame)
  <2>1. g = [f EXCEPT !.buf = Drop(f.buf, at + L),
                      !.frames = Append(f.frames, SubSeq(f.buf, 1, at))]
    BY <1>0, <1>3, <1>7 DEF SplitOne, States
  <2>3. Append(f.frames, SubSeq(f.buf, 1, at)) \in Seq(Seq(Bytes))
    BY <1>0, <1>3, <1>7, AppendProperties
  <2> HIDE DEF at, g
  <2>4. g \in States
    BY <1>3, <1>7, <2>1, <2>3 DEF States
  <2> QED
    BY <1>0, <1>2, <1>3, <1>7, <2>1, <2>4 DEF States, at, g
<1> QED
  BY <1>2, <1>4, <1>5, <1>6, <1>7 DEF at, g

\* The loop as a sequence of rounds.
LEMMA SplitIs ==
    ASSUME separator \in Separators, NEW f \in States
    PROVE  \E g \in [0..Len(f.buf) -> States] :
               /\ g[0] = f /\ Split(f) = g[Len(f.buf)]
               /\ \A n \in 1..Len(f.buf) : g[n] = SplitOne(g[n - 1])
<1> DEFINE N == Len(f.buf)
           Is(h) == h = [n \in 0..N |-> IF n = 0 THEN f ELSE SplitOne(h[n - 1])]
           step == [n \in 1..N |-> [x \in States |-> SplitOne(x)]]
<1>1. N \in Nat
  BY LenProperties DEF States
<1>2. step \in Steps(N, States)
  <2>1. \A x \in States : SplitOne(x) \in States
    BY SplitOneIs
  <2> QED
    BY <2>1 DEF Steps
<1>3. Runs(N, States, f, step)
  <2> HIDE DEF step, N
  <2> QED
    BY <1>1, <1>2, Iterates
<1>4. PICK g \in [0..N -> States] : g[0] = f /\ \A n \in 1..N : g[n] = step[n][g[n - 1]]
  BY <1>3 DEF Runs
<1>5. \A n \in 1..N : g[n] = SplitOne(g[n - 1])
  <2> TAKE n \in 1..N
  <2>1. g[n - 1] \in States
    BY <1>1
  <2> QED
    BY <1>4, <2>1
<1>6. Is(g)
  BY <1>1, <1>4, <1>5
<1>7. Split(f) = (CHOOSE h : Is(h))[N]
  BY DEF Split
<1> DEFINE c == CHOOSE h : Is(h)
<1>8. Is(c)
  BY <1>6
<1> HIDE DEF step, c
<1>9. c[0] = f /\ \A n \in 1..N : c[n] = SplitOne(c[n - 1])
  BY <1>1, <1>8
<1>10. c = g
  <2> DEFINE bad == {n \in 0..N : c[n] # g[n]}
  <2>1. ASSUME bad # {} PROVE FALSE
    <3>1. bad \in SUBSET Nat
      BY <1>1
    <3>2. PICK m \in bad : \A k \in bad : m <= k
      BY <2>1, <3>1, LeastOf
    <3>3. m \in 0..N /\ c[m] # g[m]
      OBVIOUS
    <3>4. m # 0
      BY <1>4, <1>9, <3>3
    <3>5. m - 1 \in 0..N /\ m \in 1..N /\ ~(m <= m - 1)
      BY <1>1, <3>3, <3>4
    <3>6. c[m - 1] = g[m - 1]
      BY <3>2, <3>5
    <3> QED
      BY <1>5, <1>9, <3>3, <3>5, <3>6
  <2>2. \A n \in 0..N : c[n] = g[n]
    BY <2>1
  <2> HIDE DEF N
  <2> QED
    BY <1>8, <2>2
<1> QED
  BY <1>4, <1>5, <1>7, <1>10 DEF c
\* The end of Append, case by case.
LEMMA BoundIs ==
    ASSUME separator \in Separators, NEW f \in States, Settled(f)
    PROVE  LET g == Bound(f)
           IN  /\ g \in States /\ Settled(g)
               /\ Len(g.buf) <= IF g.dropping THEN Carry ELSE MaxFrame + Carry
               /\ g.frames = f.frames
               /\ Trim(f.buf) \in 0..Len(f.buf)
               /\ g.dropping = (f.dropping \/ Len(f.buf) > MaxFrame + Carry)
               /\ g.dropping => /\ g.buf = Drop(f.buf, Trim(f.buf))
                                /\ g.dropped = f.dropped + Trim(f.buf)
               /\ ~g.dropping => g = f
               /\ f.dropping => g.discards = f.discards
               /\ ~f.dropping /\ g.dropping =>
                    g.discards = Append(f.discards, Discard("oversize", Len(f.buf)))
<1> DEFINE g == Bound(f)
           T == Trim(f.buf)
<1>0. /\ f.buf \in Seq(Bytes) /\ Len(f.buf) \in Nat /\ Carry \in Nat /\ MaxFrame \in Nat
      /\ f.dropping \in BOOLEAN /\ f.dropped \in Nat /\ f.discards \in Seq(Reports)
  BY SeparatorType, LenProperties DEF States
<1>1. T \in 0..Len(f.buf) /\ Len(f.buf) - T <= Carry
  BY <1>0 DEF Trim
<1>2. Drop(f.buf, T) \in Seq(Bytes) /\ Len(Drop(f.buf, T)) = Len(f.buf) - T
  BY <1>0, <1>1, DropIs
<1> HIDE DEF T
<1>3. CASE f.dropping
  <2>1. g = [f EXCEPT !.dropped = f.dropped + T, !.buf = Drop(f.buf, T)]
    BY <1>3 DEF Bound, States, T
  <2> HIDE DEF g
  <2>2. g.buf = Drop(f.buf, T) /\ g.dropped = f.dropped + T
        /\ g.dropping = f.dropping /\ g.frames = f.frames /\ g.discards = f.discards
    BY <2>1 DEF States
  <2>3. f.dropped + T \in Nat
    BY <1>0, <1>1
  <2>4. g \in States
    BY <1>2, <2>1, <2>3 DEF States
  <2> QED
    BY <1>0, <1>1, <1>2, <1>3, <2>2, <2>4 DEF g, T, Settled
<1>4. CASE ~f.dropping /\ Len(f.buf) > MaxFrame + Carry
  <2>1. g = [f EXCEPT !.dropping = TRUE, !.dropped = T, !.buf = Drop(f.buf, T),
                      !.discards = Append(f.discards, Discard("oversize", Len(f.buf)))]
    BY <1>4 DEF Bound, States, T
  <2>2. Discard("oversize", Len(f.buf)) \in Reports
    BY <1>0 DEF Discard, Reports
  <2>3. Append(f.discards, Discard("oversize", Len(f.buf))) \in Seq(Reports)
    BY <1>0, <2>2, AppendProperties
  <2> HIDE DEF g
  <2>4. g.buf = Drop(f.buf, T) /\ g.dropped = T
        /\ g.dropping = TRUE /\ g.frames = f.frames
        /\ g.discards = Append(f.discards, Discard("oversize", Len(f.buf)))
    BY <2>1 DEF States
  <2>5. T \in Nat /\ f.dropped + T = T
    BY <1>0, <1>1, <1>4 DEF Settled
  <2>6. g \in States
    <3>1. T \in Nat
      BY <2>5
    <3> QED
      BY <1>2, <2>1, <2>3, <3>1 DEF States
  <2> QED
    BY <1>0, <1>1, <1>2, <1>4, <2>4, <2>5, <2>6 DEF g, T, Settled
<1>5. CASE ~f.dropping /\ ~(Len(f.buf) > MaxFrame + Carry)
  <2>1. g = f
    BY <1>5 DEF Bound
  <2> HIDE DEF g
  <2> QED
    BY <1>0, <1>1, <1>5, <2>1 DEF g, T
<1> QED
  BY <1>0, <1>3, <1>4, <1>5

\* What Append works on, and what it leaves.
Given(src) == [buf |-> buf \o src, dropping |-> dropping, dropped |-> dropped,
               frames |-> frames, discards |-> discards]

\* Every round keeps what is settled settled.
LEMMA SplitSettled ==
    ASSUME separator \in Separators, NEW f \in States, Settled(f)
    PROVE  Split(f) \in States /\ Settled(Split(f))
<1>0. Len(f.buf) \in Nat
  BY LenProperties DEF States
<1>1. PICK g \in [0..Len(f.buf) -> States] :
          /\ g[0] = f /\ Split(f) = g[Len(f.buf)]
          /\ \A n \in 1..Len(f.buf) : g[n] = SplitOne(g[n - 1])
  BY SplitIs
<1> DEFINE bad == {n \in 0..Len(f.buf) : ~Settled(g[n])}
<1>2. ASSUME bad # {} PROVE FALSE
  <2>1. bad \in SUBSET Nat
    BY <1>0
  <2>2. PICK m \in bad : \A k \in bad : m <= k
    <3> HIDE DEF bad
    <3> QED
      BY <1>2, <2>1, LeastOf
  <2>3. m \in 1..Len(f.buf) /\ m - 1 \in 0..Len(f.buf) /\ ~(m <= m - 1) /\ ~Settled(g[m])
    BY <1>0, <1>1
  <2>4. Settled(g[m - 1]) /\ g[m - 1] \in States /\ g[m] = SplitOne(g[m - 1])
    BY <1>1, <2>2, <2>3
  <2>5. ASSUME NEW x \in States, Settled(x) PROVE Settled(SplitOne(x))
    BY <2>5, SplitOneIs DEF Settled
  <2> QED
    BY <2>3, <2>4, <2>5
<1>3. \A n \in 0..Len(f.buf) : Settled(g[n])
  BY <1>2
<1> QED
  BY <1>0, <1>1, <1>3

SafeInv ==
    /\ TypeInv
    /\ Settled(Framed)
    /\ BufferBounded

\* A read, as one step from Given to Bound(Split(...)).
LEMMA ReadIs ==
    ASSUME TypeInv, Settled(Framed), NEW src \in Seq(Bytes), ReadBytes(src)
    PROVE  /\ Given(src) \in States /\ Settled(Given(src))
           /\ Split(Given(src)) \in States /\ Settled(Split(Given(src)))
           /\ Framed' = Bound(Split(Given(src)))
           /\ stream' = stream \o src /\ separator' = separator /\ abandoned' = abandoned
<1>1. Framed \in States /\ separator \in Separators
  BY DEF TypeInv
<1>2. buf \in Seq(Bytes) /\ dropping \in BOOLEAN /\ dropped \in Nat
      /\ frames \in Seq(Seq(Bytes)) /\ discards \in Seq(Reports) /\ (~dropping => dropped = 0)
  BY <1>1 DEF Framed, States, Settled
<1>3. buf \o src \in Seq(Bytes)
  BY <1>2, ConcatProperties
<1>4. Given(src) \in States /\ Settled(Given(src))
  BY <1>2, <1>3 DEF Given, States, Settled
<1>5. Split(Given(src)) \in States /\ Settled(Split(Given(src)))
  BY <1>1, <1>4, SplitSettled
<1>6. Bound(Split(Given(src))) \in States
  BY <1>1, <1>5, BoundIs
<1>7. Framed' = Bound(Split(Given(src)))
  <2> DEFINE after == Bound(Split(Given(src)))
  <2>1. buf' = after.buf /\ dropping' = after.dropping /\ dropped' = after.dropped
        /\ frames' = after.frames /\ discards' = after.discards
    BY DEF ReadBytes, Given
  <2> HIDE DEF after
  <2>2. after \in States
    BY <1>6 DEF after
  <2>3. Framed' = after
    BY <2>1, <2>2 DEF Framed, States
  <2> QED
    BY <2>3 DEF after
<1>8. stream' = stream \o src /\ separator' = separator /\ abandoned' = abandoned
  BY DEF ReadBytes
<1> QED
  BY <1>4, <1>5, <1>7, <1>8

LEMMA SafeInit == Init => SafeInv
<1> SUFFICES ASSUME Init PROVE SafeInv
  OBVIOUS
<1>1. Framed \in States /\ separator \in Separators /\ stream \in Seq(Items) /\ abandoned \in Nat
  BY EmptySeq DEF Init, Framed, States
<1>2. Len(buf) = 0 /\ Carry \in Nat /\ MaxFrame \in Nat
  BY <1>1, SeparatorType DEF Init
<1> QED
  BY <1>1, <1>2 DEF Init, SafeInv, TypeInv, Settled, Framed, BufferBounded

\* The bytes of a read are a sequence of bytes.
LEMMA ReadType ==
    ASSUME NEW n \in Nat, NEW src \in SeqOf(Bytes, n) PROVE src \in Seq(Bytes)
BY DEF SeqOf

LEMMA SafeStep == SafeInv /\ [Next]_vars => SafeInv'
<1> SUFFICES ASSUME SafeInv, [Next]_vars PROVE SafeInv'
  OBVIOUS
<1>1. /\ Framed \in States /\ separator \in Separators /\ stream \in Seq(Items) /\ abandoned \in Nat
      /\ TypeInv /\ Settled(Framed) /\ BufferBounded
  BY DEF SafeInv, TypeInv
<1>2. /\ buf \in Seq(Bytes) /\ Len(buf) \in Nat /\ dropping \in BOOLEAN /\ dropped \in Nat
      /\ frames \in Seq(Seq(Bytes)) /\ discards \in Seq(Reports) /\ (~dropping => dropped = 0)
      /\ Carry \in Nat /\ MaxFrame \in Nat /\ Len(separator) \in Nat
  BY <1>1, LenProperties, SeparatorType DEF Framed, States, Settled
<1>3. ASSUME NEW src \in SeqOf(Bytes, ReadBufferBytes), ReadBytes(src) PROVE SafeInv'
  <2>1. src \in Seq(Bytes)
    BY <1>2, ReadType DEF ReadBufferBytes
  <2>2. /\ Split(Given(src)) \in States /\ Settled(Split(Given(src)))
        /\ Framed' = Bound(Split(Given(src)))
        /\ stream' = stream \o src /\ separator' = separator /\ abandoned' = abandoned
    BY <1>1, <1>3, <2>1, ReadIs
  <2>3. PICK g : g = Bound(Split(Given(src)))
    OBVIOUS
  <2>4. /\ g \in States /\ Settled(g)
        /\ Len(g.buf) <= IF g.dropping THEN Carry ELSE MaxFrame + Carry
    BY <1>1, <2>2, <2>3, BoundIs
  <2>5. Framed' = g /\ buf' = g.buf /\ dropping' = g.dropping
    BY <2>2, <2>3 DEF Framed
  <2>6. stream' \in Seq(Items)
    <3>1. src \in Seq(Items)
      BY <2>1, SeqMonotonic DEF Items
    <3> QED
      BY <1>1, <2>2, <3>1, ConcatProperties
  <2>7. BufferBounded'
    BY <2>2, <2>4, <2>5 DEF BufferBounded, Carry
  <2>8. Settled(Framed)'
    BY <2>4, <2>5 DEF Settled
  <2> QED
    BY <1>1, <2>2, <2>4, <2>5, <2>6, <2>7, <2>8 DEF SafeInv, TypeInv
<1>4. CASE Timeout
  <2>1. buf' = <<>> /\ dropped' = 0 /\ frames' = frames /\ separator' = separator
        /\ abandoned' = abandoned /\ stream' = Append(stream, Silence)
        /\ dropping' \in BOOLEAN
    BY <1>2, <1>4 DEF Timeout
  <2>2. discards' \in Seq(Reports)
    <3>1. Discard("inter_char_timeout", Len(buf)) \in Reports
          /\ Discard("resync", dropped + Len(buf)) \in Reports
      BY <1>2 DEF Discard, Reports
    <3>2. \/ discards' = discards
          \/ discards' = Append(discards, Discard("inter_char_timeout", Len(buf)))
          \/ discards' = Append(discards, Discard("resync", dropped + Len(buf)))
      BY <1>4 DEF Timeout, ResyncEnded
    <3>3. \A d \in Reports : Append(discards, d) \in Seq(Reports)
      BY <1>2, AppendProperties
    <3> QED
      BY <1>2, <3>1, <3>2, <3>3
  <2>3. Framed' \in States
    BY <1>2, <2>1, <2>2, EmptySeq DEF Framed, States
  <2>4. stream' \in Seq(Items)
    BY <1>1, <2>1, AppendProperties DEF Items
  <2>5. BufferBounded'
    BY <1>2, <2>1 DEF BufferBounded, Carry
  <2> QED
    BY <1>1, <2>1, <2>3, <2>4, <2>5 DEF SafeInv, TypeInv, Settled, Framed
<1>5. CASE Reopen
  <2>1. buf' = <<>> /\ dropped' = 0 /\ frames' = frames /\ separator' = separator
        /\ discards' = discards /\ stream' = Append(stream, Reopened)
        /\ dropping' = FALSE /\ abandoned' \in Nat
    BY <1>1, <1>2, <1>5 DEF Reopen
  <2>2. Framed' \in States
    BY <1>2, <2>1, EmptySeq DEF Framed, States
  <2>3. stream' \in Seq(Items)
    BY <1>1, <2>1, AppendProperties DEF Items
  <2>4. BufferBounded'
    BY <1>2, <2>1 DEF BufferBounded, Carry
  <2> QED
    BY <1>1, <2>1, <2>2, <2>3, <2>4 DEF SafeInv, TypeInv, Settled, Framed
<1>6. CASE UNCHANGED vars
  BY <1>1, <1>6 DEF vars, SafeInv, TypeInv, Settled, Framed, States, BufferBounded, Carry
<1> QED
  BY <1>3, <1>4, <1>5, <1>6 DEF Next

\* The framer's state is well typed and its buffer never outgrows a frame and
\* the part of a separator, whatever the device sends.
THEOREM BufferIsBounded == Spec => []BufferBounded
<1>1. SafeInv => BufferBounded
  BY DEF SafeInv
<1> QED
  BY <1>1, SafeInit, SafeStep, PTL DEF Spec
-----------------------------------------------------------------------------
(* What became of the bytes read.                                          *)

\* A sum, as the recursion computes it.
LEMMA SumIs ==
    ASSUME NEW s \in Seq(Nat)
    PROVE  \E g \in [0..Len(s) -> Nat] :
               /\ g[0] = 0 /\ SumOf(s) = g[Len(s)]
               /\ \A n \in 1..Len(s) : g[n] = g[n - 1] + s[n]
<1> DEFINE N == Len(s)
           Is(h) == h = [n \in 0..N |-> IF n = 0 THEN 0 ELSE h[n - 1] + s[n]]
           step == [n \in 1..N |-> [x \in Nat |-> x + s[n]]]
<1>1. N \in Nat /\ \A n \in 1..N : s[n] \in Nat
  BY LenProperties, ElementOfSeq
<1>2. step \in Steps(N, Nat)
  BY <1>1 DEF Steps
<1>3. Runs(N, Nat, 0, step)
  <2> HIDE DEF step, N
  <2> QED
    BY <1>1, <1>2, Iterates
<1>4. PICK g \in [0..N -> Nat] : g[0] = 0 /\ \A n \in 1..N : g[n] = step[n][g[n - 1]]
  BY <1>3 DEF Runs
<1>5. \A n \in 1..N : g[n] = g[n - 1] + s[n]
  <2> TAKE n \in 1..N
  <2>1. g[n - 1] \in Nat
    BY <1>1
  <2>2. step[n][g[n - 1]] = g[n - 1] + s[n]
    BY <2>1
  <2> QED
    BY <1>4, <2>2
<1>6. Is(g)
  BY <1>1, <1>4, <1>5
<1>7. SumOf(s) = (CHOOSE h : Is(h))[N]
  BY DEF SumOf
<1> DEFINE c == CHOOSE h : Is(h)
<1>8. Is(c)
  BY <1>6
<1> HIDE DEF step, c
<1>9. c[0] = 0 /\ \A n \in 1..N : c[n] = c[n - 1] + s[n]
  BY <1>1, <1>8
<1>10. c = g
  <2> DEFINE bad == {n \in 0..N : c[n] # g[n]}
  <2>1. ASSUME bad # {} PROVE FALSE
    <3>1. bad \in SUBSET Nat
      BY <1>1
    <3>2. PICK m \in bad : \A k \in bad : m <= k
      BY <2>1, <3>1, LeastOf
    <3>3. m \in 0..N /\ c[m] # g[m]
      OBVIOUS
    <3>4. m # 0
      BY <1>4, <1>9, <3>3
    <3>5. m - 1 \in 0..N /\ m \in 1..N /\ ~(m <= m - 1)
      BY <1>1, <3>3, <3>4
    <3>6. c[m - 1] = g[m - 1]
      BY <3>2, <3>5
    <3> QED
      BY <1>5, <1>9, <3>3, <3>5, <3>6
  <2>2. \A n \in 0..N : c[n] = g[n]
    BY <2>1
  <2> HIDE DEF N
  <2> QED
    BY <1>8, <2>2
<1> QED
  BY <1>4, <1>5, <1>7, <1>10 DEF c

LEMMA SumType ==
    ASSUME NEW s \in Seq(Nat) PROVE SumOf(s) \in Nat
<1>1. Len(s) \in Nat
  BY LenProperties
<1> QED
  BY <1>1, SumIs

LEMMA SumEmpty == ASSUME NEW s \in Seq(Nat), Len(s) = 0 PROVE SumOf(s) = 0
BY SumIs

\* One more number adds itself to the sum.
LEMMA SumAppend ==
    ASSUME NEW s \in Seq(Nat), NEW t \in Seq(Nat), Len(t) = Len(s) + 1,
           \A i \in 1..Len(s) : t[i] = s[i]
    PROVE  SumOf(t) = SumOf(s) + t[Len(t)]
<1>0. Len(s) \in Nat /\ Len(t) \in Nat
  BY LenProperties
<1>1. PICK g \in [0..Len(s) -> Nat] :
          /\ g[0] = 0 /\ SumOf(s) = g[Len(s)]
          /\ \A n \in 1..Len(s) : g[n] = g[n - 1] + s[n]
  BY SumIs
<1>2. PICK h \in [0..Len(t) -> Nat] :
          /\ h[0] = 0 /\ SumOf(t) = h[Len(t)]
          /\ \A n \in 1..Len(t) : h[n] = h[n - 1] + t[n]
  BY SumIs
<1> DEFINE bad == {n \in 0..Len(s) : g[n] # h[n]}
<1>3. ASSUME bad # {} PROVE FALSE
  <2>1. bad \in SUBSET Nat
    BY <1>0
  <2>2. PICK m \in bad : \A k \in bad : m <= k
    <3> HIDE DEF bad
    <3> QED
      BY <1>3, <2>1, LeastOf
  <2>3. m \in 1..Len(s) /\ m - 1 \in 0..Len(s) /\ ~(m <= m - 1) /\ g[m] # h[m] /\ m \in 1..Len(t)
    BY <1>0, <1>1, <1>2
  <2>4. g[m - 1] = h[m - 1] /\ t[m] = s[m]
    BY <2>2, <2>3
  <2> QED
    BY <1>1, <1>2, <2>3, <2>4
<1>4. g[Len(s)] = h[Len(s)]
  BY <1>0, <1>3
<1>5. Len(t) \in 1..Len(t) /\ Len(t) - 1 = Len(s)
  BY <1>0
<1>6. h[Len(t)] = h[Len(s)] + t[Len(t)]
  BY <1>2, <1>5
<1> QED
  BY <1>1, <1>2, <1>4, <1>6

\* FrameBytes, DiscardBytes and the oversize reports, of any history.
LengthsOf(fr) == [i \in 1..Len(fr) |-> Len(fr[i])]
SizesOf(ds) == [i \in 1..Len(ds) |-> ds[i].bytes]
Oversized(ds) == Cardinality({i \in 1..Len(ds) : ds[i].reason = "oversize"})

LEMMA FramesSum ==
    ASSUME NEW fr \in Seq(Seq(Bytes)), NEW x \in Seq(Bytes)
    PROVE  /\ SumOf(LengthsOf(fr)) \in Nat
           /\ SumOf(LengthsOf(Append(fr, x))) = SumOf(LengthsOf(fr)) + Len(x)
<1> DEFINE t == Append(fr, x)
<1>1. t \in Seq(Seq(Bytes)) /\ Len(t) = Len(fr) + 1 /\ t[Len(t)] = x
      /\ \A i \in 1..Len(fr) : t[i] = fr[i]
  BY AppendProperties
<1>2. Len(fr) \in Nat /\ Len(t) \in Nat /\ Len(x) \in Nat
  BY <1>1, LenProperties
<1>3. (\A i \in 1..Len(fr) : Len(fr[i]) \in Nat) /\ (\A i \in 1..Len(t) : Len(t[i]) \in Nat)
  BY <1>1, ElementOfSeq, LenProperties
<1> HIDE DEF t
<1>4. /\ LengthsOf(fr) \in Seq(Nat) /\ LengthsOf(t) \in Seq(Nat)
      /\ Len(LengthsOf(fr)) = Len(fr) /\ Len(LengthsOf(t)) = Len(t)
  BY <1>2, <1>3 DEF LengthsOf
<1>5. \A i \in 1..Len(fr) : LengthsOf(t)[i] = LengthsOf(fr)[i]
  BY <1>1, <1>2 DEF LengthsOf
<1>6. LengthsOf(t)[Len(t)] = Len(x)
  BY <1>1, <1>2 DEF LengthsOf
<1>7. SumOf(LengthsOf(t)) = SumOf(LengthsOf(fr)) + LengthsOf(t)[Len(LengthsOf(t))]
  BY <1>1, <1>4, <1>5, SumAppend
<1> QED
  BY <1>4, <1>6, <1>7, SumType DEF t

LEMMA ReportsSum ==
    ASSUME NEW ds \in Seq(Reports), NEW d \in Reports
    PROVE  /\ SumOf(SizesOf(ds)) \in Nat
           /\ SumOf(SizesOf(Append(ds, d))) = SumOf(SizesOf(ds)) + d.bytes
           /\ Oversized(ds) \in Nat
           /\ Oversized(Append(ds, d)) = Oversized(ds) + IF d.reason = "oversize" THEN 1 ELSE 0
<1> DEFINE t == Append(ds, d)
<1>1. t \in Seq(Reports) /\ Len(t) = Len(ds) + 1 /\ t[Len(t)] = d
      /\ \A i \in 1..Len(ds) : t[i] = ds[i]
  BY AppendProperties
<1>2. Len(ds) \in Nat /\ Len(t) \in Nat
  BY <1>1, LenProperties
<1>3. (\A i \in 1..Len(ds) : ds[i].bytes \in Nat) /\ (\A i \in 1..Len(t) : t[i].bytes \in Nat)
  <2>1. (\A i \in 1..Len(ds) : ds[i] \in Reports) /\ (\A i \in 1..Len(t) : t[i] \in Reports)
    BY <1>1, ElementOfSeq
  <2>2. \A r \in Reports : r.bytes \in Nat
    BY DEF Reports
  <2> QED
    BY <2>1, <2>2
<1> HIDE DEF t
<1>4. /\ SizesOf(ds) \in Seq(Nat) /\ SizesOf(t) \in Seq(Nat)
      /\ Len(SizesOf(ds)) = Len(ds) /\ Len(SizesOf(t)) = Len(t)
  BY <1>2, <1>3 DEF SizesOf
<1>5. \A i \in 1..Len(ds) : SizesOf(t)[i] = SizesOf(ds)[i]
  BY <1>1, <1>2 DEF SizesOf
<1>6. SizesOf(t)[Len(t)] = d.bytes
  BY <1>1, <1>2 DEF SizesOf
<1>7. SumOf(SizesOf(t)) = SumOf(SizesOf(ds)) + SizesOf(t)[Len(SizesOf(t))]
  BY <1>1, <1>4, <1>5, SumAppend
<1> DEFINE A == {i \in 1..Len(ds) : ds[i].reason = "oversize"}
           B == {i \in 1..Len(t) : t[i].reason = "oversize"}
<1>8. IsFiniteSet(A) /\ Cardinality(A) \in Nat
  <2>1. IsFiniteSet(1..Len(ds)) /\ A \subseteq 1..Len(ds)
    BY <1>2, FS_Interval
  <2> QED
    BY <2>1, FS_Subset, FS_CardinalityType
<1>9. Len(t) \notin A /\ B = IF d.reason = "oversize" THEN A \cup {Len(t)} ELSE A
  BY <1>1, <1>2
<1>10. Cardinality(B) = Cardinality(A) + IF d.reason = "oversize" THEN 1 ELSE 0
  <2> HIDE DEF A, B
  <2>1. CASE d.reason = "oversize"
    BY <1>8, <1>9, <2>1, FS_AddElement
  <2>2. CASE d.reason # "oversize"
    BY <1>8, <1>9, <2>2
  <2> QED
    BY <2>1, <2>2
<1> QED
  BY <1>4, <1>6, <1>7, <1>8, <1>10, SumType DEF t, Oversized

\* The account of a framer's bytes.
Account(f) ==
    SumOf(LengthsOf(f.frames)) + SumOf(SizesOf(f.discards))
    + (Len(f.frames) + Oversized(f.discards)) * Len(separator) + Len(f.buf) + f.dropped

\* The terms of the account are numbers.
LEMMA AccountTerms ==
    ASSUME separator \in Separators, NEW f \in States
    PROVE  /\ SumOf(LengthsOf(f.frames)) \in Nat /\ SumOf(SizesOf(f.discards)) \in Nat
           /\ Len(f.frames) \in Nat /\ Oversized(f.discards) \in Nat
           /\ Len(f.buf) \in Nat /\ f.dropped \in Nat /\ Len(separator) \in Nat
           /\ f.frames \in Seq(Seq(Bytes)) /\ f.discards \in Seq(Reports) /\ f.buf \in Seq(Bytes)
<1>1. /\ f.frames \in Seq(Seq(Bytes)) /\ f.discards \in Seq(Reports) /\ f.buf \in Seq(Bytes)
      /\ f.dropped \in Nat
  BY DEF States
<1>2. <<>> \in Seq(Bytes) /\ [reason |-> "resync", bytes |-> 0] \in Reports
  BY EmptySeq DEF Reports
<1>3. SumOf(LengthsOf(f.frames)) \in Nat
  BY <1>1, <1>2, FramesSum
<1>4. SumOf(SizesOf(f.discards)) \in Nat /\ Oversized(f.discards) \in Nat
  BY <1>1, <1>2, ReportsSum
<1>5. Len(f.frames) \in Nat /\ Len(f.buf) \in Nat /\ Len(separator) \in Nat
  BY <1>1, LenProperties, SeparatorType
<1> QED
  BY <1>1, <1>3, <1>4, <1>5

LEMMA OneMoreTimes == ASSUME NEW a \in Nat, NEW b \in Nat PROVE (a + 1) * b = a * b + b /\ a * b \in Nat
OBVIOUS
\* One more report.
LEMMA ReportSum ==
    ASSUME NEW ds \in Seq(Reports), NEW bytes \in Nat,
           NEW reason \in {"resync", "empty_frame", "oversize", "inter_char_timeout"}
    PROVE  LET t == Append(ds, Discard(reason, bytes))
           IN  /\ t \in Seq(Reports)
               /\ SumOf(SizesOf(t)) = SumOf(SizesOf(ds)) + bytes
               /\ Oversized(t) = Oversized(ds) + IF reason = "oversize" THEN 1 ELSE 0
<1>1. PICK d : d = Discard(reason, bytes)
  OBVIOUS
<1>2. d \in Reports /\ d.bytes = bytes /\ d.reason = reason
  BY <1>1 DEF Discard, Reports
<1>3. Append(ds, d) \in Seq(Reports)
  BY <1>2, AppendProperties
<1>4. SumOf(SizesOf(Append(ds, d))) = SumOf(SizesOf(ds)) + d.bytes
      /\ Oversized(Append(ds, d)) = Oversized(ds) + IF d.reason = "oversize" THEN 1 ELSE 0
  BY <1>2, ReportsSum
<1> QED
  BY <1>1, <1>2, <1>3, <1>4

\* The four ways the account is balanced.
LEMMA Balance ==
    ASSUME NEW a \in Nat, NEW b \in Nat, NEW p \in Nat, NEW n \in Nat, NEW d \in Nat,
           NEW at \in Nat, NEW len \in Nat
    PROVE  /\ a + (b + (d + at + len)) + p + (n - (at + len)) + 0 = a + b + p + n + d
           /\ a + (b + len) + p + (n - (0 + len)) + d = a + b + p + n + d
           /\ a + (b + at) + (p + len) + (n - (at + len)) + d = a + b + p + n + d
           /\ (a + at) + b + (p + len) + (n - (at + len)) + d = a + b + p + n + d
           /\ a + b + p + (n - at) + (d + at) = a + b + p + n + d
           /\ a + (b + n) + (p + len) + (n - at) + (d + at) >= a + b + p + n + d
OBVIOUS

\* A round moves bytes from the buffer to a frame or a report, and loses none.
LEMMA SplitOneKeepsAccount ==
    ASSUME separator \in Separators, NEW f \in States
    PROVE  Account(SplitOne(f)) = Account(f)
<1> DEFINE at == Index(f.buf)
           L == Len(separator)
<1>0. PICK g : g = SplitOne(f)
  OBVIOUS
<1>1. g \in States
  BY <1>0, SplitOneIs
<1>2. /\ SumOf(LengthsOf(f.frames)) \in Nat /\ SumOf(SizesOf(f.discards)) \in Nat
      /\ Len(f.frames) \in Nat /\ Oversized(f.discards) \in Nat
      /\ Len(f.buf) \in Nat /\ f.dropped \in Nat /\ L \in Nat /\ L # 0 /\ MaxFrame \in Nat
      /\ f.frames \in Seq(Seq(Bytes)) /\ f.discards \in Seq(Reports) /\ f.buf \in Seq(Bytes)
  BY AccountTerms, SeparatorType
<1>3. CASE at = -1
  BY <1>3, SplitOneIs
<1>4. CASE at # -1
  <2>1. g.buf = Drop(f.buf, at + L) /\ at + L \in 1..Len(f.buf) /\ at \in Nat
    <3>1. at = -1 \/ at \in 0..(Len(f.buf) - L)
      BY <1>2, IndexIs
    <3>2. at \in Nat
      BY <1>2, <1>4, <3>1
    <3>3. g.buf = Drop(f.buf, at + L) /\ at + L \in 1..Len(f.buf)
      BY <1>0, <1>4, SplitOneIs
    <3> QED
      BY <3>2, <3>3
  <2>2. Len(g.buf) = Len(f.buf) - (at + L)
    <3> HIDE DEF at, L
    <3>1. at + L \in 0..Len(f.buf)
      BY <1>2, <2>1
    <3> QED
      BY <1>2, <2>1, <3>1, DropIs
  <2>3. CASE f.dropping
    <3>1. g.dropped = 0 /\ g.frames = f.frames
          /\ g.discards = Append(f.discards, Discard("resync", f.dropped + at + L))
      BY <1>0, <1>4, <2>3, SplitOneIs
    <3> HIDE DEF at
    <3>2. PICK x : x = f.dropped + at + L
      OBVIOUS
    <3>8. x \in Nat /\ Oversized(f.discards) + 0 = Oversized(f.discards)
      BY <1>2, <2>1, <3>2
    <3>9. g.discards = Append(f.discards, Discard("resync", x))
      BY <3>1, <3>2
    <3>3. SumOf(SizesOf(g.discards)) = SumOf(SizesOf(f.discards)) + x
          /\ Oversized(g.discards) = Oversized(f.discards)
      BY <1>2, <3>8, <3>9, ReportSum
    <3>4. PICK p : p = (Len(f.frames) + Oversized(f.discards)) * L
      OBVIOUS
    <3>5. p \in Nat
      BY <1>2, <3>4
    <3> HIDE DEF L
    <3>6. /\ Account(f) = SumOf(LengthsOf(f.frames)) + SumOf(SizesOf(f.discards)) + p
                          + Len(f.buf) + f.dropped
          /\ Account(g) = SumOf(LengthsOf(f.frames)) + SumOf(SizesOf(g.discards)) + p
                          + Len(g.buf) + 0
      BY <3>1, <3>3, <3>4 DEF Account, L
    <3>7. Account(g) = Account(f)
      <4>1. PICK a, b, n, d : /\ a = SumOf(LengthsOf(f.frames)) /\ b = SumOf(SizesOf(f.discards))
                              /\ n = Len(f.buf) /\ d = f.dropped
        OBVIOUS
      <4>2. Account(g) = a + (b + (d + at + L)) + p + (n - (at + L)) + 0
            /\ Account(f) = a + b + p + n + d
        BY <2>2, <3>2, <3>3, <3>6, <4>1
      <4>3. a \in Nat /\ b \in Nat /\ n \in Nat /\ d \in Nat /\ at \in Nat /\ L \in Nat
        BY <1>2, <2>1, <4>1
      <4> QED
        BY <3>5, <4>2, <4>3, Balance
    <3> QED
      BY <1>0, <3>7
  <2>4. CASE ~f.dropping /\ at = 0
    <3>1. g.dropped = f.dropped /\ g.frames = f.frames
          /\ g.discards = Append(f.discards, Discard("empty_frame", L))
      BY <1>0, <1>4, <2>4, SplitOneIs
    <3> HIDE DEF at
    <3>2. Oversized(f.discards) + 0 = Oversized(f.discards)
      BY <1>2
    <3>3. SumOf(SizesOf(g.discards)) = SumOf(SizesOf(f.discards)) + L
          /\ Oversized(g.discards) = Oversized(f.discards)
      BY <1>2, <3>1, <3>2, ReportSum
    <3>4. PICK p : p = (Len(f.frames) + Oversized(f.discards)) * L
      OBVIOUS
    <3>5. p \in Nat
      BY <1>2, <3>4
    <3> HIDE DEF L
    <3>6. /\ Account(f) = SumOf(LengthsOf(f.frames)) + SumOf(SizesOf(f.discards)) + p
                          + Len(f.buf) + f.dropped
          /\ Account(g) = SumOf(LengthsOf(f.frames)) + SumOf(SizesOf(g.discards)) + p
                          + Len(g.buf) + f.dropped
      BY <3>1, <3>3, <3>4 DEF Account, L
    <3>7. Account(g) = Account(f)
      BY <1>2, <2>1, <2>2, <2>4, <3>3, <3>5, <3>6, Balance DEF at
    <3> QED
      BY <1>0, <3>7
  <2>5. CASE ~f.dropping /\ at > MaxFrame
    <3>1. g.dropped = f.dropped /\ g.frames = f.frames
          /\ g.discards = Append(f.discards, Discard("oversize", at))
      BY <1>0, <1>4, <2>5, SplitOneIs
    <3> HIDE DEF at
    <3>3. SumOf(SizesOf(g.discards)) = SumOf(SizesOf(f.discards)) + at
          /\ Oversized(g.discards) = Oversized(f.discards) + 1
      BY <1>2, <2>1, <3>1, ReportSum
    <3>4. PICK n : n = Len(f.frames) + Oversized(f.discards)
      OBVIOUS
    <3>5. n \in Nat /\ Len(g.frames) + Oversized(g.discards) = n + 1
      BY <1>2, <3>1, <3>3, <3>4
    <3>6. n * L \in Nat /\ (n + 1) * L = n * L + L
      BY <1>2, <3>5, OneMoreTimes
    <3> HIDE DEF L
    <3>7. /\ Account(f) = SumOf(LengthsOf(f.frames)) + SumOf(SizesOf(f.discards)) + n * L
                          + Len(f.buf) + f.dropped
          /\ Account(g) = SumOf(LengthsOf(f.frames)) + SumOf(SizesOf(g.discards)) + (n + 1) * L
                          + Len(g.buf) + f.dropped
      BY <3>1, <3>4, <3>5 DEF Account, L
    <3>8. Account(g) = Account(f)
      BY <1>2, <2>1, <2>2, <3>3, <3>6, <3>7, Balance
    <3> QED
      BY <1>0, <3>8
  <2>6. CASE ~f.dropping /\ at \in 1..MaxFrame
    <3>1. g.dropped = f.dropped /\ g.discards = f.discards
          /\ g.frames = Append(f.frames, SubSeq(f.buf, 1, at))
      BY <1>0, <1>4, <2>6, SplitOneIs
    <3> HIDE DEF at
    <3>2. SubSeq(f.buf, 1, at) \in Seq(Bytes) /\ Len(SubSeq(f.buf, 1, at)) = at
      <4>1. \A i \in 1..at : f.buf[i] \in Bytes
        BY <1>2, <2>1, ElementOfSeq
      <4>2. at \in Int /\ 1 <= at
        BY <1>2, <2>6
      <4>3. SubSeq(f.buf, 1, at) \in Seq(Bytes)
            /\ Len(SubSeq(f.buf, 1, at)) = IF 1 <= at THEN at - 1 + 1 ELSE 0
        BY <4>1, <4>2, SubSeqProperties
      <4> QED
        BY <4>2, <4>3
    <3>3. SumOf(LengthsOf(g.frames)) = SumOf(LengthsOf(f.frames)) + at
      BY <1>2, <3>1, <3>2, FramesSum
    <3>9. Len(g.frames) = Len(f.frames) + 1
      BY <1>2, <3>1, <3>2, AppendProperties
    <3>4. PICK n : n = Len(f.frames) + Oversized(f.discards)
      OBVIOUS
    <3>5. n \in Nat /\ Len(g.frames) + Oversized(g.discards) = n + 1
      BY <1>2, <3>1, <3>9, <3>4
    <3>6. n * L \in Nat /\ (n + 1) * L = n * L + L
      BY <1>2, <3>5, OneMoreTimes
    <3> HIDE DEF L
    <3>7. /\ Account(f) = SumOf(LengthsOf(f.frames)) + SumOf(SizesOf(f.discards)) + n * L
                          + Len(f.buf) + f.dropped
          /\ Account(g) = SumOf(LengthsOf(g.frames)) + SumOf(SizesOf(f.discards)) + (n + 1) * L
                          + Len(g.buf) + f.dropped
      BY <3>1, <3>4, <3>5 DEF Account, L
    <3>8. Account(g) = Account(f)
      BY <1>2, <2>1, <2>2, <3>3, <3>6, <3>7, Balance
    <3> QED
      BY <1>0, <3>8
  <2>7. at = 0 \/ at > MaxFrame \/ at \in 1..MaxFrame
    BY <1>2, <2>1
  <2> QED
    BY <2>3, <2>4, <2>5, <2>6, <2>7
<1> QED
  BY <1>3, <1>4

LEMMA SplitKeepsAccount ==
    ASSUME separator \in Separators, NEW f \in States
    PROVE  Account(Split(f)) = Account(f)
<1>0. Len(f.buf) \in Nat
  BY LenProperties DEF States
<1>1. PICK g \in [0..Len(f.buf) -> States] :
          /\ g[0] = f /\ Split(f) = g[Len(f.buf)]
          /\ \A n \in 1..Len(f.buf) : g[n] = SplitOne(g[n - 1])
  BY SplitIs
<1> DEFINE bad == {n \in 0..Len(f.buf) : Account(g[n]) # Account(f)}
<1>2. ASSUME bad # {} PROVE FALSE
  <2>1. bad \in SUBSET Nat
    BY <1>0
  <2>2. PICK m \in bad : \A k \in bad : m <= k
    <3> HIDE DEF bad
    <3> QED
      BY <1>2, <2>1, LeastOf
  <2>3. m \in 1..Len(f.buf) /\ m - 1 \in 0..Len(f.buf) /\ ~(m <= m - 1) /\ Account(g[m]) # Account(f)
    BY <1>0, <1>1
  <2>4. Account(g[m - 1]) = Account(f) /\ g[m - 1] \in States /\ g[m] = SplitOne(g[m - 1])
    BY <1>1, <2>2, <2>3
  <2> QED
    BY <2>3, <2>4, SplitOneKeepsAccount
<1> QED
  BY <1>0, <1>1, <1>2

\* The end of Append counts what it gives up, some of it twice: in the report
\* of the oversize frame and in that of the resynchronisation.
LEMMA BoundKeepsAccount ==
    ASSUME separator \in Separators, NEW f \in States, Settled(f)
    PROVE  Account(Bound(f)) >= Account(f)
<1> DEFINE L == Len(separator)
           T == Trim(f.buf)
<1>0. PICK g : g = Bound(f)
  OBVIOUS
<1>1. /\ SumOf(LengthsOf(f.frames)) \in Nat /\ SumOf(SizesOf(f.discards)) \in Nat
      /\ Len(f.frames) \in Nat /\ Oversized(f.discards) \in Nat
      /\ Len(f.buf) \in Nat /\ f.dropped \in Nat /\ L \in Nat
      /\ f.frames \in Seq(Seq(Bytes)) /\ f.discards \in Seq(Reports) /\ f.buf \in Seq(Bytes)
  BY AccountTerms
<1>2. /\ T \in 0..Len(f.buf) /\ g.frames = f.frames
      /\ g.dropping => /\ g.buf = Drop(f.buf, T) /\ g.dropped = f.dropped + T
      /\ ~g.dropping => g = f
      /\ f.dropping => g.discards = f.discards
      /\ ~f.dropping /\ g.dropping =>
           g.discards = Append(f.discards, Discard("oversize", Len(f.buf)))
  BY <1>0, BoundIs
<1> HIDE DEF T
<1>3. Len(Drop(f.buf, T)) = Len(f.buf) - T
  BY <1>1, <1>2, DropIs
<1>4. PICK n : n = Len(f.frames) + Oversized(f.discards)
  OBVIOUS
<1> HIDE DEF L
<1>5. n \in Nat /\ n * L \in Nat /\ (n + 1) * L = n * L + L
  <2>1. n \in Nat
    BY <1>1, <1>4
  <2> QED
    BY <1>1, <2>1, OneMoreTimes
<1>6. Account(f) = SumOf(LengthsOf(f.frames)) + SumOf(SizesOf(f.discards)) + n * L
                   + Len(f.buf) + f.dropped
  BY <1>4 DEF Account, L
<1>7. CASE ~g.dropping
  BY <1>0, <1>1, <1>2, <1>5, <1>6, <1>7
<1>8. CASE g.dropping /\ f.dropping
  <2>1. Account(g) = SumOf(LengthsOf(f.frames)) + SumOf(SizesOf(f.discards)) + n * L
                     + (Len(f.buf) - T) + (f.dropped + T)
    BY <1>2, <1>3, <1>4, <1>8 DEF Account, L
  <2> QED
    BY <1>0, <1>1, <1>2, <1>5, <1>6, <2>1
<1>9. CASE g.dropping /\ ~f.dropping
  <2>1. PICK x : x = Len(f.buf)
    OBVIOUS
  <2>6. x \in Nat /\ g.discards = Append(f.discards, Discard("oversize", x))
    BY <1>1, <1>2, <1>9, <2>1
  <2>2. SumOf(SizesOf(g.discards)) = SumOf(SizesOf(f.discards)) + x
        /\ Oversized(g.discards) = Oversized(f.discards) + 1
    BY <1>1, <2>6, ReportSum
  <2>3. Len(g.frames) + Oversized(g.discards) = n + 1
    BY <1>1, <1>2, <1>4, <2>2
  <2>4. Account(g) = SumOf(LengthsOf(f.frames)) + SumOf(SizesOf(g.discards)) + (n + 1) * L
                     + (Len(f.buf) - T) + (f.dropped + T)
    BY <1>2, <1>3, <1>9, <2>3 DEF Account, L
  <2>5. T \in Nat
    BY <1>1, <1>2
  <2> QED
    <3>1. PICK a, b, p, d : /\ a = SumOf(LengthsOf(f.frames)) /\ b = SumOf(SizesOf(f.discards))
                            /\ p = n * L /\ d = f.dropped
      OBVIOUS
    <3>2. Account(g) = a + (b + x) + (p + L) + (x - T) + (d + T) /\ Account(f) = a + b + p + x + d
      BY <1>5, <1>6, <2>1, <2>2, <2>4, <3>1
    <3>3. a \in Nat /\ b \in Nat /\ p \in Nat /\ d \in Nat /\ L \in Nat /\ x \in Nat
      BY <1>1, <1>5, <2>6, <3>1
    <3> QED
      BY <1>0, <2>5, <3>2, <3>3, Balance
<1> QED
  BY <1>7, <1>8, <1>9
\* A read adds its bytes to those of the stream.
LEMMA BytesRead ==
    ASSUME NEW s \in Seq(Items), NEW src \in Seq(Bytes)
    PROVE  BytesIn(s) \in Nat /\ BytesIn(s \o src) = BytesIn(s) + Len(src)
<1>1. src \in Seq(Items)
  BY SeqMonotonic DEF Items
<1>2. /\ s \o src \in Seq(Items) /\ Len(s \o src) = Len(s) + Len(src)
      /\ Len(s) \in Nat /\ Len(src) \in Nat
      /\ \A i \in 1..(Len(s) + Len(src)) : (s \o src)[i] = IF i <= Len(s) THEN s[i] ELSE src[i - Len(s)]
  BY <1>1, ConcatProperties, LenProperties
<1> DEFINE A == {i \in 1..Len(s) : s[i] \in Bytes}
           B == (Len(s) + 1)..(Len(s) + Len(src))
           C == {i \in 1..(Len(s) + Len(src)) : (s \o src)[i] \in Bytes}
<1>3. IsFiniteSet(A) /\ Cardinality(A) \in Nat
  <2>1. IsFiniteSet(1..Len(s)) /\ A \subseteq 1..Len(s)
    BY <1>2, FS_Interval
  <2> QED
    BY <2>1, FS_Subset, FS_CardinalityType
<1>4. IsFiniteSet(B) /\ Cardinality(B) = Len(src)
  <2>1. Len(s) + 1 \in Int /\ Len(s) + Len(src) \in Int
    BY <1>2
  <2>3. PICK lo, hi : lo = Len(s) + 1 /\ hi = Len(s) + Len(src)
    OBVIOUS
  <2>4. lo \in Int /\ hi \in Int
    BY <2>1, <2>3
  <2>2. IsFiniteSet(lo..hi) /\ Cardinality(lo..hi) = IF lo > hi THEN 0 ELSE hi - lo + 1
    BY <2>4, FS_Interval
  <2>5. B = lo..hi
    BY <2>3
  <2> HIDE DEF B
  <2> QED
    BY <1>2, <2>2, <2>3, <2>5
<1>5. C = A \cup B /\ A \cap B = {}
  <2>1. \A i \in B : (s \o src)[i] \in Bytes
    <3> TAKE i \in B
    <3>1. i - Len(s) \in 1..Len(src) /\ (s \o src)[i] = src[i - Len(s)]
      BY <1>2
    <3> QED
      BY <3>1, ElementOfSeq
  <2>2. \A i \in 1..Len(s) : (s \o src)[i] = s[i]
    BY <1>2
  <2> QED
    BY <1>2, <2>1, <2>2
<1>6. Cardinality(C) = Cardinality(A) + Cardinality(B)
  <2> HIDE DEF A, B, C
  <2>1. Cardinality(A \cup B) = Cardinality(A) + Cardinality(B) - Cardinality(A \cap B)
    BY <1>3, <1>4, FS_Union
  <2>2. Cardinality(A \cap B) = 0
    BY <1>5, FS_EmptySet
  <2> QED
    BY <1>2, <1>3, <1>4, <1>5, <2>1, <2>2
<1>7. BytesIn(s) = Cardinality(A) /\ BytesIn(s \o src) = Cardinality(C)
  BY <1>2 DEF BytesIn
<1> QED
  BY <1>3, <1>4, <1>6, <1>7

\* Silence and a lost port add none.
LEMMA NoBytesRead ==
    ASSUME NEW s \in Seq(Items), NEW item \in {Silence, Reopened}
    PROVE  BytesIn(Append(s, item)) = BytesIn(s)
<1>1. item \in Items /\ item \notin Bytes
  BY FramerAssumption DEF Items, Silence, Reopened
<1>2. /\ Len(Append(s, item)) = Len(s) + 1 /\ Len(s) \in Nat
      /\ \A i \in 1..Len(s) : Append(s, item)[i] = s[i]
      /\ Append(s, item)[Len(s) + 1] = item
  BY <1>1, AppendProperties, LenProperties
<1>3. {i \in 1..Len(s) : s[i] \in Bytes} = {i \in 1..Len(Append(s, item)) : Append(s, item)[i] \in Bytes}
  BY <1>1, <1>2
<1> QED
  BY <1>3 DEF BytesIn

\* NothingLostSilently, in the words of the account.
LEMMA AccountIs ==
    NothingLostSilently <=> BytesIn(stream) <= Account(Framed) + abandoned
BY DEF NothingLostSilently, Account, Framed, FrameBytes, DiscardBytes, LengthsOf, SizesOf, Oversized

AccountInv == SafeInv /\ NothingLostSilently

\* The account of what the framer holds and reported, by its parts.
Books(fr, ds, b, drop, len) ==
    SumOf(LengthsOf(fr)) + SumOf(SizesOf(ds)) + (Len(fr) + Oversized(ds)) * len + Len(b) + drop

LEMMA AccountStep == AccountInv /\ [Next]_vars => AccountInv'
<1> SUFFICES ASSUME AccountInv, [Next]_vars PROVE AccountInv'
  OBVIOUS
<1>0. SafeInv /\ SafeInv'
  BY SafeStep DEF AccountInv
<1>1. /\ Framed \in States /\ separator \in Separators /\ stream \in Seq(Items) /\ abandoned \in Nat
      /\ TypeInv /\ Settled(Framed)
  BY <1>0 DEF SafeInv, TypeInv
<1>2. /\ buf \in Seq(Bytes) /\ Len(buf) \in Nat /\ dropped \in Nat
      /\ discards \in Seq(Reports) /\ (~dropping => dropped = 0) /\ Len(separator) \in Nat
  BY <1>1, LenProperties, SeparatorType DEF Framed, States, Settled
<1>3. /\ NothingLostSilently <=>
           BytesIn(stream) <= Books(frames, discards, buf, dropped, Len(separator)) + abandoned
      /\ NothingLostSilently' <=>
           BytesIn(stream') <= Books(frames', discards', buf', dropped', Len(separator')) + abandoned'
  BY DEF NothingLostSilently, Books, FrameBytes, DiscardBytes, LengthsOf, SizesOf, Oversized
<1>4. \A f : Account(f) = Books(f.frames, f.discards, f.buf, f.dropped, Len(separator))
  BY DEF Account, Books
<1>5. BytesIn(stream) <= Account(Framed) + abandoned
  BY <1>3, <1>4 DEF AccountInv, Framed
<1>6. \A f \in States : Account(f) \in Nat
  <2> TAKE f \in States
  <2>1. PICK p : p = (Len(f.frames) + Oversized(f.discards)) * Len(separator)
    OBVIOUS
  <2>2. p \in Nat
    BY <1>1, <2>1, AccountTerms
  <2>3. Account(f) = SumOf(LengthsOf(f.frames)) + SumOf(SizesOf(f.discards)) + p
                     + Len(f.buf) + f.dropped
    BY <2>1 DEF Account
  <2> QED
    BY <1>1, <2>2, <2>3, AccountTerms
<1>7. ASSUME NEW src \in SeqOf(Bytes, ReadBufferBytes), ReadBytes(src) PROVE NothingLostSilently'
  <2>1. src \in Seq(Bytes) /\ Len(src) \in Nat
    <3>1. ReadBufferBytes \in Nat
      BY <1>1, SeparatorType DEF ReadBufferBytes
    <3>2. src \in Seq(Bytes)
      BY <3>1, ReadType
    <3> QED
      BY <3>2, LenProperties
  <2>2. /\ Given(src) \in States /\ Settled(Given(src))
        /\ Split(Given(src)) \in States /\ Settled(Split(Given(src)))
        /\ Framed' = Bound(Split(Given(src)))
        /\ stream' = stream \o src /\ separator' = separator /\ abandoned' = abandoned
    BY <1>1, <1>7, <2>1, ReadIs
  <2>3. PICK g : g = Bound(Split(Given(src)))
    OBVIOUS
  <2>4. g \in States
    BY <1>1, <2>2, <2>3, BoundIs
  <2>5. Account(g) >= Account(Split(Given(src))) /\ Account(Split(Given(src))) = Account(Given(src))
    BY <1>1, <2>2, <2>3, BoundKeepsAccount, SplitKeepsAccount
  <2>6. Account(Given(src)) = Account(Framed) + Len(src)
    <3>1. Len(buf \o src) = Len(buf) + Len(src)
      BY <1>2, <2>1, ConcatProperties
    <3>2. PICK q : q = SumOf(LengthsOf(frames)) + SumOf(SizesOf(discards))
                       + (Len(frames) + Oversized(discards)) * Len(separator)
      OBVIOUS
    <3>3. Account(Given(src)) = q + (Len(buf) + Len(src)) + dropped
          /\ Account(Framed) = q + Len(buf) + dropped
      BY <3>1, <3>2 DEF Account, Given, Framed
    <3>4. q \in Int
      <4>1. PICK p : p = (Len(frames) + Oversized(discards)) * Len(separator)
        OBVIOUS
      <4>2. /\ SumOf(LengthsOf(frames)) \in Nat /\ SumOf(SizesOf(discards)) \in Nat
            /\ Len(frames) \in Nat /\ Oversized(discards) \in Nat
        BY <1>1, AccountTerms DEF Framed
      <4>3. p \in Nat
        BY <1>2, <4>1, <4>2
      <4> QED
        BY <3>2, <4>1, <4>2, <4>3
    <3> QED
      BY <1>2, <2>1, <3>3, <3>4
  <2>7. BytesIn(stream') = BytesIn(stream) + Len(src) /\ BytesIn(stream) \in Nat
    BY <1>1, <2>1, <2>2, BytesRead
  <2>8. BytesIn(stream') <= Account(g) + abandoned'
    <3>1. Account(Framed) \in Nat /\ Account(g) \in Nat /\ Account(Given(src)) \in Nat
      BY <1>1, <1>6, <2>2, <2>4
    <3> QED
      BY <1>1, <1>5, <2>1, <2>2, <2>5, <2>6, <2>7, <3>1
  <2>9. Framed' = g /\ buf' = g.buf /\ dropped' = g.dropped /\ frames' = g.frames
        /\ discards' = g.discards
    BY <2>2, <2>3 DEF Framed
  <2>10. Account(g) = Books(frames', discards', buf', dropped', Len(separator'))
    BY <1>4, <2>2, <2>9
  <2> QED
    BY <1>3, <2>8, <2>10
<1>8. ASSUME Timeout \/ Reopen
      PROVE  /\ frames' = frames /\ separator' = separator /\ Len(buf') = 0 /\ dropped' = 0
             /\ BytesIn(stream') = BytesIn(stream) /\ BytesIn(stream) \in Nat
  <2>1. /\ frames' = frames /\ separator' = separator /\ buf' = <<>> /\ dropped' = 0
        /\ \E item \in {Silence, Reopened} : stream' = Append(stream, item)
    BY <1>8 DEF Timeout, Reopen
  <2>2. BytesIn(stream') = BytesIn(stream)
    BY <1>1, <2>1, NoBytesRead
  <2>3. BytesIn(stream) \in Nat
    BY <1>1, EmptySeq, BytesRead
  <2> QED
    BY <2>1, <2>2, <2>3
<1>9. PICK a, b, p : /\ a = SumOf(LengthsOf(frames)) /\ b = SumOf(SizesOf(discards))
                     /\ p = (Len(frames) + Oversized(discards)) * Len(separator)
  OBVIOUS
<1>10. a \in Nat /\ b \in Nat /\ p \in Nat
  <2>1. /\ a \in Nat /\ b \in Nat
        /\ Len(frames) \in Nat /\ Oversized(discards) \in Nat
    BY <1>1, <1>9, AccountTerms DEF Framed
  <2> QED
    BY <1>2, <1>9, <2>1
<1>11. BytesIn(stream) <= a + b + p + Len(buf) + dropped + abandoned
  BY <1>3, <1>9 DEF AccountInv, Books
\* A report that is not of an oversize frame adds its bytes and nothing else.
<1>12. ASSUME NEW reason \in {"resync", "inter_char_timeout"}, NEW bytes \in Nat,
              discards' = Append(discards, Discard(reason, bytes)),
              Timeout \/ Reopen
       PROVE  Books(frames', discards', buf', dropped', Len(separator')) = a + (b + bytes) + p + 0 + 0
  <2>1. SumOf(SizesOf(discards')) = b + bytes /\ Oversized(discards') = Oversized(discards) + 0
    BY <1>2, <1>9, <1>12, ReportSum
  <2>2. Oversized(discards) + 0 = Oversized(discards)
    <3>1. Oversized(discards) \in Nat
      BY <1>1, AccountTerms DEF Framed
    <3> QED
      BY <3>1
  <2> QED
    BY <1>8, <1>9, <1>12, <2>1, <2>2 DEF Books
<1>13. ASSUME discards' = discards, Timeout \/ Reopen
       PROVE  Books(frames', discards', buf', dropped', Len(separator')) = a + b + p + 0 + 0
  BY <1>8, <1>9, <1>13 DEF Books
<1>14. CASE Timeout
  <2>0. SUFFICES NothingLostSilently'
    BY <1>0 DEF AccountInv
  <2>1. abandoned' = abandoned
    BY <1>14 DEF Timeout
  <2>2. CASE dropping
    <3>1. PICK x : x = dropped + Len(buf)
      OBVIOUS
    <3>2. x \in Nat
      BY <1>2, <3>1
    <3>3. discards' = IF x = 0 THEN discards ELSE Append(discards, Discard("resync", x))
      BY <1>14, <2>2, <3>1 DEF Timeout, ResyncEnded
    <3>4. CASE x = 0
      <4>1. Books(frames', discards', buf', dropped', Len(separator')) = a + b + p + 0 + 0
        BY <1>13, <1>14, <3>3, <3>4
      <4> QED
        BY <1>1, <1>2, <1>3, <1>8, <1>10, <1>11, <1>14, <2>1, <3>1, <3>4, <4>1
    <3>5. CASE x # 0
      <4>1. Books(frames', discards', buf', dropped', Len(separator')) = a + (b + x) + p + 0 + 0
        BY <1>12, <1>14, <3>2, <3>3, <3>5
      <4> QED
        BY <1>1, <1>2, <1>3, <1>8, <1>10, <1>11, <1>14, <2>1, <3>1, <4>1
    <3> QED
      BY <3>4, <3>5
  <2>3. CASE ~dropping /\ buf = <<>>
    <3>1. discards' = discards /\ Len(buf) = 0 /\ dropped = 0
      BY <1>2, <1>14, <2>3 DEF Timeout
    <3>2. Books(frames', discards', buf', dropped', Len(separator')) = a + b + p + 0 + 0
      BY <1>13, <1>14, <3>1
    <3> QED
      BY <1>1, <1>3, <1>8, <1>10, <1>11, <1>14, <2>1, <3>1, <3>2
  <2>4. CASE ~dropping /\ buf # <<>>
    <3>1. PICK x : x = Len(buf)
      OBVIOUS
    <3>2. x \in Nat /\ discards' = Append(discards, Discard("inter_char_timeout", x)) /\ dropped = 0
      BY <1>2, <1>14, <2>4, <3>1 DEF Timeout
    <3>3. Books(frames', discards', buf', dropped', Len(separator')) = a + (b + x) + p + 0 + 0
      BY <1>12, <1>14, <3>2
    <3> QED
      BY <1>1, <1>3, <1>8, <1>10, <1>11, <1>14, <2>1, <3>1, <3>2, <3>3
  <2> QED
    BY <2>2, <2>3, <2>4
<1>15. CASE Reopen
  <2>1. abandoned' = abandoned + Len(buf) + dropped /\ discards' = discards
    BY <1>15 DEF Reopen
  <2>2. Books(frames', discards', buf', dropped', Len(separator')) = a + b + p + 0 + 0
    BY <1>13, <1>15, <2>1
  <2>3. NothingLostSilently'
    BY <1>1, <1>2, <1>3, <1>8, <1>10, <1>11, <1>15, <2>1, <2>2
  <2> QED
    BY <1>0, <2>3 DEF AccountInv
<1>16. CASE UNCHANGED vars
  <2>1. NothingLostSilently'
    BY <1>3, <1>16 DEF vars, AccountInv
  <2> QED
    BY <1>0, <2>1 DEF AccountInv
<1> QED
  BY <1>0, <1>7, <1>14, <1>15, <1>16 DEF Next, AccountInv

\* No byte is lost without a word: whatever a device sends and however it is
\* read, each byte is accounted for.
THEOREM NoByteIsLost == Spec => []NothingLostSilently
<1>1. Init => AccountInv
  <2> SUFFICES ASSUME Init PROVE AccountInv
    OBVIOUS
  <2>1. SafeInv /\ Framed \in States /\ separator \in Separators
    BY SafeInit DEF SafeInv, TypeInv
  <2>2. BytesIn(stream) = 0
    <3>1. {i \in 1..Len(stream) : stream[i] \in Bytes} = {}
      BY DEF Init
    <3> QED
      BY <3>1, FS_EmptySet DEF BytesIn
  <2>3. NothingLostSilently <=> 0 <= Account(Framed) + 0
    BY <2>2, AccountIs DEF Init
  <2>4. PICK p : p = (Len(frames) + Oversized(discards)) * Len(separator)
    OBVIOUS
  <2>5. /\ SumOf(LengthsOf(frames)) \in Nat /\ SumOf(SizesOf(discards)) \in Nat
        /\ Len(frames) \in Nat /\ Oversized(discards) \in Nat
        /\ Len(buf) \in Nat /\ dropped \in Nat /\ Len(separator) \in Nat
    BY <2>1, AccountTerms DEF Framed
  <2>6. p \in Nat
    BY <2>4, <2>5
  <2>7. Account(Framed) = SumOf(LengthsOf(frames)) + SumOf(SizesOf(discards)) + p + Len(buf) + dropped
    BY <2>4 DEF Account, Framed
  <2> QED
    BY <2>1, <2>3, <2>5, <2>6, <2>7 DEF AccountInv
<1>2. AccountInv => NothingLostSilently
  BY DEF AccountInv
<1> QED
  BY <1>1, <1>2, AccountStep, PTL DEF Spec
-----------------------------------------------------------------------------
(* The frames of the stream.                                               *)

\* What the reference knows.
Known == [part : Seq(Bytes), broken : BOOLEAN, frames : Seq(Seq(Bytes))]

\* The framer f and the reference r agree when r has seen the first k bytes of
\* f's buffer: they end r's unfinished frame, and are all of it unless the
\* framer dropped some, which it did only of a frame it will not emit; and
\* there is no separator among them.
Follows(f, r, k) ==
    /\ k \in 0..Len(f.buf) /\ k <= Len(r.part)
    /\ f.frames = r.frames
    /\ \A j \in 1..k : r.part[Len(r.part) - k + j] = f.buf[j]
    /\ Len(r.part) = k \/ k >= Carry
    /\ ~f.dropping => ~r.broken /\ Len(r.part) = k
    /\ f.dropping => r.broken \/ Len(r.part) > MaxFrame + Carry
    /\ \A i \in 0..(k - Len(separator)) : ~SepAt(f.buf, i)

\* A byte for the reference: it ends a frame or is one more byte of it.
LEMMA RefByteIs ==
    ASSUME separator \in Separators, NEW r \in Known, NEW byte \in Bytes
    PROVE  LET q == RefByte(separator, r, byte)
               p == Append(r.part, byte)
               n == Len(r.part) + 1 - Len(separator)
               ends == n >= 0 /\ \A j \in 1..Len(separator) : p[n + j] = separator[j]
           IN  /\ q \in Known
               /\ p \in Seq(Bytes) /\ Len(p) = Len(r.part) + 1 /\ p[Len(r.part) + 1] = byte
               /\ \A i \in 1..Len(r.part) : p[i] = r.part[i]
               /\ Len(r.part) \in Nat
               /\ ends => /\ q.part = <<>> /\ q.broken = FALSE
                          /\ ~r.broken /\ n \in 1..MaxFrame =>
                               q.frames = Append(r.frames, SubSeq(p, 1, n))
                          /\ ~(~r.broken /\ n \in 1..MaxFrame) => q.frames = r.frames
               /\ ~ends => q.part = p /\ q.broken = r.broken /\ q.frames = r.frames
<1> DEFINE q == RefByte(separator, r, byte)
           p == Append(r.part, byte)
           L == Len(separator)
           n == Len(r.part) + 1 - L
           ends == n >= 0 /\ \A j \in 1..L : p[n + j] = separator[j]
<1>0. r.part \in Seq(Bytes) /\ r.broken \in BOOLEAN /\ r.frames \in Seq(Seq(Bytes))
      /\ Len(r.part) \in Nat /\ L \in Nat \ {0} /\ separator \in Seq(Bytes) /\ MaxFrame \in Nat
  BY LenProperties, SeparatorType DEF Known
<1>1. p \in Seq(Bytes) /\ Len(p) = Len(r.part) + 1 /\ p[Len(r.part) + 1] = byte
      /\ \A i \in 1..Len(r.part) : p[i] = r.part[i]
  BY <1>0, AppendProperties
<1>2. n \in Int /\ n < Len(p) /\ Len(p) - L = n
  BY <1>0, <1>1
<1>3. (n >= 0 /\ Drop(p, n) = separator) <=> ends
  <2>1. ASSUME n >= 0
        PROVE  Drop(p, n) = separator <=> \A j \in 1..L : p[n + j] = separator[j]
    <3> HIDE DEF p, n
    <3>1. n \in 0..Len(p) /\ Len(p) - n = L
      BY <1>0, <1>1, <1>2, <2>1
    <3>2. Drop(p, n) \in Seq(Bytes) /\ Len(Drop(p, n)) = L
          /\ \A j \in 1..L : Drop(p, n)[j] = p[n + j]
      BY <1>1, <3>1, DropIs
    <3>3. (\A j \in 1..L : Drop(p, n)[j] = separator[j]) => Drop(p, n) = separator
      BY <1>0, <3>2, SeqEqual
    <3> QED
      BY <3>2, <3>3
  <2> QED
    BY <2>1
<1>4. q = IF ~(Len(p) - L >= 0 /\ Drop(p, Len(p) - L) = separator) THEN [r EXCEPT !.part = p]
          ELSE [part |-> <<>>, broken |-> FALSE,
                frames |-> IF ~r.broken /\ Len(p) - L \in 1..MaxFrame
                           THEN Append(r.frames, SubSeq(p, 1, Len(p) - L)) ELSE r.frames]
  BY DEF RefByte
<1> HIDE DEF p
<1>5. q = IF ~ends THEN [r EXCEPT !.part = p]
          ELSE [part |-> <<>>, broken |-> FALSE,
                frames |-> IF ~r.broken /\ n \in 1..MaxFrame
                           THEN Append(r.frames, SubSeq(p, 1, n)) ELSE r.frames]
  BY <1>2, <1>3, <1>4, Zenon
<1> HIDE DEF q, ends
<1>6. CASE ~ends
  <2>1. q = [r EXCEPT !.part = p]
    BY <1>5, <1>6
  <2>2. q.part = p /\ q.broken = r.broken /\ q.frames = r.frames /\ q \in Known
    BY <1>1, <2>1 DEF Known
  <2> QED
    BY <1>0, <1>1, <1>6, <2>2 DEF p, q, ends
<1>7. CASE ends
  <2>1. /\ q.part = <<>> /\ q.broken = FALSE
        /\ ~r.broken /\ n \in 1..MaxFrame => q.frames = Append(r.frames, SubSeq(p, 1, n))
        /\ ~(~r.broken /\ n \in 1..MaxFrame) => q.frames = r.frames
    BY <1>5, <1>7
  <2>2. n \in 1..MaxFrame => Append(r.frames, SubSeq(p, 1, n)) \in Seq(Seq(Bytes))
    <3> SUFFICES ASSUME n \in 1..MaxFrame PROVE Append(r.frames, SubSeq(p, 1, n)) \in Seq(Seq(Bytes))
      OBVIOUS
    <3> HIDE DEF n
    <3>1. \A i \in 1..n : p[i] \in Bytes
      BY <1>0, <1>1, <1>2, ElementOfSeq
    <3>2. SubSeq(p, 1, n) \in Seq(Bytes)
      BY <1>2, <3>1, SubSeqProperties
    <3> QED
      BY <1>0, <3>2, AppendProperties
  <2>3. q.frames \in Seq(Seq(Bytes))
    BY <1>0, <2>1, <2>2
  <2>4. q = [part |-> <<>>, broken |-> FALSE, frames |-> q.frames]
    BY <1>5, <1>7
  <2>5. q \in Known
    <3>1. \A fr \in Seq(Seq(Bytes)) : [part |-> <<>>, broken |-> FALSE, frames |-> fr] \in Known
      BY EmptySeq DEF Known
    <3> QED
      BY <2>3, <2>4, <3>1
  <2> QED
    BY <1>0, <1>1, <1>7, <2>1, <2>5 DEF p, q, ends
<1> QED
  BY <1>6, <1>7

\* The last bytes the reference has seen, with the next one, are those of the
\* buffer.
LEMMA WindowIs ==
    ASSUME separator \in Separators, NEW f \in States, NEW r \in Known, NEW k \in Nat,
           Follows(f, r, k), k < Len(f.buf), k + 1 >= Len(separator)
    PROVE  \A j \in 1..Len(separator) :
               Append(r.part, f.buf[k + 1])[Len(r.part) + 1 - Len(separator) + j]
                   = f.buf[k + 1 - Len(separator) + j]
<1> DEFINE L == Len(separator)
<1>0. f.buf \in Seq(Bytes) /\ Len(f.buf) \in Nat /\ L \in Nat \ {0}
  BY LenProperties, SeparatorType DEF States
<1>1. k + 1 \in 1..Len(f.buf)
  BY <1>0
<1>2. PICK byte \in Bytes : byte = f.buf[k + 1]
  BY <1>0, <1>1, ElementOfSeq
<1>3. PICK p : p = Append(r.part, byte)
  OBVIOUS
<1>4. Len(p) = Len(r.part) + 1 /\ p[Len(r.part) + 1] = byte /\ Len(r.part) \in Nat
      /\ \A i \in 1..Len(r.part) : p[i] = r.part[i]
  BY <1>3, RefByteIs
<1>5. k <= Len(r.part) /\ \A j \in 1..k : r.part[Len(r.part) - k + j] = f.buf[j]
  BY DEF Follows
<1>6. ASSUME NEW j \in 1..L PROVE p[Len(r.part) + 1 - L + j] = f.buf[k + 1 - L + j]
  <2>1. CASE j = L
    <3>1. Len(r.part) + 1 - L + j = Len(r.part) + 1 /\ k + 1 - L + j = k + 1
      BY <1>0, <1>4, <2>1
    <3> QED
      BY <1>2, <1>4, <3>1
  <2>2. CASE j # L
    <3>1. PICK i : i = k + 1 - L + j
      OBVIOUS
    <3>4. i \in 1..k
      <4>1. j \in Int /\ 1 <= j /\ j < L /\ L <= k + 1 /\ L \in Int
        BY <1>0, <2>2
      <4> HIDE DEF L
      <4> QED
        BY <3>1, <4>1
    <3>2. Len(r.part) + 1 - L + j = Len(r.part) - k + i /\ Len(r.part) - k + i \in 1..Len(r.part)
      <4>1. PICK len : len = Len(r.part)
        OBVIOUS
      <4>2. len \in Nat /\ k <= len /\ L \in Int /\ j \in Int
        BY <1>0, <1>4, <1>5, <4>1
      <4> HIDE DEF L
      <4>3. len + 1 - L + j = len - k + i /\ len - k + i \in 1..len
        BY <3>1, <3>4, <4>2
      <4> QED
        BY <4>1, <4>3
    <3>3. p[Len(r.part) - k + i] = f.buf[i]
      BY <1>4, <1>5, <3>2, <3>4
    <3> QED
      BY <3>1, <3>2, <3>3
  <2> QED
    BY <2>1, <2>2
<1> QED
  BY <1>2, <1>3, <1>6

\* The reference sees a byte that ends no separator.
LEMMA FollowsByte ==
    ASSUME separator \in Separators, NEW f \in States, NEW r \in Known, NEW k \in Nat,
           Follows(f, r, k), k < Len(f.buf),
           k + 1 >= Len(separator) => ~SepAt(f.buf, k + 1 - Len(separator))
    PROVE  Follows(f, RefByte(separator, r, f.buf[k + 1]), k + 1)
<1> DEFINE L == Len(separator)
<1>0. f.buf \in Seq(Bytes) /\ Len(f.buf) \in Nat /\ L \in Nat \ {0} /\ Carry = L - 1 /\ MaxFrame \in Nat
  BY LenProperties, SeparatorType DEF States
<1>1. k + 1 \in 1..Len(f.buf)
  BY <1>0
<1>2. PICK byte \in Bytes : byte = f.buf[k + 1]
  BY <1>0, <1>1, ElementOfSeq
<1>3. PICK p, q : p = Append(r.part, byte) /\ q = RefByte(separator, r, byte)
  OBVIOUS
<1>4. Len(p) = Len(r.part) + 1 /\ p[Len(r.part) + 1] = byte /\ Len(r.part) \in Nat
      /\ \A i \in 1..Len(r.part) : p[i] = r.part[i]
  BY <1>3, RefByteIs
<1> DEFINE n == Len(r.part) + 1 - L
           ends == n >= 0 /\ \A j \in 1..L : p[n + j] = separator[j]
<1>5. /\ k <= Len(r.part) /\ \A j \in 1..k : r.part[Len(r.part) - k + j] = f.buf[j]
      /\ Len(r.part) = k \/ k >= Carry
  BY DEF Follows
<1>6. ~ends
  <2>1. CASE k + 1 >= L
    <3>1. \A j \in 1..L : p[n + j] = f.buf[k + 1 - L + j]
      BY <1>2, <1>3, <2>1, WindowIs
    <3>2. k + 1 - L \in 0..(Len(f.buf) - L)
      BY <1>0, <1>1, <2>1
    <3>3. ~ \A j \in 1..L : f.buf[(k + 1 - L) + j] = separator[j]
      BY <1>0, <2>1, <3>2, SepAtIs
    <3> QED
      BY <3>1, <3>3
  <2>2. CASE ~(k + 1 >= L)
    BY <1>0, <1>4, <1>5, <2>2
  <2> QED
    BY <2>1, <2>2
<1>7. q.part = p /\ q.broken = r.broken /\ q.frames = r.frames
  BY <1>3, <1>6, RefByteIs
<1>8. \A j \in 1..(k + 1) : q.part[Len(q.part) - (k + 1) + j] = f.buf[j]
  <2> TAKE j \in 1..(k + 1)
  <2>1. Len(q.part) - (k + 1) + j = Len(r.part) - k + j
    BY <1>4, <1>7
  <2>2. CASE j = k + 1
    <3>1. Len(r.part) - k + (k + 1) = Len(r.part) + 1
      <4>1. \A len \in Nat : len - k + (k + 1) = len + 1
        OBVIOUS
      <4> QED
        BY <1>4, <4>1
    <3> QED
      BY <1>2, <1>4, <1>7, <2>1, <2>2, <3>1
  <2>3. CASE j # k + 1
    <3>1. j \in 1..k /\ Len(r.part) - k + j \in 1..Len(r.part)
      BY <1>4, <1>5, <2>3
    <3> QED
      BY <1>4, <1>5, <1>7, <2>1, <3>1
  <2> QED
    BY <2>2, <2>3
<1>9. \A i \in 0..(k + 1 - L) : ~SepAt(f.buf, i)
  <2> TAKE i \in 0..(k + 1 - L)
  <2>1. CASE i = k + 1 - L
    BY <1>0, <2>1
  <2>2. CASE i # k + 1 - L
    <3>1. i \in 0..(k - L)
      BY <1>0, <2>2
    <3> QED
      BY <3>1 DEF Follows
  <2> QED
    BY <2>1, <2>2
<1>10. k + 1 \in 0..Len(f.buf) /\ k + 1 <= Len(q.part) /\ f.frames = q.frames
       /\ (Len(q.part) = k + 1 \/ k + 1 >= Carry)
  BY <1>0, <1>1, <1>4, <1>5, <1>7 DEF Follows
<1>11. ~f.dropping => ~q.broken /\ Len(q.part) = k + 1
  BY <1>4, <1>7 DEF Follows
<1>12. f.dropping => q.broken \/ Len(q.part) > MaxFrame + Carry
  <2>1. Len(r.part) > MaxFrame + Carry => Len(q.part) > MaxFrame + Carry
    BY <1>0, <1>4, <1>7
  <2> QED
    BY <1>7, <2>1 DEF Follows
<1>13. Follows(f, q, k + 1)
  BY <1>8, <1>9, <1>10, <1>11, <1>12 DEF Follows
<1> QED
  BY <1>2, <1>3, <1>13

\* The reference sees the last byte of the first separator, and the framer
\* splits at it: both have emitted the same frame, or none.
LEMMA FollowsSplit ==
    ASSUME separator \in Separators, NEW f \in States, NEW r \in Known, NEW k \in Nat,
           Follows(f, r, k), k < Len(f.buf), Index(f.buf) # -1,
           Index(f.buf) = k + 1 - Len(separator)
    PROVE  Follows(SplitOne(f), RefByte(separator, r, f.buf[k + 1]), 0)
<1> DEFINE L == Len(separator)
           at == Index(f.buf)
<1>0. f.buf \in Seq(Bytes) /\ Len(f.buf) \in Nat /\ L \in Nat \ {0} /\ Carry = L - 1
      /\ MaxFrame \in Nat /\ f.dropping \in BOOLEAN /\ r.broken \in BOOLEAN
  BY LenProperties, SeparatorType DEF States, Known
<1>1. k + 1 \in 1..Len(f.buf)
  BY <1>0
<1>2. PICK byte \in Bytes : byte = f.buf[k + 1]
  BY <1>0, <1>1, ElementOfSeq
<1>3. PICK p, q, g : p = Append(r.part, byte) /\ q = RefByte(separator, r, byte) /\ g = SplitOne(f)
  OBVIOUS
<1>4. Len(p) = Len(r.part) + 1 /\ Len(r.part) \in Nat /\ p \in Seq(Bytes)
      /\ p[Len(r.part) + 1] = byte /\ \A i \in 1..Len(r.part) : p[i] = r.part[i]
  BY <1>3, RefByteIs
<1>5. at \in 0..(Len(f.buf) - L) /\ SepAt(f.buf, at) /\ at = k + 1 - L
  BY <1>0, IndexIs
<1> HIDE DEF at
<1>6. \A j \in 1..L : f.buf[at + j] = separator[j]
  BY <1>0, <1>5, SepAtIs
<1> DEFINE n == Len(r.part) + 1 - L
           ends == n >= 0 /\ \A j \in 1..L : p[n + j] = separator[j]
<1>7. /\ k <= Len(r.part) /\ \A j \in 1..k : r.part[Len(r.part) - k + j] = f.buf[j]
      /\ ~f.dropping => ~r.broken /\ Len(r.part) = k
      /\ f.dropping => r.broken \/ Len(r.part) > MaxFrame + Carry
      /\ f.frames = r.frames
  BY DEF Follows
<1>8. ends
  <2>1. k + 1 >= L
    BY <1>0, <1>5
  <2>2. \A j \in 1..L : p[n + j] = f.buf[k + 1 - L + j]
    BY <1>2, <1>3, <2>1, WindowIs
  <2>3. n >= 0
    BY <1>0, <1>4, <1>7, <2>1
  <2> QED
    BY <1>5, <1>6, <2>2, <2>3
<1>9. /\ q.part = <<>> /\ q.broken = FALSE
      /\ ~r.broken /\ n \in 1..MaxFrame => q.frames = Append(r.frames, SubSeq(p, 1, n))
      /\ ~(~r.broken /\ n \in 1..MaxFrame) => q.frames = r.frames
  <2> HIDE DEF ends
  <2>1. ends => /\ q.part = <<>> /\ q.broken = FALSE
                /\ ~r.broken /\ n \in 1..MaxFrame => q.frames = Append(r.frames, SubSeq(p, 1, n))
                /\ ~(~r.broken /\ n \in 1..MaxFrame) => q.frames = r.frames
    BY <1>3, RefByteIs DEF ends
  <2> QED
    BY <1>8, <2>1
<1> HIDE DEF ends
<1>10. at # -1 /\ at \in Nat
  BY <1>0, <1>5
<1>11. g.dropping = FALSE /\ g \in States
  BY <1>3, <1>10, SplitOneIs DEF at
<1>12. g.frames = q.frames
  <2>1. CASE f.dropping
    <3>1. g.frames = f.frames
      BY <1>3, <1>10, <2>1, SplitOneIs DEF at
    <3>2. ~(~r.broken /\ n \in 1..MaxFrame)
      <4>1. Len(r.part) > MaxFrame + Carry => ~(n \in 1..MaxFrame)
        BY <1>0, <1>4
      <4> QED
        BY <1>7, <2>1, <4>1
    <3> QED
      BY <1>7, <1>9, <3>1, <3>2
  <2>2. CASE ~f.dropping
    <3>1. ~r.broken /\ Len(r.part) = k /\ n = at
      BY <1>4, <1>5, <1>7, <2>2
    <3>2. CASE at \in 1..MaxFrame
      <4>1. g.frames = Append(f.frames, SubSeq(f.buf, 1, at))
        BY <1>3, <1>10, <2>2, <3>2, SplitOneIs DEF at
      <4>2. \A i \in 1..at : p[i] = f.buf[i] /\ p[i] \in Bytes
        <5> TAKE i \in 1..at
        <5>1. i \in 1..k /\ Len(r.part) - k + i = i /\ i \in 1..Len(r.part) /\ i \in 1..Len(p)
          BY <1>0, <1>4, <1>5, <3>1
        <5>2. p[i] = f.buf[i]
          BY <1>4, <1>7, <5>1
        <5> QED
          BY <1>4, <5>1, <5>2, ElementOfSeq
      <4>3. SubSeq(p, 1, at) = SubSeq(f.buf, 1, at)
        <5>1. at \in Int /\ 1 <= at
          BY <1>10, <3>2
        <5>2. SubSeq(p, 1, at) \in Seq(Bytes) /\ Len(SubSeq(p, 1, at)) = at
              /\ \A i \in 1..at : SubSeq(p, 1, at)[i] = p[i]
          <6>1. /\ SubSeq(p, 1, at) \in Seq(Bytes)
                /\ Len(SubSeq(p, 1, at)) = IF 1 <= at THEN at - 1 + 1 ELSE 0
                /\ \A i \in 1..(at - 1 + 1) : SubSeq(p, 1, at)[i] = p[1 + i - 1]
            BY <4>2, <5>1, SubSeqProperties
          <6> QED
            BY <5>1, <6>1
        <5>3. SubSeq(f.buf, 1, at) \in Seq(Bytes) /\ Len(SubSeq(f.buf, 1, at)) = at
              /\ \A i \in 1..at : SubSeq(f.buf, 1, at)[i] = f.buf[i]
          <6>2. \A i \in 1..at : f.buf[i] \in Bytes
            BY <4>2
          <6>1. /\ SubSeq(f.buf, 1, at) \in Seq(Bytes)
                /\ Len(SubSeq(f.buf, 1, at)) = IF 1 <= at THEN at - 1 + 1 ELSE 0
                /\ \A i \in 1..(at - 1 + 1) : SubSeq(f.buf, 1, at)[i] = f.buf[1 + i - 1]
            BY <5>1, <6>2, SubSeqProperties
          <6> QED
            BY <5>1, <6>1
        <5>4. \A i \in 1..Len(SubSeq(p, 1, at)) : SubSeq(p, 1, at)[i] = SubSeq(f.buf, 1, at)[i]
          BY <4>2, <5>2, <5>3
        <5> QED
          BY <5>2, <5>3, <5>4, SeqEqual
      <4> QED
        BY <1>7, <1>9, <3>1, <3>2, <4>1, <4>3
    <3>3. CASE at \notin 1..MaxFrame
      <4>1. at = 0 \/ at > MaxFrame
        BY <1>0, <1>10, <3>3
      <4>2. g.frames = f.frames
        BY <1>3, <1>10, <2>2, <4>1, SplitOneIs DEF at
      <4> QED
        BY <1>7, <1>9, <3>1, <3>3, <4>2
    <3> QED
      BY <3>2, <3>3
  <2> QED
    BY <2>1, <2>2
<1>13. Len(q.part) = 0 /\ 0 \in 0..Len(g.buf) /\ \A i \in 0..(0 - L) : FALSE
  <2>1. Len(g.buf) \in Nat
    BY <1>11, LenProperties DEF States
  <2> QED
    BY <1>0, <1>9, <2>1
<1>14. Follows(g, q, 0)
  BY <1>0, <1>9, <1>11, <1>12, <1>13 DEF Follows
<1> QED
  BY <1>2, <1>3, <1>14
\* The reference over a stream, one item at a time.
IsRef(a, s) ==
    /\ a \in [0..Len(s) -> Known]
    /\ a[0] = Nothing
    /\ \A n \in 1..Len(s) : a[n] = RefItem(separator, a[n - 1], s[n])

LEMMA RefItemType ==
    ASSUME separator \in Separators, NEW r \in Known, NEW item \in Items
    PROVE  RefItem(separator, r, item) \in Known
<1>1. CASE item = Silence
  <2>1. RefItem(separator, r, item) = RefSilence(separator, r)
    BY <1>1 DEF RefItem
  <2> QED
    BY <2>1, EmptySeq DEF RefSilence, Known
<1>2. CASE item = Reopened /\ item # Silence
  <2>1. RefItem(separator, r, item) = [Nothing EXCEPT !.frames = r.frames]
    BY <1>2 DEF RefItem
  <2> QED
    BY <2>1, EmptySeq DEF Nothing, Known
<1>3. CASE item # Silence /\ item # Reopened
  <2>1. item \in Bytes /\ RefItem(separator, r, item) = RefByte(separator, r, item)
    BY <1>3 DEF RefItem, Items
  <2> QED
    BY <2>1, RefByteIs
<1> QED
  BY <1>1, <1>2, <1>3

LEMMA RefOfByte ==
    ASSUME NEW r, NEW item \in Bytes
    PROVE  RefItem(separator, r, item) = RefByte(separator, r, item)
BY FramerAssumption DEF RefItem, Silence, Reopened

\* Two runs of the reference agree as long as their streams do.
LEMMA RefPrefix ==
    ASSUME NEW s \in Seq(Items), NEW t \in Seq(Items), NEW a, NEW b, IsRef(a, s), IsRef(b, t),
           NEW M \in 0..Len(s), M <= Len(t), \A i \in 1..M : s[i] = t[i]
    PROVE  a[M] = b[M]
<1>0. Len(s) \in Nat /\ Len(t) \in Nat
  BY LenProperties
<1> DEFINE bad == {n \in 0..M : a[n] # b[n]}
<1>1. ASSUME bad # {} PROVE FALSE
  <2>1. bad \in SUBSET Nat
    BY <1>0
  <2>2. PICK m \in bad : \A k \in bad : m <= k
    <3> HIDE DEF bad
    <3> QED
      BY <1>1, <2>1, LeastOf
  <2>3. m \in 0..M /\ a[m] # b[m]
    OBVIOUS
  <2>4. m # 0
    BY <2>3 DEF IsRef
  <2>5. m \in 1..M /\ m - 1 \in 0..M /\ ~(m <= m - 1) /\ m \in 1..Len(s) /\ m \in 1..Len(t)
    BY <1>0, <2>3, <2>4
  <2>6. a[m - 1] = b[m - 1] /\ s[m] = t[m]
    BY <2>2, <2>5
  <2> QED
    BY <2>3, <2>5, <2>6 DEF IsRef
<1> QED
  BY <1>0, <1>1

\* RefAfter is such a run.
LEMMA RefIs ==
    ASSUME separator \in Separators, NEW s \in Seq(Items)
    PROVE  \E a : IsRef(a, s) /\ RefAfter(separator, s) = a[Len(s)]
<1> DEFINE N == Len(s)
           Is(h) == h = [n \in 0..N |-> IF n = 0 THEN Nothing ELSE RefItem(separator, h[n - 1], s[n])]
           step == [n \in 1..N |-> [x \in Known |-> RefItem(separator, x, s[n])]]
<1>1. N \in Nat /\ Nothing \in Known /\ \A n \in 1..N : s[n] \in Items
  BY LenProperties, ElementOfSeq, EmptySeq DEF Nothing, Known
<1>2. step \in Steps(N, Known)
  <2>1. \A n \in 1..N, x \in Known : RefItem(separator, x, s[n]) \in Known
    BY <1>1, RefItemType
  <2> QED
    BY <2>1 DEF Steps
<1>3. Runs(N, Known, Nothing, step)
  <2> HIDE DEF step, N
  <2> QED
    BY <1>1, <1>2, Iterates
<1>4. PICK g \in [0..N -> Known] : g[0] = Nothing /\ \A n \in 1..N : g[n] = step[n][g[n - 1]]
  BY <1>3 DEF Runs
<1>5. \A n \in 1..N : g[n] = RefItem(separator, g[n - 1], s[n])
  <2> TAKE n \in 1..N
  <2>1. g[n - 1] \in Known
    BY <1>1
  <2> QED
    BY <1>4, <2>1
<1>6. Is(g)
  BY <1>1, <1>4, <1>5
<1>7. RefAfter(separator, s) = (CHOOSE h : Is(h))[N]
  BY DEF RefAfter
<1> DEFINE c == CHOOSE h : Is(h)
<1>8. Is(c)
  BY <1>6
<1> HIDE DEF step, c
<1>9. c[0] = Nothing /\ \A n \in 1..N : c[n] = RefItem(separator, c[n - 1], s[n])
  BY <1>1, <1>8
<1>10. \A n \in 0..N : c[n] = g[n]
  <2> DEFINE bad == {n \in 0..N : c[n] # g[n]}
  <2>1. ASSUME bad # {} PROVE FALSE
    <3>1. bad \in SUBSET Nat
      BY <1>1
    <3>2. PICK m \in bad : \A k \in bad : m <= k
      BY <2>1, <3>1, LeastOf
    <3>3. m \in 0..N /\ c[m] # g[m]
      OBVIOUS
    <3>4. m # 0
      BY <1>4, <1>9, <3>3
    <3>5. m - 1 \in 0..N /\ m \in 1..N /\ ~(m <= m - 1)
      BY <1>1, <3>3, <3>4
    <3>6. c[m - 1] = g[m - 1]
      BY <3>2, <3>5
    <3> QED
      BY <1>5, <1>9, <3>3, <3>5, <3>6
  <2> QED
    BY <2>1
<1>11. IsRef(g, s)
  BY <1>4, <1>5 DEF IsRef
<1>12. RefAfter(separator, s) = g[N]
  BY <1>1, <1>7, <1>10 DEF c
<1> QED
  BY <1>11, <1>12

\* One more item.
LEMMA RefAppend ==
    ASSUME separator \in Separators, NEW s \in Seq(Items), NEW item \in Items
    PROVE  RefAfter(separator, Append(s, item)) = RefItem(separator, RefAfter(separator, s), item)
           /\ RefAfter(separator, s) \in Known
<1>1. PICK t : t = Append(s, item)
  OBVIOUS
<1>2. t \in Seq(Items) /\ Len(t) = Len(s) + 1 /\ t[Len(s) + 1] = item
      /\ (\A i \in 1..Len(s) : t[i] = s[i]) /\ Len(s) \in Nat
  BY <1>1, AppendProperties, LenProperties
<1>3. PICK a : IsRef(a, s) /\ RefAfter(separator, s) = a[Len(s)]
  BY RefIs
<1>4. PICK b : IsRef(b, t) /\ RefAfter(separator, t) = b[Len(t)]
  BY <1>2, RefIs
<1>5. a[Len(s)] = b[Len(s)]
  <2>1. Len(s) \in 0..Len(s) /\ Len(s) <= Len(t) /\ \A i \in 1..Len(s) : s[i] = t[i]
    BY <1>2
  <2> QED
    BY <1>2, <1>3, <1>4, <2>1, RefPrefix
<1>6. b[Len(t)] = RefItem(separator, b[Len(t) - 1], t[Len(t)]) /\ Len(t) - 1 = Len(s)
  BY <1>2, <1>4 DEF IsRef
<1>7. a[Len(s)] \in Known
  BY <1>2, <1>3 DEF IsRef
<1> QED
  BY <1>1, <1>2, <1>3, <1>4, <1>5, <1>6, <1>7

\* The reference has read p items of s; what it has not read of them is what
\* it has not seen of the buffer.
Fed(f, a, s, p, k) ==
    /\ p \in 0..Len(s) /\ k \in Nat
    /\ Follows(f, a[p], k)
    /\ Len(f.buf) - k = Len(s) - p
    /\ \A j \in 1..(Len(s) - p) : s[p + j] = f.buf[k + j]

\* The reference reads one more byte, which ends no separator.
LEMMA FeedOne ==
    ASSUME separator \in Separators, NEW f \in States, NEW s \in Seq(Items), NEW a, IsRef(a, s),
           NEW p, NEW k, Fed(f, a, s, p, k), p < Len(s),
           k + 1 >= Len(separator) => ~SepAt(f.buf, k + 1 - Len(separator))
    PROVE  Fed(f, a, s, p + 1, k + 1)
<1>0. Len(s) \in Nat /\ p \in 0..Len(s) /\ k \in Nat /\ f.buf \in Seq(Bytes) /\ Len(f.buf) \in Nat
  BY LenProperties DEF Fed, States
<1>1. k < Len(f.buf) /\ k + 1 \in 1..Len(f.buf) /\ p + 1 \in 1..Len(s)
      /\ 1 \in 1..(Len(s) - p) /\ Len(f.buf) - (k + 1) = Len(s) - (p + 1)
  BY <1>0 DEF Fed
<1>2. s[p + 1] = f.buf[k + 1] /\ f.buf[k + 1] \in Bytes
  BY <1>0, <1>1, ElementOfSeq DEF Fed
<1>3. a[p] \in Known /\ a[p + 1] = RefItem(separator, a[(p + 1) - 1], s[p + 1]) /\ (p + 1) - 1 = p
  BY <1>0, <1>1 DEF IsRef
<1>4. a[p + 1] = RefByte(separator, a[p], f.buf[k + 1])
  BY <1>2, <1>3, RefOfByte
<1>5. Follows(f, a[p + 1], k + 1)
  <2>1. Follows(f, a[p], k)
    BY DEF Fed
  <2> QED
    BY <1>0, <1>1, <1>3, <1>4, <2>1, FollowsByte
<1>6. \A j \in 1..(Len(s) - (p + 1)) : s[(p + 1) + j] = f.buf[(k + 1) + j]
  <2> TAKE j \in 1..(Len(s) - (p + 1))
  <2>1. j + 1 \in 1..(Len(s) - p) /\ p + (j + 1) = (p + 1) + j /\ k + (j + 1) = (k + 1) + j
    BY <1>0
  <2> QED
    BY <2>1 DEF Fed
<1> QED
  BY <1>0, <1>1, <1>5, <1>6 DEF Fed

\* It reads more of them, as long as they hold no separator.
LEMMA Feed ==
    ASSUME separator \in Separators, NEW f \in States, NEW s \in Seq(Items), NEW a, IsRef(a, s),
           NEW p, NEW k, Fed(f, a, s, p, k), NEW d \in Nat, p + d <= Len(s),
           \A i \in 0..(k + d - Len(separator)) : ~SepAt(f.buf, i)
    PROVE  Fed(f, a, s, p + d, k + d)
<1>0. Len(s) \in Nat /\ p \in Nat /\ k \in Nat /\ Len(separator) \in Nat
  BY LenProperties, SeparatorType DEF Fed
<1> DEFINE bad == {n \in 0..d : ~Fed(f, a, s, p + n, k + n)}
<1>1. ASSUME bad # {} PROVE FALSE
  <2>1. bad \in SUBSET Nat
    OBVIOUS
  <2>2. PICK m \in bad : \A n \in bad : m <= n
    <3> HIDE DEF bad
    <3> QED
      BY <1>1, <2>1, LeastOf
  <2>3. m \in 0..d /\ ~Fed(f, a, s, p + m, k + m)
    OBVIOUS
  <2>4. m # 0
    <3>1. p + 0 = p /\ k + 0 = k
      BY <1>0
    <3> QED
      BY <2>3, <3>1
  <2>5. PICK n : n = m - 1
    OBVIOUS
  <2>6. n \in 0..d /\ ~(m <= n) /\ p + n < Len(s) /\ (p + n) + 1 = p + m /\ (k + n) + 1 = k + m
        /\ (k + n) + 1 <= k + d
    BY <1>0, <2>3, <2>4, <2>5
  <2>7. Fed(f, a, s, p + n, k + n)
    BY <2>2, <2>6
  <2>8. (k + n) + 1 >= Len(separator) => ~SepAt(f.buf, (k + n) + 1 - Len(separator))
    <3>1. (k + n) + 1 >= Len(separator) => (k + n) + 1 - Len(separator) \in 0..(k + d - Len(separator))
      BY <1>0, <2>6
    <3> QED
      BY <3>1
  <2>9. Fed(f, a, s, (p + n) + 1, (k + n) + 1)
    <3>1. PICK x, y : x = p + n /\ y = k + n
      OBVIOUS
    <3>2. Fed(f, a, s, x, y) /\ x < Len(s) /\ (y + 1 >= Len(separator) => ~SepAt(f.buf, y + 1 - Len(separator)))
      BY <2>6, <2>7, <2>8, <3>1
    <3>3. Fed(f, a, s, x + 1, y + 1)
      BY <3>2, FeedOne
    <3> QED
      BY <3>1, <3>3
  <2> QED
    BY <2>3, <2>6, <2>9
<1> QED
  BY <1>1
\* A round of the loop: the reference reads up to the end of the separator the
\* framer splits at.
LEMMA RoundFollows ==
    ASSUME separator \in Separators, NEW f \in States, NEW s \in Seq(Items), NEW a, IsRef(a, s),
           NEW p, NEW k, Fed(f, a, s, p, k)
    PROVE  \E p2, k2 : Fed(SplitOne(f), a, s, p2, k2)
<1> DEFINE L == Len(separator)
           at == Index(f.buf)
<1>0. Len(s) \in Nat /\ p \in 0..Len(s) /\ k \in Nat /\ f.buf \in Seq(Bytes) /\ Len(f.buf) \in Nat
      /\ L \in Nat \ {0} /\ Len(f.buf) - k = Len(s) - p
  BY LenProperties, SeparatorType DEF Fed, States
<1>1. CASE at = -1
  <2>1. SplitOne(f) = f
    BY <1>1, SplitOneIs
  <2> QED
    BY <2>1
<1>2. CASE at # -1
  <2>1. at \in 0..(Len(f.buf) - L) /\ SepAt(f.buf, at) /\ \A i \in 0..(at - 1) : ~SepAt(f.buf, i)
    BY <1>0, <1>2, IndexIs
  <2>2. SplitOne(f).buf = Drop(f.buf, at + L) /\ SplitOne(f) \in States
    BY <1>2, SplitOneIs
  <2> HIDE DEF at
  <2>3. at > k - L
    <3>1. \A i \in 0..(k - L) : ~SepAt(f.buf, i)
      BY DEF Fed, Follows
    <3> QED
      BY <1>0, <2>1, <3>1
  <2>4. PICK d : d = at + L - 1 - k
    OBVIOUS
  <2>5. d \in Nat /\ k + d = at + L - 1 /\ p + d < Len(s) /\ k + d < Len(f.buf)
        /\ k + d - L = at - 1 /\ at = (k + d) + 1 - L
    BY <1>0, <2>1, <2>3, <2>4
  <2>6. Fed(f, a, s, p + d, k + d)
    <3>1. \A i \in 0..(k + d - L) : ~SepAt(f.buf, i)
      BY <2>1, <2>5
    <3>2. p + d <= Len(s)
      BY <1>0, <2>5
    <3> QED
      BY <2>5, <3>1, <3>2, Feed
  <2>7. PICK x, y : x = p + d /\ y = k + d
    OBVIOUS
  <2>8. Fed(f, a, s, x, y) /\ x \in 0..Len(s) /\ x < Len(s) /\ y < Len(f.buf) /\ at = y + 1 - L /\ y \in Nat
        /\ Len(f.buf) - y = Len(s) - x
    BY <1>0, <2>5, <2>6, <2>7 DEF Fed
  <2>9. y + 1 \in 1..Len(f.buf) /\ x + 1 \in 1..Len(s) /\ 1 \in 1..(Len(s) - x) /\ (x + 1) - 1 = x
        /\ y + 1 = at + L
    BY <1>0, <2>1, <2>8
  <2>10. s[x + 1] = f.buf[y + 1] /\ f.buf[y + 1] \in Bytes
    BY <1>0, <2>8, <2>9, ElementOfSeq DEF Fed
  <2>11. a[x] \in Known /\ a[x + 1] = RefByte(separator, a[x], f.buf[y + 1])
    <3>1. a[x] \in Known /\ a[x + 1] = RefItem(separator, a[(x + 1) - 1], s[x + 1])
      BY <2>8, <2>9 DEF IsRef
    <3> QED
      BY <2>9, <2>10, <3>1, RefOfByte
  <2>12. Follows(SplitOne(f), a[x + 1], 0)
    <3>1. Follows(f, a[x], y)
      BY <2>8 DEF Fed
    <3> QED
      BY <1>2, <2>8, <2>11, <3>1, FollowsSplit DEF at
  <2>13. PICK g : g = SplitOne(f)
    OBVIOUS
  <2>14. Len(g.buf) = Len(f.buf) - (y + 1) /\ \A j \in 1..(Len(f.buf) - (y + 1)) : g.buf[j] = f.buf[(y + 1) + j]
    <3>1. PICK e : e = y + 1
      OBVIOUS
    <3>2. e \in 0..Len(f.buf) /\ g.buf = Drop(f.buf, e)
      BY <1>0, <2>2, <2>9, <2>13, <3>1
    <3>4. f.buf \in Seq(Bytes)
      BY <1>0
    <3>3. Len(g.buf) = Len(f.buf) - e /\ \A j \in 1..(Len(f.buf) - e) : g.buf[j] = f.buf[e + j]
      BY <3>2, <3>4, DropIs
    <3> QED
      BY <3>1, <3>3
  <2>15. Len(g.buf) - 0 = Len(s) - (x + 1) /\ Len(f.buf) - (y + 1) = Len(s) - (x + 1)
    BY <1>0, <2>8, <2>14
  <2>16. \A j \in 1..(Len(s) - (x + 1)) : s[(x + 1) + j] = g.buf[0 + j]
    <3> TAKE j \in 1..(Len(s) - (x + 1))
    <3>1. j + 1 \in 1..(Len(s) - x) /\ x + (j + 1) = (x + 1) + j /\ y + (j + 1) = (y + 1) + j /\ 0 + j = j
      BY <1>0, <2>8
    <3>2. s[x + (j + 1)] = f.buf[y + (j + 1)]
      BY <2>8, <3>1 DEF Fed
    <3> QED
      BY <2>14, <2>15, <3>1, <3>2
  <2>17. Fed(g, a, s, x + 1, 0)
    <3>1. x + 1 \in 0..Len(s) /\ 0 \in Nat
      BY <1>0, <2>9
    <3> QED
      BY <2>12, <2>13, <2>15, <2>16, <3>1 DEF Fed
  <2> QED
    BY <2>13, <2>17
<1> QED
  BY <1>1, <1>2

\* After as many rounds as there are bytes no separator is left.
LEMMA SplitFollows ==
    ASSUME separator \in Separators, NEW f \in States, NEW s \in Seq(Items), NEW a, IsRef(a, s),
           NEW p, NEW k, Fed(f, a, s, p, k)
    PROVE  /\ \E p2, k2 : Fed(Split(f), a, s, p2, k2)
           /\ Split(f) \in States
           /\ Index(Split(f).buf) = -1
<1> DEFINE N == Len(f.buf)
<1>0. N \in Nat /\ Len(separator) \in Nat \ {0}
  BY LenProperties, SeparatorType DEF States
<1>1. PICK g \in [0..N -> States] :
          /\ g[0] = f /\ Split(f) = g[N]
          /\ \A n \in 1..N : g[n] = SplitOne(g[n - 1])
  BY SplitIs
<1> DEFINE Good(n) == /\ \E p2, k2 : Fed(g[n], a, s, p2, k2)
                      /\ Index(g[n].buf) = -1 \/ Len(g[n].buf) <= N - n
           bad == {n \in 0..N : ~Good(n)}
<1>2. Good(0)
  <2>1. Len(g[0].buf) <= N - 0
    BY <1>0, <1>1
  <2> QED
    BY <1>1, <2>1
<1>3. ASSUME NEW m \in 1..N, Good(m - 1) PROVE Good(m)
  <2>1. PICK h \in States : h = g[m - 1]
    BY <1>0
  <2>2. g[m] = SplitOne(h)
    BY <1>1, <2>1
  <2>3. \E p2, k2 : Fed(g[m], a, s, p2, k2)
    <3>1. PICK p2, k2 : Fed(h, a, s, p2, k2)
      BY <1>3, <2>1
    <3> QED
      BY <2>2, <3>1, RoundFollows
  <2>4. Index(g[m].buf) = -1 \/ Len(g[m].buf) <= N - m
    <3>0. h.buf \in Seq(Bytes) /\ Len(h.buf) \in Nat
      BY LenProperties DEF States
    <3>1. CASE Index(h.buf) = -1
      BY <2>2, <3>1, SplitOneIs
    <3>2. CASE Index(h.buf) # -1
      <4>1. PICK e : e = Index(h.buf) + Len(separator)
        OBVIOUS
      <4>2. e \in 1..Len(h.buf) /\ g[m].buf = Drop(h.buf, e)
        BY <2>2, <3>2, <4>1, SplitOneIs
      <4>3. e \in 0..Len(h.buf)
        BY <3>0, <4>2
      <4>4. Len(g[m].buf) = Len(h.buf) - e
        BY <3>0, <4>2, <4>3, DropIs
      <4>5. Len(h.buf) <= N - (m - 1)
        BY <1>3, <2>1, <3>2
      <4> QED
        BY <1>0, <3>0, <4>2, <4>4, <4>5
    <3> QED
      BY <3>1, <3>2
  <2> QED
    BY <2>3, <2>4
<1> HIDE DEF Good
<1>4. ASSUME bad # {} PROVE FALSE
  <2>1. bad \in SUBSET Nat
    BY <1>0
  <2>2. PICK m \in bad : \A n \in bad : m <= n
    <3> HIDE DEF bad
    <3> QED
      BY <1>4, <2>1, LeastOf
  <2>3. m \in 0..N /\ ~Good(m)
    OBVIOUS
  <2>4. m # 0
    BY <1>2, <2>3
  <2>5. m \in 1..N /\ m - 1 \in 0..N /\ ~(m <= m - 1)
    BY <1>0, <2>3, <2>4
  <2>6. Good(m - 1)
    BY <2>2, <2>5
  <2> QED
    BY <1>3, <2>3, <2>5, <2>6
<1>5. Good(N)
  BY <1>0, <1>4
<1>6. g[N] \in States
  BY <1>0
<1>7. Index(g[N].buf) = -1
  <2>1. g[N].buf \in Seq(Bytes) /\ Len(g[N].buf) \in Nat
    BY <1>6, LenProperties DEF States
  <2>2. Len(g[N].buf) <= N - N => Index(g[N].buf) = -1
    <3>1. \/ Index(g[N].buf) = -1
          \/ Index(g[N].buf) \in 0..(Len(g[N].buf) - Len(separator))
      BY <2>1, IndexIs
    <3> QED
      BY <1>0, <2>1, <3>1
  <2> QED
    BY <1>5, <2>2 DEF Good
<1> QED
  BY <1>1, <1>5, <1>6, <1>7 DEF Good

\* And the end of Append gives up only what the reference will not emit.
LEMMA BoundFollows ==
    ASSUME separator \in Separators, NEW f \in States, Settled(f), NEW r \in Known,
           Follows(f, r, Len(f.buf))
    PROVE  Follows(Bound(f), r, Len(Bound(f).buf))
<1> DEFINE L == Len(separator)
           T == Trim(f.buf)
<1>0. f.buf \in Seq(Bytes) /\ Len(f.buf) \in Nat /\ L \in Nat \ {0} /\ Carry = L - 1 /\ MaxFrame \in Nat
      /\ r.part \in Seq(Bytes) /\ Len(r.part) \in Nat /\ f.dropping \in BOOLEAN
  BY LenProperties, SeparatorType DEF States, Known
<1>1. PICK g : g = Bound(f)
  OBVIOUS
<1>2. /\ T \in 0..Len(f.buf) /\ g.frames = f.frames
      /\ g.dropping = (f.dropping \/ Len(f.buf) > MaxFrame + Carry)
      /\ g.dropping => g.buf = Drop(f.buf, T)
      /\ ~g.dropping => g = f
  BY <1>1, BoundIs
<1>3. CASE ~g.dropping
  BY <1>1, <1>2, <1>3
<1>4. CASE g.dropping
  <2>1. T = 0 \/ Len(f.buf) - T = Carry
    BY <1>0 DEF Trim
  <2> HIDE DEF T
  <2>2. g.buf \in Seq(Bytes) /\ Len(g.buf) = Len(f.buf) - T
        /\ \A i \in 1..(Len(f.buf) - T) : g.buf[i] = f.buf[T + i]
    <3>1. f.buf \in Seq(Bytes) /\ T \in 0..Len(f.buf) /\ g.buf = Drop(f.buf, T)
      BY <1>0, <1>2, <1>4
    <3> QED
      BY <3>1, DropIs
  <2>3. PICK k : k = Len(g.buf)
    OBVIOUS
  <2>4. k \in Nat /\ k = Len(f.buf) - T /\ T \in Nat /\ k <= Len(f.buf)
    BY <1>0, <1>2, <2>2, <2>3
  <2>5. /\ Len(f.buf) <= Len(r.part) /\ f.frames = r.frames
        /\ \A j \in 1..Len(f.buf) : r.part[Len(r.part) - Len(f.buf) + j] = f.buf[j]
        /\ Len(r.part) = Len(f.buf) \/ Len(f.buf) >= Carry
        /\ ~f.dropping => ~r.broken /\ Len(r.part) = Len(f.buf)
        /\ f.dropping => r.broken \/ Len(r.part) > MaxFrame + Carry
        /\ \A i \in 0..(Len(f.buf) - L) : ~SepAt(f.buf, i)
    BY DEF Follows
  <2>6. k <= Len(r.part)
    BY <1>0, <2>4, <2>5
  <2>7. \A j \in 1..k : r.part[Len(r.part) - k + j] = g.buf[j]
    <3> TAKE j \in 1..k
    <3>1. T + j \in 1..Len(f.buf) /\ Len(r.part) - Len(f.buf) + (T + j) = Len(r.part) - k + j
          /\ j \in 1..(Len(f.buf) - T)
      <4>1. PICK x, y : x = Len(r.part) /\ y = Len(f.buf)
        OBVIOUS
      <4>2. x \in Nat /\ y \in Nat /\ k = y - T
        BY <1>0, <2>4, <4>1
      <4>4. T \in Nat /\ j \in Int /\ 1 <= j /\ j <= y - T
        BY <2>4, <4>2
      <4>3. T + j \in 1..y /\ x - y + (T + j) = x - k + j /\ j \in 1..(y - T)
        BY <4>2, <4>4
      <4> QED
        BY <4>1, <4>3
    <3> QED
      BY <2>2, <2>5, <3>1
  <2>8. Len(r.part) = k \/ k >= Carry
    BY <1>0, <2>1, <2>4, <2>5
  <2>9. r.broken \/ Len(r.part) > MaxFrame + Carry
    BY <1>2, <1>4, <2>5
  <2>10. \A i \in 0..(k - L) : ~SepAt(g.buf, i)
    <3> TAKE i \in 0..(k - L)
    <3>1. i \in 0..(Len(g.buf) - L) /\ T + i \in 0..(Len(f.buf) - L)
      BY <1>0, <2>3, <2>4
    <3>2. PICK j \in 1..L : f.buf[(T + i) + j] # separator[j]
      BY <1>0, <2>5, <3>1, SepAtIs
    <3>3. i + j \in 1..(Len(f.buf) - T) /\ T + (i + j) = (T + i) + j
      BY <1>0, <2>4
    <3>4. g.buf[i + j] # separator[j]
      BY <2>2, <3>2, <3>3
    <3> QED
      BY <2>2, <3>1, <3>4, SepAtIs
  <2>11. k \in 0..Len(g.buf)
    BY <2>3, <2>4
  <2>12. Follows(g, r, k)
    BY <1>2, <1>4, <2>5, <2>6, <2>7, <2>8, <2>9, <2>10, <2>11 DEF Follows
  <2> QED
    BY <1>1, <2>3, <2>12
<1> QED
  BY <1>3, <1>4

TrackInv == SafeInv /\ Follows(Framed, RefAfter(separator, stream), Len(buf))

LEMMA TrackStep == TrackInv /\ [Next]_vars => TrackInv'
<1> SUFFICES ASSUME TrackInv, [Next]_vars PROVE TrackInv'
  OBVIOUS
<1>0. SafeInv /\ SafeInv'
  BY SafeStep DEF TrackInv
<1>1. /\ Framed \in States /\ separator \in Separators /\ stream \in Seq(Items)
      /\ TypeInv /\ Settled(Framed) /\ BufferBounded
  BY <1>0 DEF SafeInv, TypeInv
<1>2. /\ buf \in Seq(Bytes) /\ Len(buf) \in Nat /\ dropping \in BOOLEAN /\ MaxFrame \in Nat
      /\ Len(separator) \in Nat \ {0} /\ Carry = Len(separator) - 1
  BY <1>1, LenProperties, SeparatorType DEF Framed, States
<1>3. PICK r : r = RefAfter(separator, stream)
  OBVIOUS
<1>4. r \in Known /\ Follows(Framed, r, Len(buf))
  <2>1. Silence \in Items
    BY DEF Items
  <2> QED
    BY <1>1, <1>3, <2>1, RefAppend DEF TrackInv
<1>5. ASSUME NEW g, NEW q, g = Framed', q = RefAfter(separator', stream'), separator' = separator,
             Follows(g, q, Len(g.buf))
      PROVE  TrackInv'
  <2>1. buf' = g.buf
    BY <1>5 DEF Framed
  <2>2. Follows(Framed, RefAfter(separator, stream), Len(buf))'
    BY <1>5, <2>1 DEF Follows, SepAt, Carry
  <2> QED
    BY <1>0, <2>2 DEF TrackInv
<1>6. ASSUME NEW src \in SeqOf(Bytes, ReadBufferBytes), ReadBytes(src) PROVE TrackInv'
  <2>1. src \in Seq(Bytes) /\ Len(src) \in Nat
    <3>1. ReadBufferBytes \in Nat
      BY <1>2 DEF ReadBufferBytes
    <3>2. src \in Seq(Bytes)
      BY <3>1, ReadType
    <3> QED
      BY <3>2, LenProperties
  <2>2. /\ Given(src) \in States
        /\ Split(Given(src)) \in States /\ Settled(Split(Given(src)))
        /\ Framed' = Bound(Split(Given(src)))
        /\ stream' = stream \o src /\ separator' = separator
    BY <1>1, <1>6, <2>1, ReadIs
  <2>3. PICK s, f : s = stream \o src /\ f = Given(src)
    OBVIOUS
  <2>4. src \in Seq(Items)
    BY <2>1, SeqMonotonic DEF Items
  <2>5. /\ s \in Seq(Items) /\ Len(s) = Len(stream) + Len(src) /\ Len(stream) \in Nat
        /\ \A i \in 1..(Len(stream) + Len(src)) :
              s[i] = IF i <= Len(stream) THEN stream[i] ELSE src[i - Len(stream)]
    BY <1>1, <2>3, <2>4, ConcatProperties, LenProperties
  <2>6. /\ f \in States /\ f.buf = buf \o src /\ f.dropping = dropping /\ f.frames = frames
        /\ Len(f.buf) = Len(buf) + Len(src)
        /\ \A i \in 1..(Len(buf) + Len(src)) :
              f.buf[i] = IF i <= Len(buf) THEN buf[i] ELSE src[i - Len(buf)]
    <3>1. f.buf = buf \o src /\ f.dropping = dropping /\ f.frames = frames
      BY <2>3 DEF Given
    <3> QED
      BY <1>2, <2>1, <2>2, <2>3, <3>1, ConcatProperties
  <2>7. PICK a : IsRef(a, s) /\ RefAfter(separator, s) = a[Len(s)]
    BY <1>1, <2>5, RefIs
  <2>8. a[Len(stream)] = r
    <3>1. PICK b : IsRef(b, stream) /\ RefAfter(separator, stream) = b[Len(stream)]
      BY <1>1, RefIs
    <3>2. Len(stream) \in 0..Len(stream) /\ Len(stream) <= Len(s) /\ \A i \in 1..Len(stream) : stream[i] = s[i]
      BY <2>1, <2>5
    <3> QED
      BY <1>1, <1>3, <2>5, <2>7, <3>1, <3>2, RefPrefix
  <2>9. Follows(f, r, Len(buf))
    <3>1. \A i \in 1..Len(buf) : f.buf[i] = buf[i]
      BY <1>2, <2>1, <2>6
    <3>2. \A i \in 0..(Len(buf) - Len(separator)) : ~SepAt(f.buf, i)
      <4> TAKE i \in 0..(Len(buf) - Len(separator))
      <4>1. ~SepAt(buf, i)
        BY <1>4 DEF Follows, Framed
      <4>2. i \in 0..(Len(f.buf) - Len(separator)) /\ f.buf \in Seq(Bytes)
        BY <1>2, <2>1, <2>6 DEF States
      <4>3. PICK j \in 1..Len(separator) : buf[i + j] # separator[j]
        BY <1>1, <1>2, <4>1, SepAtIs
      <4>4. i + j \in 1..Len(buf)
        BY <1>2
      <4> QED
        BY <1>1, <3>1, <4>2, <4>3, <4>4, SepAtIs
    <3>3. Len(buf) \in 0..Len(f.buf)
      BY <1>2, <2>1, <2>6
    <3> QED
      BY <1>4, <2>6, <3>1, <3>2, <3>3 DEF Follows, Framed
  <2>10. Fed(f, a, s, Len(stream), Len(buf))
    <3>1. Len(stream) \in 0..Len(s) /\ Len(f.buf) - Len(buf) = Len(s) - Len(stream)
          /\ Len(s) - Len(stream) = Len(src)
      BY <1>2, <2>1, <2>5, <2>6
    <3>2. \A j \in 1..Len(src) : s[Len(stream) + j] = f.buf[Len(buf) + j]
      <4> TAKE j \in 1..Len(src)
      <4>1. /\ Len(stream) + j \in 1..(Len(stream) + Len(src)) /\ ~(Len(stream) + j <= Len(stream))
            /\ (Len(stream) + j) - Len(stream) = j
        BY <2>1, <2>5
      <4>2. /\ Len(buf) + j \in 1..(Len(buf) + Len(src)) /\ ~(Len(buf) + j <= Len(buf))
            /\ (Len(buf) + j) - Len(buf) = j
        BY <1>2, <2>1
      <4>3. s[Len(stream) + j] = src[j]
        BY <2>5, <4>1
      <4>4. f.buf[Len(buf) + j] = src[j]
        BY <2>6, <4>2
      <4> QED
        BY <4>3, <4>4
    <3> QED
      BY <1>2, <2>8, <2>9, <3>1, <3>2 DEF Fed
  <2>11. PICK h : h = Split(f)
    OBVIOUS
  <2>12. h \in States /\ Settled(h) /\ Index(h.buf) = -1 /\ \E p2, k2 : Fed(h, a, s, p2, k2)
    BY <1>1, <2>2, <2>3, <2>5, <2>6, <2>7, <2>10, <2>11, SplitFollows
  <2>13. PICK p2, k2 : Fed(h, a, s, p2, k2)
    BY <2>12
  <2>14. h.buf \in Seq(Bytes) /\ Len(h.buf) \in Nat /\ \A i \in 0..(Len(h.buf) - Len(separator)) : ~SepAt(h.buf, i)
    <3>1. h.buf \in Seq(Bytes)
      BY <2>12 DEF States
    <3>2. Index(h.buf) \in 0..(Len(h.buf) - Len(separator)) => Index(h.buf) # -1
      OBVIOUS
    <3> QED
      BY <1>1, <2>12, <3>1, <3>2, IndexIs, LenProperties
  <2>15. Follows(h, a[Len(s)], Len(h.buf))
    <3>1. PICK d : d = Len(s) - p2
      OBVIOUS
    <3>2. d \in Nat /\ k2 \in Nat /\ p2 + d = Len(s) /\ k2 + d = Len(h.buf) /\ p2 + d <= Len(s)
      BY <2>1, <2>5, <2>13, <2>14, <3>1 DEF Fed
    <3>3. \A i \in 0..(k2 + d - Len(separator)) : ~SepAt(h.buf, i)
      <4>1. ASSUME NEW i \in 0..(k2 + d - Len(separator)) PROVE i \in 0..(Len(h.buf) - Len(separator))
        BY <1>2, <2>14, <3>2
      <4> QED
        BY <2>14, <4>1
    <3>4. Fed(h, a, s, p2 + d, k2 + d)
      BY <1>1, <2>5, <2>7, <2>12, <2>13, <3>2, <3>3, Feed
    <3> QED
      BY <3>2, <3>4 DEF Fed
  <2>16. a[Len(s)] \in Known
    BY <2>1, <2>5, <2>7 DEF IsRef
  <2>17. PICK g : g = Bound(h)
    OBVIOUS
  <2>18. Follows(g, a[Len(s)], Len(g.buf))
    BY <1>1, <2>12, <2>15, <2>16, <2>17, BoundFollows
  <2>19. g = Framed' /\ a[Len(s)] = RefAfter(separator', stream')
    BY <2>2, <2>3, <2>7, <2>11, <2>17
  <2> QED
    BY <1>5, <2>2, <2>18, <2>19
<1>7. CASE Timeout
  <2>1. buf' = <<>> /\ frames' = frames /\ separator' = separator /\ stream' = Append(stream, Silence)
        /\ (dropping => dropping' = FALSE)
        /\ (~dropping /\ buf = <<>> => dropping' = FALSE)
        /\ (~dropping /\ buf # <<>> => dropping' = TRUE)
    BY <1>2, <1>7 DEF Timeout
  <2>2. PICK q, g : q = RefAfter(separator', stream') /\ g = Framed'
    OBVIOUS
  <2>3. q = RefSilence(separator, r)
    <3>1. Silence \in Items
      BY DEF Items
    <3>2. RefAfter(separator, Append(stream, Silence)) = RefItem(separator, r, Silence)
      BY <1>1, <1>3, <3>1, RefAppend
    <3> QED
      BY <2>1, <2>2, <3>2 DEF RefItem
  <2>4. /\ q.part = <<>> /\ q.frames = r.frames
        /\ q.broken = (~r.broken /\ Len(r.part) \in 1..(MaxFrame + Len(separator) - 1))
    BY <1>4, <2>3 DEF RefSilence, Known
  <2>5. g.buf = <<>> /\ g.dropping = dropping' /\ g.frames = frames
    BY <2>1, <2>2 DEF Framed
  <2>6. /\ frames = r.frames
        /\ ~dropping => ~r.broken /\ Len(r.part) = Len(buf)
        /\ dropping => r.broken \/ Len(r.part) > MaxFrame + Carry
    BY <1>4 DEF Follows, Framed
  <2>7. g.dropping = q.broken
    <3>0. Len(r.part) \in Nat /\ r.broken \in BOOLEAN
      BY <1>4, LenProperties DEF Known
    <3>1. CASE dropping
      <4>1. Len(r.part) > MaxFrame + Carry => ~(Len(r.part) \in 1..(MaxFrame + Len(separator) - 1))
        BY <1>2, <3>0
      <4>2. q.broken = FALSE
        BY <2>4, <2>6, <3>1, <4>1
      <4> QED
        BY <2>1, <2>5, <3>1, <4>2
    <3>2. CASE ~dropping /\ buf = <<>>
      <4>1. ~(Len(r.part) \in 1..(MaxFrame + Len(separator) - 1))
        BY <2>6, <3>2
      <4>2. q.broken = FALSE
        BY <2>4, <4>1
      <4> QED
        BY <2>1, <2>5, <3>2, <4>2
    <3>3. CASE ~dropping /\ buf # <<>>
      <4>1. Len(buf) # 0
        BY <1>2, <3>3, EmptySeq
      <4>2. Len(buf) <= MaxFrame + Carry
        BY <1>1, <3>3 DEF BufferBounded
      <4>3. Len(r.part) \in 1..(MaxFrame + Len(separator) - 1)
        BY <1>2, <2>6, <3>3, <4>1, <4>2
      <4>4. q.broken = TRUE
        BY <2>4, <2>6, <3>3, <4>3
      <4> QED
        BY <2>1, <2>5, <3>3, <4>4
    <3> QED
      BY <1>2, <3>1, <3>2, <3>3
  <2>8. Len(q.part) = 0 /\ Len(g.buf) = 0 /\ 0 \in 0..0 /\ (\A i \in 0..(0 - Len(separator)) : FALSE)
    BY <1>2, <2>4, <2>5
  <2>9. Follows(g, q, Len(g.buf))
    BY <2>4, <2>5, <2>6, <2>7, <2>8 DEF Follows
  <2> QED
    BY <1>5, <2>1, <2>2, <2>9
<1>8. CASE Reopen
  <2>1. buf' = <<>> /\ frames' = frames /\ separator' = separator /\ stream' = Append(stream, Reopened)
        /\ dropping' = FALSE
    BY <1>8 DEF Reopen
  <2>2. PICK q, g : q = RefAfter(separator', stream') /\ g = Framed'
    OBVIOUS
  <2>3. q = [Nothing EXCEPT !.frames = r.frames]
    <3>1. Reopened \in Items /\ Reopened # Silence
      BY DEF Items, Reopened, Silence
    <3>2. RefAfter(separator, Append(stream, Reopened)) = RefItem(separator, r, Reopened)
      BY <1>1, <1>3, <3>1, RefAppend
    <3> QED
      BY <2>1, <2>2, <3>1, <3>2 DEF RefItem
  <2>4. q.part = <<>> /\ q.frames = r.frames /\ q.broken = FALSE
    BY <2>3 DEF Nothing
  <2>5. g.buf = <<>> /\ g.dropping = FALSE /\ g.frames = frames
    BY <2>1, <2>2 DEF Framed
  <2>6. frames = r.frames
    BY <1>4 DEF Follows, Framed
  <2>7. Len(q.part) = 0 /\ Len(g.buf) = 0 /\ 0 \in 0..0 /\ (\A i \in 0..(0 - Len(separator)) : FALSE)
    BY <1>2, <2>4, <2>5
  <2>8. Follows(g, q, Len(g.buf))
    BY <2>4, <2>5, <2>6, <2>7 DEF Follows
  <2> QED
    BY <1>5, <2>1, <2>2, <2>8
<1>9. CASE UNCHANGED vars
  <2>1. PICK g : g = Framed
    OBVIOUS
  <2>2. Framed' = Framed /\ separator' = separator /\ stream' = stream /\ Framed.buf = buf
    BY <1>9 DEF vars, Framed
  <2>3. r = RefAfter(separator', stream')
    BY <1>3, <2>2
  <2> QED
    BY <1>4, <1>5, <2>1, <2>2, <2>3
<1> QED
  BY <1>6, <1>7, <1>8, <1>9 DEF Next

\* The frames are the stream's: however the reads cut it up, with separators
\* split across them, for every separator (one that overlaps itself too) and
\* every limit, the framer emits exactly the frames the reference finds one
\* byte at a time, and never the tail of one that silence broke.
THEOREM FramesAreOfTheStream == Spec => []FramesAreTheStreams
<1>1. Init => TrackInv
  <2> SUFFICES ASSUME Init PROVE TrackInv
    OBVIOUS
  <2>1. SafeInv /\ separator \in Separators
    BY SafeInit DEF SafeInv, TypeInv
  <2>2. PICK r : r = RefAfter(separator, stream)
    OBVIOUS
  <2>3. r = Nothing
    <3>1. stream \in Seq(Items) /\ Len(stream) = 0
      BY EmptySeq DEF Init
    <3> QED
      BY <2>1, <2>2, <3>1, RefIs DEF IsRef
  <2>4. Len(separator) \in Nat \ {0}
    BY <2>1, SeparatorType
  <2>5. r.part = <<>> /\ r.broken = FALSE /\ r.frames = <<>>
    BY <2>3 DEF Nothing
  <2>6. Framed.buf = <<>> /\ Framed.dropping = FALSE /\ Framed.frames = <<>> /\ Len(buf) = 0
    BY DEF Init, Framed
  <2>7. Len(r.part) = 0 /\ Len(Framed.buf) = 0 /\ 0 \in 0..0 /\ (\A i \in 0..(0 - Len(separator)) : FALSE)
    BY <2>4, <2>5, <2>6
  <2>8. Follows(Framed, r, Len(buf))
    BY <2>5, <2>6, <2>7 DEF Follows
  <2> QED
    BY <2>1, <2>2, <2>8 DEF TrackInv
<1>2. TrackInv => FramesAreTheStreams
  BY DEF TrackInv, Follows, Framed, FramesAreTheStreams, RefFrames
<1> QED
  BY <1>1, <1>2, TrackStep, PTL DEF Spec
=============================================================================
