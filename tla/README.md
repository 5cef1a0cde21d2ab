# Verification of skuhus-device-agent

TLA+ models of the device agent, the TLC runs that check them on small
instances, and TLAPS proofs of the results that matter most. Paths are relative
to the repository. `PROJECT.json` lists every run, every modelled line and every
hazard.

## The system

The agent sits between serial devices (scanners, printers) and an MQTT broker.
It publishes what a device sends (*rx*), writes what the broker sends to a device
(*tx*), and reports port events, tx results and keepalives on status topics.

| component | state | operations | talks to |
|---|---|---|---|
| tx path (`core/tx.go`, `newTxIntake` in `run.go`) | intake channel; per device a tx queue, `txActive`, the remembered ids (`writtenIDs`), each job's stage and bytes | `onMessage`, `receiveTxs`, `admitTxTo`, `writeTxs`, `writeTx`, `awaitPort`, `recordUntaken` | port (`Write`, `RetryOpen`), status queue, Run's stop |
| serial reader and port (`device/serial/serial.go`) | session, `inSession`, `sharedPort`, backoff, `retry` signal | `Run`, `session`, `Write`, `writeChunk`, `close`, `RetryOpen` | framer, frames channel, `report` callback, writer |
| framer (`device/serial/framer.go`) | `buf`, `dropping`, `dropped` | `Append`, `Timeout` | session |
| core (`core/core.go`, `status.go`, `frames.go`, `queue.go`, `pipeline.go`) | frames channel, status queue with its event limit, sequence number, drain deadline, the stages of the stop | `Run`, `report`, `publishFrames`, `publishStatusMessages`, `sendKeepalives`, `publishOffline` | everything |
| broker connection (`transport/mqtt`) | connection number, broker's answers per filter, the connected signal | `OnConnectionUp`/`Down`, `connectionUp`, `subscribe`, `record`, `snapshot`, `Close` | autopaho, keepalive |
| log file (`logging/file.go`) | live file and rotated ones, open handle, size | `OpenFile`, `Write`, `rotate`, `shift`, `Close` | every log record |
| backoff (`backoff/backoff.go`, `reconnectDelay` in `client.go`) | the retries since the wait started over, the attempts since the last connection | `Validate`, `Wait`, the stable reset of `Run`, `reconnectDelay` | serial reader, autopaho |
| wire messages and topics (`wire/`) | none | topics and routes, `ReadTx`, the codes and their states | intake, publishers, consumers |
| configuration (`config/`) | file, environment, flags, credentials on the disk | `Load`, `Validate`, `LoadCredentials` | every constructor |
| command line (`cmd/skuhus-device-agent`) | the log, the connection, paho's line gate | `run`, `validate`, `probe` | everything |
| sender (`dev/sendtx`) | its run: results seen, devices finished | `run`, `resultsFilter` | broker, agents |

**What is hard.** One device has five goroutines (intake, writer, reader, two
publishers), besides the keepalive, paho's callbacks, one subscriber per
connection, and Run, which stops them in an order. They share `txMu`,
`intakeMu`, `sharedPort.mu` and the queue's lock. A writer holds
none of them from its check of `stopping` to its write; a port can be closed, lost
or reopened between any two chunks; a resend of the same id can arrive at any
moment; the broker can come and go, and its SUBACK can be for a connection that is
gone. Queues have limits, and each of them gives up something different at its
limit. Bytes arrive cut up anywhere. A configuration has four layers and is
checked in two places, by `Validate` and by each constructor. Only the log is persistent: a crash loses
everything else, which the design accepts, but it can fall between two renames of a
rotation.

**What makes it correct.** A tx is printed at most once while its id is remembered
and gets one final result that tells the truth; every arrival, reading and status
message is accounted for; a stop ends, leaves nothing behind and puts nothing after
the offline message; frames are those of the byte stream; a keepalive reports only
what the broker said on the current connection; what fails is tried again at the
policy's pace and no faster; a configuration that validates starts an agent; a tx
reaches the devices of its topic and no other, and its sender gets their results.

## Modules

- `TxPath`: one device's tx path, with the reader's sessions and the part of
  `Core.Run` that stops them.
- `Framer`: the framer under reads, silences and reopenings, and a byte-at-a-time
  reference definition of the frames of a stream (`RefFrames`).
- `CoreRun`: what is published for one device (readings, port events, tx results,
  keepalives, offline) and the whole order of Run's stop.
- `BrokerLink`: connections, subscriptions, their answers, and the keepalive that
  reports them.
- `LogFile`: the log file's rotation, with failing steps, kills and restarts.
- `TxContract`: what the tx path promises, without queue, goroutine or port: the tx in
  hand, what was printed, the results. `TxPath` implements it (`KeepsContract`).
- `SendTx`: senders (`dev/sendtx`), a broker and a fleet of agents: the routing of a tx
  to the devices of its topic (`byTxTopic`), `ReadTx`, and the results' way back.
- `Topics`: every topic, route and filter of `wire/topics.go`, as sequences of levels.
- `Backoff`: `Policy.Validate` and `Policy.Wait`, at the width of a duration.
- `Retries`: the reader's loop of sessions and waits with the events it reports (their
  classes, counters, queue, and what `probe` prints of them), and autopaho's attempts
  with `reconnectDelay`.
- `Settings`: the layers of the configuration, every rule of `Validate`, the
  credentials, and what each constructor accepts.
- `Startup`: `run`, `validate` and `probe` from the shell to the exit.
- `MC*` instantiate these for TLC. The theorems are in `TxPathProofs`,
  `FramerProofs`, `CoreRunProofs`, `BrokerLinkProofs`, `RetriesProofs`,
  `LogFileProofs`, `StartupProofs` and `SendTxProofs`.

`TxPath` and `CoreRun` meet in Run: each has all of the stop's stages that its
goroutines can see. `TxPath` ends where the publishers take over; `CoreRun` takes the
tx goroutines as a source of results until Run has waited for them. `BrokerLink` has
the detail of the connection that `CoreRun` sees only as up or down. `SendTx` and
`Startup` both use `Topics`, `Retries` and `Settings` both use `Backoff`. `SendTx` has
of each device what `TxContract` says of it (in hand, printed, results), in larger
steps: `AdmitTx` takes and answers at once, and `WriteTx` prints and settles at once.

### How state and steps correspond to the code

Variables carry the code's names where there is one (`txActive`, `written`,
`inSession`, `buf`, `dropping`, `byFilter`). A goroutine's place is a program counter
(`intakePc`, `wpc`, `rpc`, `stPc`, ...), and its steps are its critical sections and
its reads of what other goroutines write. A mutex held over several steps is read
off the holder's counter (`TxMuFree`, `IntakeMuFree`, `PortMuFree`). Variables marked
*history* exist only for the properties.

Abstractions:

- A tx is the number of its arrival and the id it carries; its bytes are counted. A
  frame, an event and a result are numbers. Error classes are reduced to where they
  come from (a failed open, a loss, the write's own error, unknown).
- Time: a timer may fire at any moment after it is set. A message's expiry may pass
  at any moment, for the arrivals that carry one (`WithExpiry`).
- One device stands for all of them; they share the intake and Run only. A tx on a
  broadcast group's topic is modelled as it reaches one of its devices.
- A publish may fail at any moment, and succeeds only while the connection is up.
- autopaho is external. Of it `BrokerLink` uses: one connection at a time,
  `OnConnectionUp` called for each in order, and `Subscribe`/`Publish` going over the
  connection of the moment, which need not be the one the caller was started for.
- A SUBACK may leave out any of the filters; the code's loop takes it to leave out the
  last ones, which is one of the cases.
- A setting takes the values that its rules tell apart: below, at and above each limit;
  for a text, a name for its kind ("relative", "has a backslash").
- A payload is a record with the condition of each part (good, absent, null, of another
  type, bad), which is what `ReadTx` tells apart.
- `Retries` counts time in ticks. The port and the connection never meet in it: each
  behaviour is one of the two.
- `Suback` and `Record` are separate steps, and each `record` is one, under its lock.
- In `CoreRun` a read is its frames, one or more of them, sent one by one; the discards of
  a read come before as steps of their own (`Framer` has the bytes). A `Close` that fails
  leaves the connection as it is.
- In `Retries` a reader that is told to stop closes its port (the goroutine at
  `serial.go:270-277`) and leaves its session in one step.

## Runs

Runs that pass:

| run | cfg | checks | shows |
|---|---|---|---|
| `tx_resend` | `TxResend` | `TypeOK` `NotPrintedTwice` `WrittenIsFound` `SettledInOrder` `StandingIsTrue` `NoWriteOnClosedPort` `NothingStranded` `KeepsContract` | two ids, three sends, one remembered id, two sessions of the port: no remembered id is printed again; results in the order of the tx; no write on a closed port; every step is a step of `TxContract`, which lets a tx have accepted and then one final result, and written only of what was printed |
| `tx_port` | `TxPort` | `BytesReported` `EveryTxAccountedFor` `AcceptedGetsFinal` `StopEnds` | a tx of two chunks, arrivals of every kind, a stop at any moment: the bytes reported are those written, every arrival is answered or recorded, an accepted tx is settled, a stop ends |
| `framer` | `Framer` | `FramesAreTheStreams` `BufferBounded` `NothingLostSilently` | every stream of seven items, cut into reads in every way, with CR LF and with CR CR |
| `core` | `Core` | `EveryMessageAccountedFor` `EvictionKeepsRecent` `PublishedInOrder` `OfflineIsLast` `NothingAfterClose` | a status queue at its limit beside a reading, connection coming and going, stop at any moment |
| `core_readings` | `CoreReadings` | `EveryReadingRecorded` `QueuedIsTaken` `RunStops` | reads of one to three frames into a channel of one, stop at any moment: every reading sent has its record, and those without are the end of the last read; no lost wake-up; a stop ends with the broker down |
| `broker_link` | `BrokerLink` | `AnswersAreCurrent` `UpIsAnnounced` | two connections whose subscribers, SUBACKs and keepalives overlap |
| `log_file` | `LogFile` | `TypeOK` `HistoryIsRecent` `PastLimitIsReported` | six records, three rotated files, three faults anywhere: only the oldest records are missing, and none before the files are full |
| `startup` | `Startup` | `OnlyContentsRefuse` `NothingIgnored` `TopicsApart` `ExitIsClean` | every one or two edits of a valid configuration, its environment, flags and disk: what `Validate` accepts no constructor refuses, nothing given is ignored and the highest layer that gives a setting wins, topics do not meet, and every exit asks for a disconnect, whatever becomes of it, shuts paho's gate and closes the log |
| `retries` | `Retries` | `OneCutForARequest` `EventsAreCounted` `ReportsAreTrue` `ReopensInPolicy` `BrokerNotPressed` | a port and a connection that fail, work and fail again: the waits are the policy's, a stale request cuts one wait, each counted event is counted once, and what is said of the port is so |
| `send_tx` | `SendTx` | `NoResultMissed` `NobodyLeftWaiting` `PrintsWhatItSays` | two tx of one id to devices and to groups of each scope, well formed or not, with one loss: right devices, no result missed, nobody left waiting, and written is true of the device that says so |

Two runs that TLC refutes, each a sentence of the repository that the code does not keep:

- `tx_in_progress` (`EarlierCarriesOn`): `wire/messages.go:191-192` says of
  `in_progress` that the earlier tx carries on. `writeTxs` queues the result before it
  takes the id out of `txActive` (`tx.go:258-260`), so a resend can be told
  `in_progress` after the earlier tx has its final result, `failed` included.
- `core_reading_lost` (`EveryReadingGetsOne`): `README.md:342`, `frames.go:51` and
  `DESIGN-V2.md:1237` say that every reading gets a record. `session` sends the frames of
  one read one by one, and when it is told to stop it returns with all those it has not
  sent (`serial.go:334-344`): they have no record, and their data is nowhere.
  `EveryReadingRecorded` says how far this goes: only then, and never more than the end
  of the last read.

### Bounds, and why they are enough

- `TxResend`: three sends of two ids with one remembered id is the least in which an
  id is remembered, pushed out by another and sent again, and in which a resend can
  be looked up at each stage of the earlier tx. Two sessions give a loss and a
  reopening between them; attempts are 0, as waiting for a port is `TxPort`'s. `IdSymmetry` exchanges the ids, which only
  appear as carried.
- `TxPort`: `TxBytes = 2`, `ChunkBytes = 1` give two chunks, either of which can be
  partial, lost or cut; one attempt gives a retry and the end of retries. `IntakeSize = 1`
  with two sends lets the intake be full. One session only, since liveness costs more:
  the port may fail to open first, be lost, and not open again. `ReportsTheBytes` proves
  `BytesReported` for any number of sessions and any chunks.
- `Framer`: `MaxFrame = 1` and a separator of two bytes make seven items several frames
  long, with room for an oversize frame, a silence within it and a separator split
  over two reads. CR CR is the separator for which a kept byte could end one separator
  and begin another. `CHECK_DEADLOCK FALSE`: a stream ends at its bound.
- `Core*`: channels and event limit of one, so that each is at its limit after one
  item. In `Core` the events outnumber the queue, with a result among them; one reading
  is enough beside them, as readings and messages share Run and the connection only.
  `CoreReadings` has three frames, which is the least in which one read gives several,
  after another has filled the channel; its port event and the last `port_closed` are
  two messages for the status publisher to be woken for.
- `BrokerLink`: two connections give a late subscriber and a current one, a SUBACK of
  the older asked over the newer, and a signal pending from the older. With one filter,
  three connections pass as well.
- `LogFile`: three rotated files are the least with which a rename that went on after a
  failure would leave a gap; six records fill them and discard one, and three faults
  combine a failure, a kill and a deletion. `Keep = 0` passes as well.
- `Startup`: the file starts out valid, with two devices that share a group, and takes
  two edits, or one edit and a change of the disk under way: rules that bind two
  settings need two. `CHECK_DEADLOCK FALSE`: a command ends.
- `Retries`: an interval of one tick, a max of three and a jitter of a half give three
  different waits, the last of them cut at max; with the events bounded, a port can
  fail, work for as long as max and fail again. With 7 as the largest duration, 3 is the
  largest max that does not wrap. `CHECK_DEADLOCK FALSE`: a reader stops.
- `SendTx`: two agents at two sites, stations and devices of equal names, and a site
  and a device named `group`; a tx and one more with the same id, to the same topic or
  another, are the least in which one device has printed an id and another has not.
  `CHECK_DEADLOCK FALSE`: senders end.

`MaxSends`, `MaxSessions`, `MaxStream`, `MaxFrames`, `MaxEvents`, `MaxResults`,
`MaxLosses`, `MaxConns`, `MaxRecords`, `MaxFaults`, `MaxEdits`, `MaxRequests`,
`MaxAttempts` and `MaxRuns` are bounds of the models; the code has none of them.

### Fairness

Weak fairness of each goroutine's steps: the Go scheduler runs what can run, no step
holds a lock while it waits, a `write(2)` returns, and a publish and the wait for a
SUBACK have timeouts. Strong fairness where a `select` has several cases ready
(`KeepaliveStops`, `KeepaliveConnected`): Go chooses among them at random, so each is
taken now and then. `CoreRun` assumes that the drain timer fires. `TxPath!FairSpec`
assumes no timer: `StopEnds` holds without, and `AcceptedGetsFinal` names the
one timer it needs (`TimerFires`). Nothing makes a port open, a device send, a
connection come up or the agent stop.

## Proofs

Every theorem holds for every value of the constants, the bounds included, under named
assumptions that TLC evaluates on each run: what the constructors and `Validate` enforce
(`BoundsAssumption` and `KindsAssumption` of `TxPath`, `SizesAssumption`,
`LinkAssumption`, `LogAssumption`, and `FramerAssumption`, which also says that no byte
is one of the marks for a silence or a reopening in a stream); that a policy's `max` is
at most half the largest duration (`PolicyAssumption`; validation does not ask for it,
see "Observations"); that no segment of a name is empty
(`SegmentsAssumption`); that the fleet's stations and devices have names which
`Validate` accepts (`FleetAssumption`); and, in `Startup`, that a value which the decoder
lets through has its key's type, a list of devices or of groups being a sequence, and that a thing on the disk is in one of the states the
code tells apart (`DocumentAssumption`, `ChoicesAssumption`, `DiskAssumption`).

**The tx path** (`TxPathProofs`).

- `TypeCorrect`: `TxPath!TypeOK`, one lemma per goroutine.
- `TxInvariant`: `TxInv`, the inductive invariant. `NotPrintedTwice` speaks of writes
  that completed, while what prevents a second one is where the id is now, so the
  invariant says that `txActive` holds exactly the tx being taken, queued or written,
  each in one place and under its own id (`HandInv`); that the remembered ids are
  those of the latest settled writes, in order, and none of them in hand
  (`WrittenInv`, where `Settled` counts the write whose id is not yet moved over);
  that only what arrived is anywhere (`ArrivedInv`); and that a writer ends only with
  its queue closed and empty (`EndInv`).
- `NeverPrintedTwice`, `WrittenAlwaysFound`, `NoneStranded` follow from `TxInv`;
  `NeverWritesClosedPort` is inductive with the types.
- `AnswersInLine`: the second inductive invariant. The writer's tx, the queue, the
  intake's tx and the channel are one line in the order of arrival (`LineInv`), and the
  results agree with it: a tx with an answer is ahead of those without, one with a final
  result ahead of those still to be settled (`AnswerInv`). The results are read only
  through two sets, the accepted and the finished tx, and the steps through what they do
  to the line (an arrival, a fetch, an answer, an acceptance, an entry, ...).
  `SettlesInOrder` follows from it.
- `ReportsTheBytes`: `SentInv`, what the port took of each tx at each place of the writer.
  `StandingAlwaysTrue` adds `LookupInv`: what the intake found under `txMu` is still so
  when it pushes its answer without it.
- `EveryTxIsAccountedFor`: `AccountInv`, each arrival is logged, finished or in the line,
  and what is logged is nowhere else; with `StopInv`, nothing is in the line at the end.
- `ImplementsContract`: `TxPath` implements `TxContract`, by one lemma for each kind of
  step. The invariants above are what the contract's guards need; `SettleInv` says that a
  tx the writer is about to settle has its final result. The contract's tx in hand are
  `txActive`'s, printed is what completed, and its results are those queued.

**The framer** (`FramerProofs`). `Append` runs a loop over the buffer, and the reference
reads the stream a byte at a time; both are recursive functions. What such a function
computes is proved without an induction scheme: a run of its steps exists (`Iterates`),
so the function satisfies its recursion, and a least number at which a claim about it
fails (`LeastOf`) leads to a contradiction.

- `BufferIsBounded`: `SafeInv`, the types, and that bytes are dropped only while
  resynchronising (`Settled`). One round of `Split` shortens the buffer and keeps this;
  what is left after the last round has no separator in it and is within the bound.
- `NoByteIsLost`: `AccountInv`, the sum over what was emitted, discarded, dropped, buffered
  and abandoned, which each round and each read keeps. Sums over a sequence that grows
  by one at its end are lemmas.
- `FramesAreOfTheStream`: `TrackInv`. `Follows` says how the framer and the reference stand to
  each other: they have emitted the same frames, and the buffer is the reference's
  unfinished frame, or its end, of at least the bytes a separator may have begun with,
  when the front was dropped of a frame that is not to be emitted. It is kept by each byte
  of a read, so it does not matter where reads cut the stream.

**Core** (`CoreRunProofs`).

- `NothingFollowsOffline`, `ClosedStaysQuiet` rest on `StopInv`: Run has waited for
  each goroutine it says it has, which makes the end of one permanent.
- `ReadingsAllRecorded`: `ReadInv`. The frames with a record, the publisher's and the
  channel's are one line in reading order, numbered from 1 to the last that was sent
  (`LineInv`); the reader holds frames of its last read only, and stops holding them
  unsent only when told to (`HandInv`).
- `RecentEventsAreKept`, `PublishesInOrder`, `EveryMessageIsAccountedFor`: `MessageInv`.
  A message is in one place (`CountInv`), the queue is in the order of pushing behind the
  one in hand and behind every record but an eviction's (`QueueInv`), and its events are
  never more than the limit (`RoomInv`). That the oldest event goes rests on a lemma
  about the queue without its first event.

**The broker connection** (`BrokerLinkProofs`). `NoStaleAnswer`: `TypeOK` and
`AnswersAreCurrent`. What `record` adds comes from a goroutine's own copy of the SUBACK, so
`LeftInv` says on which connection each answer still to be recorded was given.

**The reader's events, and the waits** (`RetriesProofs`).

- `RequestCutsOnce`: `OneCutForARequest`, inductive with the types of what it counts.
- `PortReportsTrue`: between the end of a session and the count of its event the
  keepalive and the probe say what was so before; `ReportInv` says how they and the session
  stand at each place of the reader, and which event it may carry there.
- `EventsCountedOnce`: `CountersInv`, what was reported is counted but for the event in
  hand, and what was published, waits in the queue or is about to be queued is no more
  than was counted.
- `ReopensAfterItsWait`, `BrokerIsNotPressed`: `PaceInv`. What has passed of a wait and what
  is left of it are together a wait for the retries counted (`PortPace`) or the delay of
  the attempt (`LinkPace`), the retries counted are the attempts that ended early in a
  row, and only the attempt at start has no wait. `WaitIsInPolicy` says that `Wait` never
  gives anything but what the policy promises by arithmetic: `DoublingIs`, the loop that
  stops at `max` and the power of two agree below `max` and are both past it otherwise.

**The log file** (`LogFileProofs`). `LogTypesHold`, `HistoryStaysRecent` and
`LimitIsKeptOrReported` from `LogInv`: at each place of a rotation the generation to be
moved into is empty (`StageInv`), so a move never overwrites; the generations are in order
(`OrderInv`) and lack only the oldest (`RecentInv`), with any number of faults; and without a
fault they are filled from the first on, so nothing goes before they are full
(`FaultlessInv`).

**Starting and stopping** (`StartupProofs`).

- `LeavesNothingBehind`: `ExitInv`, what `run` holds at each place (the connection, the log,
  paho's gate) and what it has told, after a disconnect that succeeded and after one that
  did not. It also covers an exit from a core that was refused, which the run never
  takes, as no valid configuration is refused there (`OnlyContentsRefuse`).
- `LayersIgnoreNothing` is proved of the operators of `Settings`: what `Load` accepts has
  no wrong key, and `Merge` gives each setting the highest layer's value.
- `ValidIsRefusedForContents`: for every configuration, each rule of `Validate` against
  each constructor. `InputInv` keeps the types of what was given through any edits;
  `RulesInv` remembers that `Validate` accepted the configuration on some disk, which is
  the present one unless it was changed since.
- `RoutesAreApart`: `SubscriptionsAreRoutes`, the loops of `buildDevices` list the routes of
  all devices, each once (the recursion is treated as the framer's is). Topics are told
  apart by length, station, device and leaf (`DeviceTopicIs`, `GroupTopicIs`), and the ids
  that `Validate` found different give as many topics as there are devices. `TopicsInv`
  keeps the lists lists through any edits, and the topics as built until the exit.

**Senders and fleet** (`SendTxProofs`).

- `HearsRoute`, a lemma about topics: the filter that a sender derives from its tx's topic
  matches the status topic of every device that the topic reaches, in each scope. It needs
  that a station is not named `group`, which `Validate` sees to.
- `PrintsAreTold`: `Fleet` (the types; each result is about a tx that was sent to the
  device and names it, `ResultInv`; what is in hand is the last that was accepted with its
  id, `HandInv`), `PrintedInv`, and `SeenInv`: what a sender has was published and is its own.
- `ResultsAreHeard`: with `RunInv`, the tx that a waiting run sent is the last of its id,
  so that the filter is that of the tx a result is about.
- `NoSenderIsLeft`: if nothing was lost, each tx is held or answered and each result that
  left the queue was published (`LossInv`); what was accepted has its ending or is in hand
  (`EndInv`); and what a run has shown is counted (`CountInv`).

**Only model-checked.** Liveness (`AcceptedGetsFinal`, `StopEnds`, `QueuedIsTaken`,
`RunStops`, `UpIsAnnounced`), which with `ENABLED` is outside the prover. Every other
property of a passing run is a theorem.

## Observations

Met while modelling, in the models, and not runs of their own:

- `writeTx` reads `stopping` (`tx.go:280`) and calls `Write` (`tx.go:297`) with
  nothing held, so a tx can start just after `stopping` is set, where
  `core.go:131-132` says that none does. It is drained like the others.
- `Write` wraps an error as a `PortError` only while its context has not ended
  (`serial.go:359`); a port that fails in the chunk in hand when the drain timeout
  ends comes back without a class, where `serial.go:351-352` promises one.
- A partial frame goes with its session without a discard (`abandoned` in `Framer`).
- `run.go:162-164` has every exit path close the connection, lest the broker publish the
  will. Every path does call `Close`, but the disconnect is bounded by the publish timeout
  and its failure only warned of (`client.go:323-327`, `run.go:187-189`,
  `core.go:338-340`): the process then ends without a DISCONNECT ("cut off" in
  `Startup`), and the will reports a crash after the offline message.
- When a rotation cannot open the live path again, `Write` has no file and nothing opens
  one later (`file.go:90-92, 114`), where `file.go:78` says that a rotation that fails
  does not stop the log.
- A write that meets a port just closed reads the class of the last failure before the
  session reports the loss (`tx.go:326`, `serial.go:270-291`), so the result can carry
  the class of an earlier failed open, or unknown, where `tx.go:324-325` speaks of the
  loss's own.
- After an oversize partial frame the framer's `dropped` starts at bytes the oversize
  discard has just counted (`framer.go:104`), so they are in both counters, where
  `wire/messages.go:152-153` has `resync` for bytes dropped while recovering.
- `Validate` looks at whether the password's variable is there and whether the files are,
  never at whether they can be read or at what is in them: an empty variable, a
  credentials file without a password, a CA file without certificates and either of them
  unreadable are found only by `run` (`run.go:59-62`). The mode of
  the credentials file is checked by `Validate` alone.
- A wrong key on the line of a removed key is not reported besides it (`load.go:192`); the
  file is refused all the same.
- The doubling wraps if `max` is more than half the largest duration, about 146 years
  (`backoff.go:56`); validation has no upper limit. A jitter can take a wait past `max`,
  and a jitter of 1 close to 0.
- An open that takes as long as `max` to fail counts as a session that worked
  (`serial.go:207-219`).
- The subscribing goroutine of a connection may log after the log was closed; the record
  is refused and the process about to end.
- `sendtx` tells the devices of a group apart by station and id (`sendtx/main.go:183`): two
  of equal names at two sites count as one. A rejected resend ends its run.
- After the stop began, the intake goes on taking as long as tx arrive.
- `writers.Wait` (`core.go:309`) lasts as long as a `write(2)` that does not return:
  `cutWrites` is looked at between chunks only. The models take a write to return.

## Not modelled, and why

- The builders and the encoding of messages, and the will's content: they only format.
  `ReadTx`, which decides, is in `SendTx`.
- The counters of frames, bytes and tx in keepalives; those of events are in `Retries`.
- TLS itself and the modem lines: pure I/O.
- The loss of a sender's own connection: `sendtx` handles none, and a sender that is cut
  off ends with its deadline, which `SendTx` lets pass at any moment. What is published
  to it meanwhile is missed, and `NoResultMissed` is not about that.
- The probe's `--path`, its listing of ports and its printing of frames: they read and
  print, and keep nothing.
- Logging's levels, formats and destinations.
- Crash and restart, except of the log file: nothing else is persisted.
- `dev/consumer`, `spike/`, `version`: not part of the agent, and they keep no state that
  a property could be about.

## Plan

Done: all modules above, with their runs, and a theorem for every property of a passing
run that is not a liveness property.

Next: larger instances where they fit (three runs in `SendTx`), and the counters of
frames, bytes and tx that keepalives carry.
