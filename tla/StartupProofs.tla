--------------------------- MODULE StartupProofs ---------------------------
(***************************************************************************)
(* What Startup guarantees for every configuration file, environment,      *)
(* command line and disk, and any number of edits and changes of the disk. *)
(***************************************************************************)
EXTENDS Startup, FiniteSetTheorems, SequenceTheorems, WellFoundedInduction, TLAPS

(***************************************************************************)
(* The way out.  Where the command is says what it still holds: from Dial  *)
(* to Disconnect the connection, from OpenLog to CloseLog the log.         *)
(***************************************************************************)
Places == {"shell", "load", "open log", "credentials", "topics", "devices", "dial", "core", "running", "disconnect",
           "shut gate", "tell", "close log", "print", "find device", "check device", "reader", "exited"}

Connected == {"core", "running", "disconnect"}

Logging == {"credentials", "topics", "devices", "dial", "core", "running", "disconnect", "shut gate", "tell", "close log"}

ArgsInv ==
    /\ DOMAIN args = {"cmd", "config", "flags"}
    /\ pc \in {"shell", "load"} => refusedBy = "nobody"
    /\ pc # "shell" => args.cmd \in {"run", "validate", "probe"}
    /\ refusedBy = "load" => pc = "exited"

HoldsInv ==
    /\ pc \in Places
    /\ conn \in {"none", "dialled", "disconnected", "cut off"} /\ log \in {"none", "open", "closed"}
    /\ conn = "dialled" <=> pc \in Connected
    /\ conn \in {"disconnected", "cut off"} => pc \in {"shut gate", "tell", "close log", "exited"}
    /\ log = "open" => pc \in Logging
    /\ log = "closed" => pc = "exited"
    /\ pc \in {"tell", "close log"} => log = "open"

\* Once the gate is shut, no line of paho's is on its way.
GateInv ==
    /\ line = "passing" => conn # "none" /\ gate = "open"
    /\ line \in {"idle", "passing"}
    /\ pc \in {"tell", "close log", "exited"} => conn = "none" \/ gate = "closed"

ToldInv ==
    pc = "close log" \/ (pc = "exited" /\ log = "closed") => told = (refusedBy # "nobody")

ExitInv == ArgsInv /\ HoldsInv /\ GateInv /\ ToldInv

\* A step on the way in opens nothing, and leads on or to the way out.
WaysOut == {"disconnect", "shut gate", "tell", "close log"}

OnOrOut ==
    /\ pc \in Places \ (WaysOut \cup {"shell", "load", "exited"})
    /\ UNCHANGED <<args, told, line, gate, conn, log>>
    /\ \/ /\ refusedBy' = refusedBy /\ pc' \in Places \ (WaysOut \cup {"shell", "load"})
          /\ (pc \in Connected <=> pc' \in Connected) /\ (pc \in Logging => pc' \in Logging)
       \/ /\ refusedBy' \notin {"nobody", "load"}
          /\ pc' = IF conn = "dialled" THEN "disconnect" ELSE IF log = "open" THEN "tell" ELSE "exited"

LEMMA WayIn == ASSUME ExitInv, OnOrOut PROVE ExitInv'
<1> USE DEF OnOrOut, WaysOut
<1>1. ArgsInv'
  BY DEF ExitInv, ArgsInv, HoldsInv
<1>2. HoldsInv'
  BY DEF ExitInv, HoldsInv, Connected, Logging, Places
<1>3. GateInv'
  BY DEF ExitInv, HoldsInv, GateInv, Connected
<1>4. ToldInv'
  BY DEF ExitInv, HoldsInv, ToldInv
<1> QED
  BY <1>1, <1>2, <1>3, <1>4 DEF ExitInv

\* Before the command starts, and whatever becomes of the disk.
LEMMA Outside == ASSUME ExitInv, EditFile \/ SetVariable \/ SetFlag \/ DiskChanges PROVE ExitInv'
<1>1. /\ UNCHANGED <<pc, refusedBy, log, told, conn, line, gate>>
      /\ DOMAIN args' = DOMAIN args /\ args'.cmd = args.cmd
  <2>1. CASE SetFlag
    BY <2>1 DEF SetFlag, Editing, paho, ExitInv, ArgsInv
  <2>2. CASE EditFile \/ SetVariable \/ DiskChanges
    BY <2>2 DEF EditFile, SetVariable, DiskChanges, Editing, paho, input
  <2> QED
    BY <2>1, <2>2
<1> QED
  BY <1>1 DEF ExitInv, ArgsInv, HoldsInv, GateInv, ToldInv

LEMMA Starts == ASSUME ExitInv, Start PROVE ExitInv'
<1>1. /\ pc = "shell" /\ pc' = "load" /\ UNCHANGED <<refusedBy, log, told, conn, line, gate>>
      /\ DOMAIN args' = DOMAIN args /\ args'.cmd \in {"run", "validate", "probe"}
  BY DEF Start, paho, ExitInv, ArgsInv
<1> QED
  BY <1>1 DEF ExitInv, ArgsInv, HoldsInv, GateInv, ToldInv, Places, Connected, Logging

LEMMA Loads == ASSUME ExitInv, Load PROVE ExitInv'
<1>1. /\ pc = "load" /\ UNCHANGED <<args, told, line, gate, conn, log>>
      /\ \/ pc' \in {"open log", "print", "find device"} /\ refusedBy' = refusedBy
         \/ refusedBy' = "load" /\ pc' = IF conn = "dialled" THEN "disconnect" ELSE IF log = "open" THEN "tell" ELSE "exited"
  <2>1. pc = "load" /\ args.cmd \in {"run", "validate", "probe"}
    BY DEF Load, Step, ExitInv, ArgsInv
  <2> QED
    BY <2>1 DEF Load, Step, input, paho
<1>2. conn = "none" /\ log = "none" /\ refusedBy = "nobody"
  BY <1>1 DEF ExitInv, ArgsInv, HoldsInv, Connected, Logging
<1> QED
  BY <1>1, <1>2 DEF ExitInv, ArgsInv, HoldsInv, GateInv, ToldInv, Places, Connected, Logging

LEMMA OpensLog == ASSUME ExitInv, OpenLog PROVE ExitInv'
<1>1. /\ pc = "open log" /\ UNCHANGED <<args, told, line, gate, conn>>
      /\ \/ pc' = "credentials" /\ refusedBy' = refusedBy /\ log' \in {"open", "none"}
         \/ /\ refusedBy' = "open log" /\ log' = "none"
            /\ pc' = IF conn = "dialled" THEN "disconnect" ELSE IF log = "open" THEN "tell" ELSE "exited"
  BY DEF OpenLog, Step, input, paho
<1>2. conn = "none" /\ log = "none"
  BY <1>1 DEF ExitInv, HoldsInv, Connected, Logging
<1> QED
  BY <1>1, <1>2 DEF ExitInv, ArgsInv, HoldsInv, GateInv, ToldInv, Places, Connected, Logging

LEMMA Dials == ASSUME ExitInv, Dial PROVE ExitInv'
<1>1. /\ pc = "dial" /\ UNCHANGED <<args, told, line, gate, log>>
      /\ \/ pc' = "core" /\ refusedBy' = refusedBy /\ conn' = "dialled"
         \/ /\ refusedBy' \in {"dial", "ca file"} /\ conn' = conn
            /\ pc' = IF conn = "dialled" THEN "disconnect" ELSE IF log = "open" THEN "tell" ELSE "exited"
  BY DEF Dial, Step, input, paho
<1>2. conn = "none"
  BY <1>1 DEF ExitInv, HoldsInv, Connected
<1> QED
  BY <1>1, <1>2 DEF ExitInv, ArgsInv, HoldsInv, GateInv, ToldInv, Places, Connected, Logging

LEMMA Leaves == ASSUME ExitInv, Leave PROVE ExitInv'
<1>1. CASE RunReturns
  <2>1. pc = "running" /\ pc' = "disconnect" /\ UNCHANGED <<args, refusedBy, told, line, gate, log, conn>>
    BY <1>1 DEF RunReturns, Step, input, paho
  <2> QED
    BY <2>1 DEF ExitInv, ArgsInv, HoldsInv, GateInv, ToldInv, Places, Connected, Logging
<1>2. CASE Disconnect
  <2>1. pc = "disconnect" /\ pc' = "shut gate" /\ conn' \in {"disconnected", "cut off"} /\ UNCHANGED <<args, refusedBy, told, line, gate, log>>
    BY <1>2 DEF Disconnect, Step, input, paho
  <2> QED
    BY <2>1 DEF ExitInv, ArgsInv, HoldsInv, GateInv, ToldInv, Places, Connected, Logging
<1>3. CASE ShutGate
  <2>1. /\ pc = "shut gate" /\ pc' = (IF log = "open" THEN "tell" ELSE "exited") /\ line = "idle" /\ gate' = "closed"
        /\ UNCHANGED <<args, refusedBy, told, line, log, conn>>
    BY <1>3 DEF ShutGate, GateFree, input
  <2> QED
    BY <2>1 DEF ExitInv, ArgsInv, HoldsInv, GateInv, ToldInv, Places, Connected, Logging
<1>4. CASE Tell
  <2>1. pc = "tell" /\ pc' = "close log" /\ told' = (refusedBy # "nobody") /\ UNCHANGED <<args, refusedBy, line, gate, log, conn>>
    BY <1>4 DEF Tell, input, paho
  <2>2. ArgsInv' /\ HoldsInv' /\ GateInv'
    BY <2>1 DEF ExitInv, ArgsInv, HoldsInv, GateInv, Places, Connected, Logging
  <2>3. ToldInv'
    BY <2>1 DEF ToldInv
  <2> QED
    BY <2>2, <2>3 DEF ExitInv
<1>5. CASE CloseLog
  <2>1. pc = "close log" /\ pc' = "exited" /\ log' = "closed" /\ UNCHANGED <<args, refusedBy, told, line, gate, conn>>
    BY <1>5 DEF CloseLog, input, paho
  <2> QED
    BY <2>1 DEF ExitInv, ArgsInv, HoldsInv, GateInv, ToldInv, Places, Connected, Logging
<1> QED
  BY <1>1, <1>2, <1>3, <1>4, <1>5 DEF Leave

LEMMA PahoSteps == ASSUME ExitInv, PahoLine \/ PahoWrites PROVE ExitInv'
<1>1. CASE PahoLine
  <2>1. /\ conn # "none" /\ gate = "open" /\ line' = "passing" /\ UNCHANGED <<args, pc, refusedBy, log, told, conn, gate>>
    BY <1>1 DEF PahoLine, input
  <2> QED
    BY <2>1 DEF ExitInv, ArgsInv, HoldsInv, GateInv, ToldInv
<1>2. CASE PahoWrites
  <2>1. line' = "idle" /\ UNCHANGED <<args, pc, refusedBy, log, told, conn, gate>>
    BY <1>2 DEF PahoWrites, input
  <2> QED
    BY <2>1 DEF ExitInv, ArgsInv, HoldsInv, GateInv, ToldInv
<1> QED
  BY <1>1, <1>2

LEMMA ExitStep == ASSUME ExitInv, [Next]_vars PROVE ExitInv'
<1>1. CASE LoadCredentials
  <2>1. OnOrOut
    BY <1>1 DEF LoadCredentials, Step, OnOrOut, WaysOut, Places, Connected, Logging, input, paho
  <2> QED
    BY <2>1, WayIn
<1>2. CASE NewTopics
  <2>1. OnOrOut
    BY <1>2 DEF NewTopics, Step, OnOrOut, WaysOut, Places, Connected, Logging, input, paho
  <2> QED
    BY <2>1, WayIn
<1>3. CASE BuildDevices
  <2>1. OnOrOut
    BY <1>3 DEF BuildDevices, Step, OnOrOut, WaysOut, Places, Connected, Logging, input, paho
  <2> QED
    BY <2>1, WayIn
<1>4. CASE NewCore
  <2>1. OnOrOut
    BY <1>4 DEF NewCore, Step, OnOrOut, WaysOut, Places, Connected, Logging, input, paho
  <2> QED
    BY <2>1, WayIn
<1>5. CASE PrintSettings
  <2>1. OnOrOut
    BY <1>5 DEF PrintSettings, Step, OnOrOut, WaysOut, Places, Connected, Logging, input, paho
  <2> QED
    BY <2>1, WayIn
<1>6. CASE FindDevice
  <2>1. OnOrOut
    BY <1>6 DEF FindDevice, Step, OnOrOut, WaysOut, Places, Connected, Logging, input, paho
  <2> QED
    BY <2>1, WayIn
<1>7. CASE ProbeDevice
  <2>1. OnOrOut
    BY <1>7 DEF ProbeDevice, Step, OnOrOut, WaysOut, Places, Connected, Logging, input, paho
  <2> QED
    BY <2>1, WayIn
<1>8. CASE NewSerialReader
  <2>1. OnOrOut
    BY <1>8 DEF NewSerialReader, Step, OnOrOut, WaysOut, Places, Connected, Logging, input, paho
  <2> QED
    BY <2>1, WayIn
<1>9. CASE EditFile \/ SetVariable \/ SetFlag \/ DiskChanges
  BY <1>9, Outside
<1>10. CASE Start \/ Load \/ OpenLog \/ Dial \/ Leave
  BY <1>10, Starts, Loads, OpensLog, Dials, Leaves
<1>11. CASE PahoLine \/ PahoWrites
  BY <1>11, PahoSteps
<1>12. CASE UNCHANGED vars
  BY <1>12 DEF vars, input, paho, ExitInv, ArgsInv, HoldsInv, GateInv, ToldInv
<1> QED
  BY <1>1, <1>2, <1>3, <1>4, <1>5, <1>6, <1>7, <1>8, <1>9, <1>10, <1>11, <1>12 DEF Next, Assemble, Probe

LEMMA ExitStart == Init => ExitInv
BY DEF Init, ExitInv, ArgsInv, HoldsInv, GateInv, ToldInv, Places, Connected, Logging

\* However run ends, and whether or not the disconnect succeeds: a dialled
\* connection was asked to disconnect, the log is closed with the error in it,
\* and no line of paho's is on its way to it (run.go:162-164, 187-189, 195-198,
\* client.go:322-329, paholog.go:59-62).
THEOREM LeavesNothingBehind == Spec => []ExitIsClean
<1>1. ExitInv => ExitIsClean
  BY DEF ExitInv, HoldsInv, GateInv, ToldInv, ExitIsClean, Connected, Logging
<1> QED
  BY <1>1, ExitStart, ExitStep, PTL DEF Spec

(***************************************************************************)
(* What the layers give.  Once the configuration is loaded, nothing that   *)
(* it came from changes: the command line, the environment and the file.   *)
(***************************************************************************)
LEMMA LoadedOnce ==
    ASSUME ExitInv, [Next]_vars, pc \notin {"shell", "load"}
    PROVE  /\ UNCHANGED <<args, environ, document, cfg, loadedAt>>
           /\ pc' \notin {"shell", "load"} /\ (Loaded' => Loaded)
<1>0. pc # "exited" => Loaded
  BY DEF ExitInv, ArgsInv, Loaded
<1>1. CASE LoadCredentials \/ NewTopics \/ BuildDevices \/ NewCore
  BY <1>0, <1>1 DEF LoadCredentials, NewTopics, BuildDevices, NewCore, Step, built, input, Loaded
<1>2. CASE PrintSettings \/ FindDevice \/ ProbeDevice \/ NewSerialReader
  BY <1>0, <1>2 DEF PrintSettings, FindDevice, ProbeDevice, NewSerialReader, Step, built, input, Loaded
<1>3. CASE OpenLog \/ Dial
  BY <1>0, <1>3 DEF OpenLog, Dial, Step, built, input, Loaded
<1>4. CASE Leave
  BY <1>4 DEF Leave, RunReturns, Disconnect, ShutGate, Tell, CloseLog, Step, built, input, Loaded
<1>5. CASE EditFile \/ SetVariable \/ SetFlag \/ Start \/ Load
  BY <1>5 DEF EditFile, SetVariable, SetFlag, Start, Load, Step
<1>6. CASE DiskChanges
  BY <1>6 DEF DiskChanges, Editing, built, input, Loaded
<1>7. CASE PahoLine \/ PahoWrites
  BY <1>7 DEF PahoLine, PahoWrites, built, input, Loaded
<1>8. CASE UNCHANGED vars
  BY <1>8 DEF vars, built, input, Loaded
<1> QED
  BY <1>1, <1>2, <1>3, <1>4, <1>5, <1>6, <1>7, <1>8 DEF Next, Assemble, Probe

LEMMA NotLoaded ==
    ASSUME [Next]_vars, pc \in {"shell", "load"}, ~Load
    PROVE  pc' \in {"shell", "load"} /\ refusedBy' = refusedBy
BY DEF Next, EditFile, SetVariable, SetFlag, DiskChanges, Editing, Start, Assemble, OpenLog, LoadCredentials,
    NewTopics, BuildDevices, Dial, NewCore, Leave, RunReturns, Disconnect, ShutGate, Tell, CloseLog, PrintSettings,
    Probe, FindDevice, ProbeDevice, NewSerialReader, PahoLine, PahoWrites, Step, vars

\* A file that the decoder accepts has no wrong key: one that is on the line of
\* a removed key is left out of the report only when that key is in it.
LEMMA NoWrongKey == ASSUME NEW doc, DecodeAccepts(doc) PROVE doc.wrong = {}
<1>1. FindRemovedKeys(doc) = {}
  BY DEF DecodeAccepts, ReportedKeys
<1>2. {r.line : r \in FindRemovedKeys(doc)} = {}
  BY <1>1
<1>3. \A key \in doc.wrong : key \in ReportedKeys(doc)
  BY <1>2 DEF ReportedKeys
<1> QED
  BY <1>3 DEF DecodeAccepts

LEMMA NoWrongVariable ==
    ASSUME NEW env, ApplyEnvAccepts(env), RejectLegacyEnvironment(env)
    PROVE  /\ DOMAIN env \cap (WrongVariables \cup {LegacyVariable}) = {}
           /\ \A name \in DOMAIN env : env[name] # Unparsable
<1>1. EnvTargets \cap WrongVariables = {}
  BY DEF EnvTargets, WrongVariables, Defaults, Credentials
<1> QED
  BY <1>1 DEF ApplyEnvAccepts, RejectLegacyEnvironment

\* The setting of the highest of three layers over the defaults that has it.
Given(doc, env, flags, f) ==
    IF f \in DOMAIN flags THEN flags[f]
    ELSE IF f \in DOMAIN env THEN env[f]
    ELSE IF f \in DOMAIN doc.set THEN doc.set[f]
    ELSE Defaults[f]

LEMMA MergeGives ==
    ASSUME NEW doc, NEW env, NEW flags
    PROVE  /\ DOMAIN Merge(doc, env, flags) = DOMAIN Defaults
           /\ \A f \in DOMAIN Defaults \ {"instance"} : Merge(doc, env, flags)[f] = Given(doc, env, flags, f)
           /\ Merge(doc, env, flags).instance =
                IF Given(doc, env, flags, "instance") # "" THEN Given(doc, env, flags, "instance")
                ELSE Given(doc, env, flags, "station")
<1> DEFINE c == Overlay(Overlay(Overlay(Defaults, doc.set), env), flags)
<1>1. {"instance", "station"} \subseteq DOMAIN Defaults
  BY DEF Defaults
<1>2. c = [f \in DOMAIN Defaults |-> Given(doc, env, flags, f)]
  BY DEF Overlay, Given
<1>3. Merge(doc, env, flags) = [c EXCEPT !["instance"] = IF c["instance"] = "" THEN c["station"] ELSE c["instance"]]
  BY DEF Merge, ApplyDerivedDefaults
<1> HIDE DEF c
<1> QED
  BY <1>1, <1>2, <1>3

LEMMA LayersStep == ASSUME ExitInv, NothingIgnored, [Next]_vars PROVE NothingIgnored'
<1>1. CASE pc \notin {"shell", "load"}
  BY <1>1, LoadedOnce DEF NothingIgnored, InForce, Flags
<1>2. CASE pc \in {"shell", "load"} /\ ~Load
  BY <1>2, NotLoaded DEF NothingIgnored, Loaded
<1>3. CASE Load
  <2> SUFFICES ASSUME Loaded' PROVE NothingIgnored'
    BY DEF NothingIgnored
  <2> DEFINE c == Merge(document, environ, Flags)
             ds == Devices(document)
  <2>1. /\ LoadAccepts(c, ds) /\ cfg' = c /\ UNCHANGED <<args, environ, document>>
    BY <1>3 DEF Load, Step, Loaded, input
  <2>2. document.wrong = {}
    BY <2>1, NoWrongKey DEF LoadAccepts
  <2>3. /\ DOMAIN environ \cap (WrongVariables \cup {LegacyVariable}) = {}
        /\ \A name \in DOMAIN environ : environ[name] # Unparsable
    BY <2>1, NoWrongVariable DEF LoadAccepts
  <2>4. /\ \A f \in DOMAIN Defaults \ {"instance"} : cfg'[f] = InForce(f)
        /\ cfg'.instance = IF InForce("instance") # "" THEN InForce("instance") ELSE InForce("station")
    <3>1. \A f : InForce(f) = Given(document, environ, Flags, f)
      BY DEF Given, InForce
    <3> QED
      BY <2>1, <3>1, MergeGives
  <2> HIDE DEF c, ds
  <2> QED
    BY <2>1, <2>2, <2>3, <2>4 DEF NothingIgnored, InForce, Flags
<1> QED
  BY <1>1, <1>2, <1>3

\* A configuration that loads has nothing in it that was given and ignored, and
\* each setting is that of the highest layer that has it (load.go:15-16,
\* env.go:137-139, defaults.go:154-157).
THEOREM LayersIgnoreNothing == Spec => []NothingIgnored
<1>1. Init => ExitInv /\ NothingIgnored
  BY ExitStart DEF Init, NothingIgnored, Loaded
<1>2. ExitInv /\ NothingIgnored /\ [Next]_vars => ExitInv' /\ NothingIgnored'
  BY ExitStep, LayersStep
<1> QED
  BY <1>1, <1>2, PTL DEF Spec

(***************************************************************************)
(* What Validate accepts, the constructors accept.                         *)
(***************************************************************************)
LEMMA ReaderTakesValid == ASSUME NEW d, ValidDevice(d) PROVE SerialAccepts(d) /\ DeviceTopicsAccept(d)
<1>1. SerialAccepts(d)
  <2>1. d.id # "" /\ d.path # "" /\ d.separator # ""
    BY SegmentsAssumption DEF ValidDevice, ValidPath, ValidSeparator
  <2>2. d.data_bits >= 5 /\ d.data_bits <= 8
    <3>1. d.data_bits \in 5..8
      BY DEF ValidDevice
    <3> QED
      BY <3>1
  <2> QED
    BY <2>1, <2>2 DEF ValidDevice, SerialAccepts
<1>2. DeviceTopicsAccept(d)
  BY DEF ValidDevice, ValidGroups, DeviceTopicsAccept, DeviceAccepted, GroupAccepted
<1> QED
  BY <1>1, <1>2

LEMMA DevicesTakeValid ==
    ASSUME NEW ds, ValidDevices(ds)
    PROVE  BuildDevicesAccepts(ds) /\ \A i \in DOMAIN ds : DeviceTopicsAccept(ds[i])
BY ReaderTakesValid DEF ValidDevices, BuildDevicesAccepts

\* The instance was derived by then: Validate lets an empty one through.
Derived(c) == c.instance = "" => c.station = ""

LEMMA IdentityTakesValid ==
    ASSUME NEW c, ValidIdentity(c), Derived(c)
    PROVE  TopicsAccept(c) /\ c.instance # ""
BY SegmentsAssumption DEF ValidIdentity, Derived, TopicsAccept, StationAccepted, AgentAccepted

LEMMA DialTakesValid ==
    ASSUME NEW c, NEW env, NEW dk, ValidIdentity(c), Derived(c), ValidBroker(c, env, dk)
    PROVE  DialAccepts(c)
BY IdentityTakesValid DEF ValidBroker, ValidURL, DialAccepts, UsesTLS

LEMMA PositiveSeconds == ASSUME NEW t \in Int, WholeSeconds(t) PROVE t > 0
BY DEF WholeSeconds, Second

LEMMA CoreTakesValid ==
    ASSUME NEW c, NEW ds, ValidDevices(ds), ValidDelivery(c, ds), ValidStatus(c),
           c.buffer_size \in Int, c.event_buffer_size \in Int, c.keepalive_interval \in Int,
           \A i \in DOMAIN ds : /\ ds[i].message_expiry \in Int /\ ds[i].tx_open_attempts \in Int
                                /\ ds[i].tx_open_interval \in Int
    PROVE  NewCoreAccepts(c, ds)
<1>1. c.buffer_size > 0 /\ c.event_buffer_size > 0
  BY DEF ValidDelivery, ValidStatus
<1>2. c.keepalive_interval > 0
  BY PositiveSeconds DEF ValidStatus
<1>3. ASSUME NEW i \in DOMAIN ds
      PROVE  /\ ds[i].message_expiry > 0 /\ ds[i].tx_open_attempts >= 0 /\ ds[i].tx_open_interval >= 0
             /\ ds[i].tx_remembered_ids >= 1
  <2>1. /\ WholeSeconds(ds[i].message_expiry) /\ ds[i].tx_open_attempts >= 1 /\ ds[i].tx_open_interval > 0
        /\ ds[i].tx_remembered_ids >= 1
    BY DEF ValidDevices, ValidDevice
  <2>2. ds[i].message_expiry > 0
    BY <2>1, PositiveSeconds
  <2> QED
    BY <2>1, <2>2
<1>4. ds # <<>> /\ c.publish_timeout > 0 /\ c.drain_timeout > 0 /\ c.missed_keepalives >= 1
  BY DEF ValidDevices, ValidDelivery, ValidStatus
<1> QED
  BY <1>1, <1>2, <1>3, <1>4 DEF NewCoreAccepts

\* What is left to refuse on the disk that Validate saw.
LEMMA LogRefusesValid ==
    ASSUME NEW c, NEW dk, ValidLogging(c, dk), dk.logdir \in LogDirStates, ~OpenLogAccepts(c, dk)
    PROVE  dk.logdir = "unwritable"
BY DEF ValidLogging, OpenLogAccepts, LogDirStates

LEMMA CARefusesValid ==
    ASSUME NEW c, NEW env, NEW dk, ValidBroker(c, env, dk), dk.ca \in CAStates, ~TLSConfigAccepts(c, dk)
    PROVE  dk.ca \in {"unreadable", "no certificates"}
BY DEF ValidBroker, TLSConfigAccepts, CAStates

LEMMA CredentialsRefuseValid ==
    ASSUME NEW c, NEW env, NEW dk, ValidBroker(c, env, dk), ~LoadCredentialsAccepts(c, env, dk)
    PROVE  \/ c.credentials_file # "" /\ dk.credentials \in {"unreadable", "garbled", "no password", "no username"}
           \/ \E name \in Credentials \cap DOMAIN env : env[name] = ""
           \/ c.credentials_file = "" /\ "MQTT_USERNAME" \notin DOMAIN env
<1>1. CASE \E name \in Credentials \cap DOMAIN env : env[name] = ""
  BY <1>1
<1>2. CASE \A name \in Credentials \cap DOMAIN env : env[name] # ""
  <2>1. /\ "MQTT_PASSWORD" \in DOMAIN env => env["MQTT_PASSWORD"] # ""
        /\ "MQTT_USERNAME" \in DOMAIN env => env["MQTT_USERNAME"] # ""
    BY <1>2 DEF Credentials
  <2> QED
    BY <2>1 DEF ValidBroker, SecretFile, LoadCredentialsAccepts
<1> QED
  BY <1>1, <1>2

(***************************************************************************)
(* What was given has the types of its keys, whatever is edited.           *)
(***************************************************************************)
DocumentInv ==
    /\ DOMAIN document = {"documents", "wrong", "set", "devices"}
    /\ NumbersIn(document.set, NumberSettings)
    /\ \A i \in DOMAIN document.devices : NumbersIn(document.devices[i], NumberKeys)

LayersInv ==
    /\ \A f \in NumberSettings \cap DOMAIN environ : environ[f] \in Int \cup {Unparsable}
    /\ NumbersIn(args.flags, NumberSettings)

DiskInv ==
    /\ DOMAIN disk = {"credentials", "ca", "logdir"} /\ disk.ca \in CAStates /\ disk.logdir \in LogDirStates
    /\ edits \in Nat /\ loadedAt \in Nat /\ loadedAt <= edits

InputInv == DocumentInv /\ LayersInv /\ DiskInv

LEMMA PutNumber ==
    ASSUME NEW set, NEW kind, NEW f, NEW v, NumbersIn(set, kind), f \in kind => v \in Int
    PROVE  NumbersIn(Put(set, f, v), kind)
BY DEF NumbersIn, Put

LEMMA EditsFile == ASSUME DocumentInv, EditFile PROVE DocumentInv'
<1>1. CASE \E f \in DOMAIN SettingChoices : \E v \in SettingChoices[f] : document' = [document EXCEPT !.set = Put(@, f, v)]
  <2>1. PICK f, v : /\ f \in DOMAIN SettingChoices /\ v \in SettingChoices[f]
                    /\ document' = [document EXCEPT !.set = Put(@, f, v)]
    BY <1>1
  <2>2. NumbersIn(Put(document.set, f, v), NumberSettings)
    BY <2>1, PutNumber, ChoicesAssumption DEF DocumentInv
  <2>3. document'.set = Put(document.set, f, v) /\ document'.devices = document.devices /\ DOMAIN document' = DOMAIN document
    BY <2>1 DEF DocumentInv
  <2> QED
    BY <2>2, <2>3 DEF DocumentInv
<1>2. CASE \/ \E key \in WrongKeys : document' = [document EXCEPT !.wrong = @ \cup {key}]
           \/ \E n \in {0, 2} : document' = [document EXCEPT !.documents = n]
  <2>1. document'.set = document.set /\ document'.devices = document.devices /\ DOMAIN document' = DOMAIN document
    BY <1>2 DEF DocumentInv
  <2> QED
    BY <2>1 DEF DocumentInv
<1>3. CASE document' = [document EXCEPT !.devices = <<>>]
  <2>1. document'.set = document.set /\ document'.devices = <<>> /\ DOMAIN document' = DOMAIN document
    BY <1>3 DEF DocumentInv
  <2>2. DOMAIN document'.devices = {}
    BY <2>1
  <2> QED
    BY <2>1, <2>2 DEF DocumentInv
<1>4. CASE \E i \in DOMAIN document.devices : \E f \in DOMAIN DeviceChoices : \E v \in DeviceChoices[f] :
             document' = [document EXCEPT !.devices[i] = Put(@, f, v)]
  <2>1. PICK i, f, v : /\ i \in DOMAIN document.devices /\ f \in DOMAIN DeviceChoices /\ v \in DeviceChoices[f]
                       /\ document' = [document EXCEPT !.devices[i] = Put(@, f, v)]
    BY <1>4
  <2>2. NumbersIn(Put(document.devices[i], f, v), NumberKeys)
    BY <2>1, PutNumber, ChoicesAssumption DEF DocumentInv
  <2>3. /\ document'.set = document.set /\ DOMAIN document' = DOMAIN document
        /\ document'.devices = [document.devices EXCEPT ![i] = Put(@, f, v)]
    BY <2>1 DEF DocumentInv
  <2> QED
    BY <2>2, <2>3 DEF DocumentInv
<1> QED
  BY <1>1, <1>2, <1>3, <1>4 DEF EditFile

LEMMA SetsVariable == ASSUME LayersInv, SetVariable PROVE LayersInv'
<1>1. PICK name, v : environ' = Put(environ, name, v) /\ (name \in NumberSettings => v \in Int \cup {Unparsable})
  <2>1. CASE \E f \in DOMAIN SettingChoices \cap EnvTargets : \E v \in SettingChoices[f] \cup {Unparsable} :
                environ' = Put(environ, f, v)
    BY <2>1, ChoicesAssumption
  <2>2. CASE \E name \in DOMAIN VariableChoices : \E v \in VariableChoices[name] : environ' = Put(environ, name, v)
    BY <2>2, ChoicesAssumption
  <2> QED
    BY <2>1, <2>2 DEF SetVariable
<1>2. args' = args
  BY DEF SetVariable
<1> QED
  BY <1>1, <1>2 DEF LayersInv, Put

LEMMA SetsFlag == ASSUME LayersInv, DOMAIN args = {"cmd", "config", "flags"}, SetFlag PROVE LayersInv'
<1>1. environ' = environ
  BY DEF SetFlag
<1>2. CASE \E f \in DOMAIN SettingChoices \cap FlagTargets : \E v \in SettingChoices[f] :
             args' = [args EXCEPT !.flags = Put(@, f, v)]
  <2>1. PICK f, v : /\ f \in DOMAIN SettingChoices \cap FlagTargets /\ v \in SettingChoices[f]
                    /\ args' = [args EXCEPT !.flags = Put(@, f, v)]
    BY <1>2
  <2>2. NumbersIn(Put(args.flags, f, v), NumberSettings)
    BY <2>1, PutNumber, ChoicesAssumption DEF LayersInv
  <2> QED
    BY <1>1, <2>1, <2>2 DEF LayersInv
<1>3. CASE args' = [args EXCEPT !.config = FALSE]
  BY <1>1, <1>3 DEF LayersInv
<1> QED
  BY <1>2, <1>3 DEF SetFlag

LEMMA InputStep == ASSUME InputInv, ExitInv, [Next]_vars PROVE InputInv'
<1>1. DocumentInv'
  <2>1. CASE EditFile
    BY <2>1, EditsFile DEF InputInv
  <2>2. CASE document' = document
    BY <2>2 DEF InputInv, DocumentInv
  <2>3. ~EditFile => document' = document
    <3>1. CASE pc \notin {"shell", "load"}
      BY <3>1, LoadedOnce
    <3>2. CASE pc \in {"shell", "load"}
      BY <3>2 DEF Next, SetVariable, SetFlag, DiskChanges, Editing, Start, Load, Assemble, OpenLog, LoadCredentials,
          NewTopics, BuildDevices, Dial, NewCore, Leave, RunReturns, Disconnect, ShutGate, Tell, CloseLog, PrintSettings,
          Probe, FindDevice, ProbeDevice, NewSerialReader, PahoLine, PahoWrites, Step, vars, input
    <3> QED
      BY <3>1, <3>2
  <2> QED
    BY <2>1, <2>2, <2>3
<1>2. LayersInv'
  <2>1. CASE SetVariable \/ SetFlag
    BY <2>1, SetsVariable, SetsFlag DEF InputInv, ExitInv, ArgsInv
  <2>2. CASE environ' = environ /\ args'.flags = args.flags
    BY <2>2 DEF InputInv, LayersInv
  <2>3. ~(SetVariable \/ SetFlag) => environ' = environ /\ args'.flags = args.flags
    <3>1. CASE pc \notin {"shell", "load"}
      BY <3>1, LoadedOnce
    <3>2. CASE pc \in {"shell", "load"}
      BY <3>2 DEF Next, EditFile, DiskChanges, Editing, Start, Load, Assemble, OpenLog, LoadCredentials,
          NewTopics, BuildDevices, Dial, NewCore, Leave, RunReturns, Disconnect, ShutGate, Tell, CloseLog, PrintSettings,
          Probe, FindDevice, ProbeDevice, NewSerialReader, PahoLine, PahoWrites, Step, vars, input, ExitInv, ArgsInv
    <3> QED
      BY <3>1, <3>2
  <2> QED
    BY <2>1, <2>2, <2>3
<1>3. DiskInv'
  <2>1. CASE DiskChanges
    <3>1. PICK f, v : f \in DOMAIN DiskChoices /\ v \in DiskChoices[f] /\ disk' = [disk EXCEPT ![f] = v]
      BY <2>1 DEF DiskChanges
    <3>2. edits' = edits + 1 /\ loadedAt' = loadedAt
      BY <2>1 DEF DiskChanges, Editing, built
    <3> QED
      BY <3>1, <3>2, DiskAssumption DEF InputInv, DiskInv
  <2>2. CASE EditFile \/ SetVariable \/ SetFlag
    BY <2>2 DEF EditFile, SetVariable, SetFlag, Editing, built, InputInv, DiskInv
  <2>3. CASE UNCHANGED <<disk, edits>> /\ loadedAt' \in {loadedAt, edits}
    BY <2>3 DEF InputInv, DiskInv
  <2>4. ~(DiskChanges \/ EditFile \/ SetVariable \/ SetFlag) => UNCHANGED <<disk, edits>> /\ loadedAt' \in {loadedAt, edits}
    BY DEF Next, Start, Load, Assemble, OpenLog, LoadCredentials, NewTopics, BuildDevices, Dial, NewCore, Leave, RunReturns,
        Disconnect, ShutGate, Tell, CloseLog, PrintSettings, Probe, FindDevice, ProbeDevice, NewSerialReader, PahoLine,
        PahoWrites, Step, vars, built
  <2> QED
    BY <2>1, <2>2, <2>3, <2>4
<1> QED
  BY <1>1, <1>2, <1>3 DEF InputInv

LEMMA InputStart == Init => InputInv
<1> SUFFICES ASSUME Init PROVE InputInv
  OBVIOUS
<1>1. DocumentInv
  BY DocumentAssumption DEF Init, DocumentInv
<1>2. LayersInv
  BY DEF Init, LayersInv, NumbersIn, Nothing
<1>3. DiskInv
  BY DEF Init, DiskInv, GoodDisk, CAStates, LogDirStates
<1> QED
  BY <1>1, <1>2, <1>3 DEF InputInv

(***************************************************************************)
(* What is known of a configuration that was loaded: Validate accepted it  *)
(* on the disk as it was, which is the disk now if nothing was changed.    *)
(***************************************************************************)
ProbePlaces == {"find device", "check device", "reader"}

WaysIn == {"open log", "credentials", "topics", "devices", "dial", "core", "running", "print"}

Validated ==
    /\ Derived(cfg) /\ \A f \in NumberSettings : cfg[f] \in Int
    /\ \A i \in DOMAIN devices : \A f \in NumberKeys : devices[i][f] \in Int
    /\ \E dk : Validate(cfg, devices, environ, dk) /\ (edits = loadedAt => disk = dk)

RulesInv ==
    /\ pc \in ProbePlaces => args.cmd = "probe"
    /\ pc \in WaysIn => args.cmd # "probe"
    /\ Loaded /\ args.cmd # "probe" => Validated
    /\ pc = "reader" => ValidDevice(devices[1])

LEMMA MergeNumbers ==
    ASSUME InputInv, ApplyEnvAccepts(environ), NEW flags, NumbersIn(flags, NumberSettings)
    PROVE  \A f \in NumberSettings : Merge(document, environ, flags)[f] \in Int
<1> SUFFICES ASSUME NEW f \in NumberSettings PROVE Merge(document, environ, flags)[f] \in Int
  OBVIOUS
<1>1. f \in DOMAIN Defaults \ {"instance"} /\ Defaults[f] \in Int
  <2>1. NumberSettings \subseteq DOMAIN Defaults \ {"instance"}
    BY DEF NumberSettings, Defaults
  <2>2. /\ {Defaults.keepalive, Defaults.connect_timeout, Defaults.reconnect_interval} \subseteq Int
        /\ {Defaults.publish_timeout, Defaults.buffer_size, Defaults.drain_timeout, Defaults.tx_intake_size} \subseteq Int
        /\ {Defaults.keepalive_interval, Defaults.missed_keepalives, Defaults.event_buffer_size} \subseteq Int
        /\ {Defaults.max_size_mb, Defaults.keep} \subseteq Int
    BY DEF Defaults, Second
  <2> QED
    BY <2>1, <2>2 DEF NumberSettings
<1>2. Merge(document, environ, flags)[f] = Given(document, environ, flags, f)
  BY <1>1, MergeGives
<1>3. f \in DOMAIN flags => flags[f] \in Int
  BY DEF NumbersIn
<1>4. f \in DOMAIN environ => environ[f] \in Int
  BY DEF InputInv, LayersInv, ApplyEnvAccepts
<1>5. f \in DOMAIN document.set => document.set[f] \in Int
  BY DEF InputInv, DocumentInv, NumbersIn
<1> QED
  BY <1>1, <1>2, <1>3, <1>4, <1>5 DEF Given

LEMMA DeviceNumbers ==
    ASSUME InputInv
    PROVE  \A i \in DOMAIN Devices(document) : \A f \in NumberKeys : Devices(document)[i][f] \in Int
<1> SUFFICES ASSUME NEW i \in DOMAIN Devices(document), NEW f \in NumberKeys PROVE Devices(document)[i][f] \in Int
  OBVIOUS
<1>1. f \in DOMAIN DefaultDevice /\ DefaultDevice[f] \in Int
  <2>1. NumberKeys \subseteq DOMAIN DefaultDevice
    BY DEF NumberKeys, DefaultDevice
  <2>2. /\ {DefaultDevice.baud, DefaultDevice.data_bits, DefaultDevice.max_frame_bytes} \subseteq Int
        /\ {DefaultDevice.inter_char_timeout, DefaultDevice.message_expiry, DefaultDevice.reopen_interval} \subseteq Int
        /\ {DefaultDevice.tx_open_attempts, DefaultDevice.tx_open_interval} \subseteq Int
        /\ {DefaultDevice.tx_chunk_bytes, DefaultDevice.tx_remembered_ids} \subseteq Int
    BY DEF DefaultDevice, Second
  <2> QED
    BY <2>1, <2>2 DEF NumberKeys
<1>2. i \in DOMAIN document.devices /\ Devices(document)[i] = Overlay(DefaultDevice, document.devices[i])
  BY DEF Devices
<1>3. f \in DOMAIN document.devices[i] => document.devices[i][f] \in Int
  BY <1>2 DEF InputInv, DocumentInv, NumbersIn
<1> QED
  BY <1>1, <1>2, <1>3 DEF Overlay

LEMMA MergeDerives == ASSUME NEW doc, NEW env, NEW flags PROVE Derived(Merge(doc, env, flags))
<1>1. "station" \in DOMAIN Defaults \ {"instance"}
  BY DEF Defaults
<1>2. Merge(doc, env, flags).station = Given(doc, env, flags, "station")
  BY <1>1, MergeGives
<1> QED
  BY <1>2, MergeGives DEF Derived

LEMMA LoadsValid == ASSUME InputInv, ExitInv, Load PROVE RulesInv'
<1> DEFINE c == Merge(document, environ, Flags)
           ds == Devices(document)
<1>1. /\ cfg' = c /\ devices' = ds /\ loadedAt' = edits /\ UNCHANGED <<args, environ, disk, edits>>
      /\ args.cmd \in {"run", "validate", "probe"}
  BY DEF Load, Step, input, ExitInv, ArgsInv
<1>2. /\ LoadAccepts(c, ds) => pc' = CASE args.cmd = "run" -> "open log" [] args.cmd = "validate" -> "print"
                                     [] args.cmd = "probe" -> "find device"
      /\ ~LoadAccepts(c, ds) => refusedBy' = "load" /\ pc' \notin ProbePlaces \cup WaysIn
  BY DEF Load, Step, ProbePlaces, WaysIn
<1> HIDE DEF c, ds
<1>3. (pc' \in ProbePlaces => args.cmd = "probe") /\ (pc' \in WaysIn => args.cmd # "probe") /\ pc' # "reader"
  BY <1>1, <1>2 DEF ProbePlaces, WaysIn
<1>4. ASSUME Loaded', args.cmd # "probe" PROVE Validated'
  <2>1. LoadAccepts(c, ds)
    BY <1>2, <1>4 DEF Loaded
  <2>2. Validate(c, ds, environ, disk)
    BY <1>4, <2>1 DEF LoadAccepts
  <2>3. \A f \in NumberSettings : c[f] \in Int
    <3>1. Flags = args.flags
      BY <1>4 DEF Flags
    <3>2. ApplyEnvAccepts(environ) /\ NumbersIn(Flags, NumberSettings)
      BY <2>1, <3>1 DEF LoadAccepts, InputInv, LayersInv
    <3> QED
      BY <3>2, MergeNumbers DEF c
  <2>4. \A i \in DOMAIN ds : \A f \in NumberKeys : ds[i][f] \in Int
    BY DeviceNumbers DEF ds
  <2>5. Derived(c)
    BY MergeDerives DEF c
  <2> QED
    BY <1>1, <2>2, <2>3, <2>4, <2>5 DEF Validated
<1> QED
  BY <1>1, <1>3, <1>4 DEF RulesInv

\* What can change once the configuration is loaded: where the command is, the
\* device of the probe, and the disk.
LEMMA AfterLoad ==
    ASSUME ExitInv, [Next]_vars, pc \notin {"shell", "load"}
    PROVE  /\ devices' = devices \/ (pc = "find device" /\ pc' # "reader")
           /\ UNCHANGED <<disk, edits>> \/ (edits' = edits + 1 /\ refusedBy' = refusedBy)
           /\ pc' \in ProbePlaces => pc \in ProbePlaces
           /\ pc' \in WaysIn => pc \in WaysIn
           /\ pc' = "reader" /\ pc # "reader" => ValidDevice(devices[1])
<1> USE DEF ProbePlaces, WaysIn
<1>1. CASE LoadCredentials \/ NewTopics \/ BuildDevices \/ NewCore
  BY <1>1 DEF LoadCredentials, NewTopics, BuildDevices, NewCore, Step, built
<1>2. CASE PrintSettings \/ ProbeDevice \/ NewSerialReader
  BY <1>2 DEF PrintSettings, ProbeDevice, NewSerialReader, Step, built
<1>3. CASE FindDevice
  BY <1>3 DEF FindDevice, Step
<1>4. CASE OpenLog \/ Dial
  BY <1>4 DEF OpenLog, Dial, Step, built
<1>5. CASE Leave
  BY <1>5 DEF Leave, RunReturns, Disconnect, ShutGate, Tell, CloseLog, Step, built
<1>6. CASE EditFile \/ SetVariable \/ SetFlag \/ Start \/ Load
  BY <1>6 DEF EditFile, SetVariable, SetFlag, Start, Load, Step
<1>7. CASE DiskChanges
  BY <1>7 DEF DiskChanges, Editing, built
<1>8. CASE PahoLine \/ PahoWrites
  BY <1>8 DEF PahoLine, PahoWrites, built
<1>9. CASE UNCHANGED vars
  BY <1>9 DEF vars, built
<1> QED
  BY <1>1, <1>2, <1>3, <1>4, <1>5, <1>6, <1>7, <1>8, <1>9 DEF Next, Assemble, Probe

LEMMA RulesStep == ASSUME InputInv, ExitInv, RulesInv, [Next]_vars PROVE RulesInv'
<1>1. CASE Load
  BY <1>1, LoadsValid
<1>2. CASE pc \in {"shell", "load"} /\ ~Load
  BY <1>2, NotLoaded DEF RulesInv, Loaded, ProbePlaces, WaysIn
<1>3. CASE pc \notin {"shell", "load"}
  <2>1. UNCHANGED <<args, environ, cfg, loadedAt>> /\ (Loaded' => Loaded)
    BY <1>3, LoadedOnce
  <2>2. ASSUME Loaded', args.cmd # "probe" PROVE Validated'
    <3>1. Validated /\ devices' = devices
      BY <1>3, <2>1, <2>2, AfterLoad DEF RulesInv, ProbePlaces
    <3>2. PICK dk : Validate(cfg, devices, environ, dk) /\ (edits = loadedAt => disk = dk)
      BY <3>1 DEF Validated
    <3>3. edits' = loadedAt' => edits = loadedAt /\ disk' = disk
      <4>1. edits \in Nat /\ loadedAt \in Nat /\ loadedAt <= edits
        BY DEF InputInv, DiskInv
      <4>2. (disk' = disk /\ edits' = edits) \/ edits' = edits + 1
        BY <1>3, AfterLoad
      <4>3. edits + 1 # loadedAt
        BY <4>1
      <4> QED
        BY <2>1, <4>2, <4>3
    <3> QED
      BY <2>1, <3>1, <3>2, <3>3 DEF Validated
  <2>3. pc' = "reader" => ValidDevice(devices'[1])
    BY <1>3, AfterLoad DEF RulesInv
  <2> QED
    BY <1>3, <2>1, <2>2, <2>3, AfterLoad DEF RulesInv
<1> QED
  BY <1>1, <1>2, <1>3

\* What is refused after that is about contents.
LEMMA RefusalStep ==
    ASSUME InputInv, ExitInv, RulesInv, OnlyContentsRefuse, [Next]_vars
    PROVE  OnlyContentsRefuse'
<1>0. edits \in Nat /\ loadedAt \in Nat /\ loadedAt <= edits /\ disk.ca \in CAStates /\ disk.logdir \in LogDirStates
  BY DEF InputInv, DiskInv
<1>1. CASE pc \in {"shell", "load"}
  <2>1. refusedBy' \in {"nobody", "load"}
    <3>1. CASE Load
      BY <3>1 DEF Load, Step, ExitInv, ArgsInv
    <3> QED
      BY <1>1, <3>1, NotLoaded DEF ExitInv, ArgsInv
  <2> QED
    BY <2>1 DEF OnlyContentsRefuse
<1>2. CASE pc \notin {"shell", "load"} /\ refusedBy' = refusedBy
  <2>1. UNCHANGED <<environ, cfg, loadedAt>>
    BY <1>2, LoadedOnce
  <2>2. edits' = loadedAt' => edits = loadedAt /\ disk' = disk
    <3>1. (disk' = disk /\ edits' = edits) \/ edits' = edits + 1
      BY <1>2, AfterLoad
    <3>2. edits + 1 # loadedAt
      BY <1>0
    <3> QED
      BY <2>1, <3>1, <3>2
  <2> QED
    BY <1>2, <2>1, <2>2 DEF OnlyContentsRefuse
<1>3. ASSUME pc \in WaysIn, refusedBy' # refusedBy
      PROVE  /\ UNCHANGED <<environ, cfg, loadedAt, disk, edits>> /\ Derived(cfg)
             /\ \A f \in NumberSettings : cfg[f] \in Int
             /\ \A i \in DOMAIN devices : \A f \in NumberKeys : devices[i][f] \in Int
             /\ ValidIdentity(cfg) /\ ValidDevices(devices) /\ ValidDelivery(cfg, devices) /\ ValidStatus(cfg)
             /\ \E dk : ValidBroker(cfg, environ, dk) /\ ValidLogging(cfg, dk) /\ (edits = loadedAt => disk = dk)
  <2>1. pc \notin {"shell", "load", "exited"} /\ args.cmd # "probe" /\ Loaded
    BY <1>3 DEF RulesInv, WaysIn, Loaded, ExitInv, ArgsInv
  <2>2. Validated
    BY <2>1 DEF RulesInv
  <2>3. UNCHANGED <<environ, cfg, loadedAt, disk, edits>>
    BY <1>3, <2>1, LoadedOnce, AfterLoad
  <2> QED
    BY <2>2, <2>3 DEF Validated, Validate
<1>4. CASE pc \notin {"shell", "load"} /\ refusedBy' # refusedBy
  <2> USE DEF WaysIn
  <2>1. CASE OpenLog
    <3>1. pc = "open log" /\ refusedBy' = "open log" /\ ~OpenLogAccepts(cfg, disk)
      BY <1>4, <2>1 DEF OpenLog, Step
    <3>2. edits = loadedAt => disk.logdir = "unwritable"
      BY <1>0, <1>3, <1>4, <3>1, LogRefusesValid
    <3> QED
      BY <1>3, <1>4, <3>1, <3>2 DEF OnlyContentsRefuse
  <2>2. CASE LoadCredentials
    <3>1. pc = "credentials" /\ refusedBy' = "credentials" /\ ~LoadCredentialsAccepts(cfg, environ, disk)
      BY <1>4, <2>2 DEF LoadCredentials, Step
    <3>2. edits = loadedAt =>
            \/ cfg.credentials_file # "" /\ disk.credentials \in {"unreadable", "garbled", "no password", "no username"}
            \/ \E name \in Credentials \cap DOMAIN environ : environ[name] = ""
            \/ cfg.credentials_file = "" /\ "MQTT_USERNAME" \notin DOMAIN environ
      BY <1>3, <1>4, <3>1, CredentialsRefuseValid
    <3> QED
      BY <1>3, <1>4, <3>1, <3>2 DEF OnlyContentsRefuse
  <2>3. CASE NewTopics
    <3>1. pc = "topics" /\ ~TopicsAccept(cfg)
      BY <1>4, <2>3 DEF NewTopics, Step
    <3> QED
      BY <1>3, <1>4, <3>1, IdentityTakesValid
  <2>4. CASE BuildDevices
    <3>1. pc = "devices" /\ ~BuildDevicesAccepts(devices)
      BY <1>4, <2>4 DEF BuildDevices, Step
    <3> QED
      BY <1>3, <1>4, <3>1, DevicesTakeValid
  <2>5. CASE Dial
    <3>1. /\ pc = "dial" /\ (DialAccepts(cfg) => refusedBy' = "ca file")
          /\ ~(DialAccepts(cfg) /\ TLSConfigAccepts(cfg, disk))
      BY <1>4, <2>5 DEF Dial, Step
    <3>2. DialAccepts(cfg)
      BY <1>3, <1>4, <3>1, DialTakesValid
    <3>3. edits = loadedAt => disk.ca \in {"unreadable", "no certificates"}
      BY <1>0, <1>3, <1>4, <3>1, <3>2, CARefusesValid
    <3> QED
      BY <1>3, <1>4, <3>1, <3>2, <3>3 DEF OnlyContentsRefuse
  <2>6. CASE NewCore
    <3>1. pc = "core" /\ ~NewCoreAccepts(cfg, devices)
      BY <1>4, <2>6 DEF NewCore, Step
    <3>2. /\ cfg.buffer_size \in Int /\ cfg.event_buffer_size \in Int /\ cfg.keepalive_interval \in Int
          /\ \A i \in DOMAIN devices : /\ devices[i].message_expiry \in Int /\ devices[i].tx_open_attempts \in Int
                                       /\ devices[i].tx_open_interval \in Int
      BY <1>3, <1>4, <3>1 DEF NumberSettings, NumberKeys
    <3> QED
      BY <1>3, <1>4, <3>1, <3>2, CoreTakesValid
  <2>7. CASE PrintSettings
    <3>1. pc = "print" /\ ~(TopicsAccept(cfg) /\ \A i \in DOMAIN devices : DeviceTopicsAccept(devices[i]))
      BY <1>4, <2>7 DEF PrintSettings, Step
    <3> QED
      BY <1>3, <1>4, <3>1, IdentityTakesValid, DevicesTakeValid
  <2>8. CASE FindDevice \/ ProbeDevice
    <3>1. refusedBy' \in {"no such device", "device"}
      BY <1>4, <2>8 DEF FindDevice, ProbeDevice, Step
    <3> QED
      BY <3>1 DEF OnlyContentsRefuse
  <2>9. CASE NewSerialReader
    <3>1. pc = "reader" /\ ~SerialAccepts(devices[1])
      BY <1>4, <2>9 DEF NewSerialReader, Step
    <3> QED
      BY <3>1, ReaderTakesValid DEF RulesInv
  <2>10. ~(Leave \/ PahoLine \/ PahoWrites \/ UNCHANGED vars)
    BY <1>4 DEF Leave, RunReturns, Disconnect, ShutGate, Tell, CloseLog, Step, PahoLine, PahoWrites, vars
  <2>11. ~(EditFile \/ SetVariable \/ SetFlag \/ DiskChanges \/ Start \/ Load)
    BY <1>4 DEF EditFile, SetVariable, SetFlag, DiskChanges, Editing, Start, Load, Step
  <2> QED
    BY <2>1, <2>2, <2>3, <2>4, <2>5, <2>6, <2>7, <2>8, <2>9, <2>10, <2>11 DEF Next, Assemble, Probe
<1> QED
  BY <1>1, <1>2, <1>4

\* What Validate accepts no constructor refuses, and on the disk that Validate
\* saw a refusal is about what no rule looks at (run.go:59-62,
\* validate.go:46-47).
THEOREM ValidIsRefusedForContents == Spec => []OnlyContentsRefuse
<1> DEFINE Inv == ExitInv /\ InputInv /\ RulesInv /\ OnlyContentsRefuse
<1>1. Init => Inv
  <2>1. Init => RulesInv /\ OnlyContentsRefuse
    BY DEF Init, RulesInv, OnlyContentsRefuse, Loaded, ProbePlaces, WaysIn
  <2> QED
    BY <2>1, ExitStart, InputStart
<1>2. Inv /\ [Next]_vars => Inv'
  BY ExitStep, InputStep, RulesStep, RefusalStep
<1> QED
  BY <1>1, <1>2, PTL DEF Spec
-----------------------------------------------------------------------------
(***************************************************************************)
(* The subscriptions.  They are recursive functions; what they compute is  *)
(* proved by a least counterexample.                                       *)
(***************************************************************************)

\* A set of natural numbers has a least member.
LEMMA LeastOf ==
    ASSUME NEW S \in SUBSET Nat, S # {}
    PROVE  \E x \in S : \A y \in S : x <= y
<1>1. PICK x \in S : \A y \in S : ~(<<y, x>> \in OpToRel(<, Nat))
  BY NatLessThanWellFounded, WFMin
<1>2. \A y \in S : ~(y < x)
  BY <1>1 DEF OpToRel
<1>3. \A y \in S : x <= y
  BY <1>2
<1> QED
  BY <1>3

\* Some steps on S, one per number, and a run of them from b.
Steps(N, S) == [1..N -> [S -> S]]
Runs(N, S, b, step) ==
    \E g \in [0..N -> S] : g[0] = b /\ \A n \in 1..N : g[n] = step[n][g[n - 1]]

\* A recursive function over 0..N exists: N steps from b can be run.
LEMMA Iterates ==
    ASSUME NEW S, NEW b \in S, NEW N \in Nat, NEW step \in Steps(N, S)
    PROVE  Runs(N, S, b, step)
<1> USE DEF Steps, Runs
<1> DEFINE Is(g, m) == g[0] = b /\ \A n \in 1..m : g[n] = step[n][g[n - 1]]
           bad == {m \in 0..N : ~ \E g \in [0..m -> S] : Is(g, m)}
<1>1. SUFFICES bad = {}
  BY <1>1
<1>2. SUFFICES ASSUME bad # {} PROVE FALSE
  BY <1>2
<1>3. PICK m \in bad : \A k \in bad : m <= k
  <2>1. bad \in SUBSET Nat
    OBVIOUS
  <2> QED
    BY <2>1, <1>2, LeastOf
<1>4. m # 0
  <2>1. Is([n \in 0..0 |-> b], 0) /\ [n \in 0..0 |-> b] \in [0..0 -> S]
    OBVIOUS
  <2> QED
    BY <2>1
<1>5. m \in 0..N /\ m - 1 \in 0..N /\ m - 1 \notin bad
  <2> HIDE DEF Is
  <2>1. m \in 0..N
    OBVIOUS
  <2> HIDE DEF bad
  <2> QED
    BY <2>1, <1>3, <1>4
<1>6. PICK g \in [0..(m - 1) -> S] : Is(g, m - 1)
  BY <1>5
<1> DEFINE h == [n \in 0..m |-> IF n = m THEN step[m][g[m - 1]] ELSE g[n]]
<1>7. h \in [0..m -> S]
  BY <1>4, <1>5
<1>8. Is(h, m)
  BY <1>4, <1>5, <1>6
<1> QED
  BY <1>7, <1>8, <1>3

\* The lists of members of S in which none is twice.
Lists(S) == {s \in Seq(S) : IsInjective(s)}

LEMMA SubscribeOne ==
    ASSUME NEW S, NEW s \in Lists(S), NEW t \in S
    PROVE  Subscribe(s, t) \in Lists(S) /\ ToSet(Subscribe(s, t)) = ToSet(s) \cup {t}
<1>1. s \in Seq(S) /\ IsInjective(s) /\ Len(s) \in Nat /\ DOMAIN s = 1..Len(s)
  BY DEF Lists
<1>2. CASE Contains(s, t)
  <2>1. Subscribe(s, t) = s
    BY <1>2 DEF Subscribe
  <2>2. t \in ToSet(s)
    BY <1>1, <1>2 DEF Contains, ToSet
  <2> QED
    BY <2>1, <2>2
<1>3. CASE ~Contains(s, t)
  <2>1. PICK u : u = Append(s, t)
    OBVIOUS
  <2>2. /\ u \in Seq(S) /\ Len(u) = Len(s) + 1 /\ DOMAIN u = 1..(Len(s) + 1)
        /\ u[Len(s) + 1] = t /\ \A i \in 1..Len(s) : u[i] = s[i]
    BY <1>1, <2>1
  <2>3. \A i \in 1..Len(s) : s[i] # t
    BY <1>3 DEF Contains
  <2>4. IsInjective(u)
    <3> SUFFICES ASSUME NEW a \in 1..(Len(s) + 1), NEW b \in 1..(Len(s) + 1), u[a] = u[b] PROVE a = b
      BY <2>2 DEF IsInjective
    <3>1. CASE a \in 1..Len(s) /\ b \in 1..Len(s)
      BY <1>1, <2>2, <3>1 DEF IsInjective
    <3>2. CASE a = Len(s) + 1 \/ b = Len(s) + 1
      BY <1>1, <2>2, <2>3, <3>2
    <3> QED
      BY <1>1, <3>1, <3>2
  <2>5. ToSet(u) = ToSet(s) \cup {t}
    <3>1. \A x \in ToSet(u) : x \in ToSet(s) \cup {t}
      BY <1>1, <2>2 DEF ToSet
    <3>2. \A x \in ToSet(s) : x \in ToSet(u)
      BY <1>1, <2>2 DEF ToSet
    <3>3. t \in ToSet(u)
      BY <1>1, <2>2 DEF ToSet
    <3> QED
      BY <3>1, <3>2, <3>3
  <2>6. Subscribe(s, t) = u
    BY <1>3, <2>1 DEF Subscribe
  <2> QED
    BY <2>2, <2>4, <2>5, <2>6 DEF Lists
<1> QED
  BY <1>2, <1>3

\* Subscribing to some topics in turn adds them, each once.
LEMMA SubscribesToEach ==
    ASSUME NEW S, NEW topics \in Lists(S), NEW more \in Seq(S)
    PROVE  /\ SubscribeEach(topics, more) \in Lists(S)
           /\ ToSet(SubscribeEach(topics, more)) = ToSet(topics) \cup ToSet(more)
<1> DEFINE Is(h) == h = [n \in 0..Len(more) |-> IF n = 0 THEN topics ELSE Subscribe(h[n - 1], more[n])]
           X == Lists(S)
           step == [n \in 1..Len(more) |-> [s \in X |-> Subscribe(s, more[n])]]
<1>1. Len(more) \in Nat /\ DOMAIN more = 1..Len(more) /\ \A n \in 1..Len(more) : more[n] \in S
  OBVIOUS
<1>2. PICK N : N = Len(more)
  OBVIOUS
<1>3. topics \in X
  OBVIOUS
<1>4. \A n \in 1..N, s \in X : Subscribe(s, more[n]) \in X /\ ToSet(Subscribe(s, more[n])) = ToSet(s) \cup {more[n]}
  BY <1>1, <1>2, SubscribeOne
<1> HIDE DEF X
<1>5. step \in Steps(N, X)
  BY <1>2, <1>4 DEF Steps
<1>6. Runs(N, X, topics, step)
  <2> HIDE DEF step
  <2> QED
    BY <1>1, <1>2, <1>3, <1>5, Iterates
<1>7. PICK g \in [0..N -> X] : g[0] = topics /\ \A n \in 1..N : g[n] = step[n][g[n - 1]]
  BY <1>6 DEF Runs
<1>8. \A n \in 1..N : g[n] = Subscribe(g[n - 1], more[n])
  <2> TAKE n \in 1..N
  <2>1. g[n - 1] \in X /\ g[n] = step[n][g[n - 1]]
    BY <1>1, <1>2, <1>7
  <2>2. step[n] = [s \in X |-> Subscribe(s, more[n])]
    BY <1>2
  <2> QED
    BY <2>1, <2>2
<1> HIDE DEF step
<1>9. Is(g)
  BY <1>1, <1>2, <1>7, <1>8
<1> DEFINE c == CHOOSE h : Is(h)
<1>10. SubscribeEach(topics, more) = c[N]
  BY <1>2 DEF SubscribeEach
<1>11. Is(c)
  BY <1>9
<1> HIDE DEF c
<1>12. c[0] = topics /\ \A n \in 1..N : c[n] = Subscribe(c[n - 1], more[n])
  BY <1>1, <1>2, <1>11
<1> HIDE DEF Is
<1> DEFINE First(n) == {more[i] : i \in 1..n}
           Good(n) == c[n] \in X /\ ToSet(c[n]) = ToSet(topics) \cup First(n)
<1>13. Good(0)
  BY <1>3, <1>12
<1>14. ASSUME NEW n \in 1..N, Good(n - 1) PROVE Good(n)
  <2>1. c[n] \in X /\ ToSet(c[n]) = ToSet(c[n - 1]) \cup {more[n]}
    BY <1>4, <1>12, <1>14
  <2>2. First(n) = First(n - 1) \cup {more[n]}
    BY <1>1, <1>2
  <2> HIDE DEF First
  <2> QED
    BY <1>14, <2>1, <2>2
<1> HIDE DEF Good
<1>15. ASSUME NEW bad \in SUBSET Nat, bad = {n \in 0..N : ~Good(n)}, bad # {} PROVE FALSE
  <2>1. PICK m \in bad : \A n \in bad : m <= n
    BY <1>15, LeastOf
  <2>2. m \in 0..N /\ ~Good(m)
    BY <1>15
  <2>3. m # 0
    BY <1>13, <2>2
  <2>4. m \in 1..N /\ m - 1 \in 0..N /\ ~(m <= m - 1)
    BY <1>1, <1>2, <2>2, <2>3
  <2>5. Good(m - 1)
    BY <1>15, <2>1, <2>4
  <2> QED
    BY <1>14, <2>2, <2>4, <2>5
<1>16. Good(N)
  <2>1. {n \in 0..N : ~Good(n)} \in SUBSET Nat
    BY <1>1, <1>2
  <2>2. {n \in 0..N : ~Good(n)} = {}
    BY <1>15, <2>1
  <2> QED
    BY <1>1, <1>2, <2>2
<1>17. First(N) = ToSet(more)
  BY <1>1, <1>2 DEF ToSet
<1> QED
  BY <1>10, <1>16, <1>17 DEF Good, X

\* The connection subscribes to the topics of all devices, each once.
LEMMA SubscribesToAll ==
    ASSUME NEW S, NEW id, NEW ds, NEW N \in Nat, N = Len(ds), \A n \in 1..N : TopicsInOrder(id, ds[n]) \in Seq(S)
    PROVE  /\ Subscriptions(id, ds) \in Lists(S)
           /\ ToSet(Subscriptions(id, ds)) = UNION {ToSet(TopicsInOrder(id, ds[n])) : n \in 1..N}
<1> DEFINE T(n) == TopicsInOrder(id, ds[n])
           Is(h) == h = [n \in 0..Len(ds) |-> IF n = 0 THEN <<>> ELSE SubscribeEach(h[n - 1], T(n))]
           X == Lists(S)
           step == [n \in 1..N |-> [s \in X |-> SubscribeEach(s, T(n))]]
<1>3. <<>> \in X
  <2>1. <<>> \in Seq(S) /\ DOMAIN <<>> = {}
    OBVIOUS
  <2> QED
    BY <2>1 DEF Lists, IsInjective
<1>4. \A n \in 1..N, s \in X : SubscribeEach(s, T(n)) \in X /\ ToSet(SubscribeEach(s, T(n))) = ToSet(s) \cup ToSet(T(n))
  <2> TAKE n \in 1..N, s \in X
  <2>1. PICK more : more = T(n)
    OBVIOUS
  <2>2. more \in Seq(S)
    BY <2>1
  <2> HIDE DEF T
  <2> QED
    BY <2>1, <2>2, SubscribesToEach
<1> HIDE DEF X, T
<1>5. step \in Steps(N, X)
  BY <1>4 DEF Steps
<1>6. Runs(N, X, <<>>, step)
  <2>1. PICK b : b = <<>>
    OBVIOUS
  <2> HIDE DEF step
  <2>2. Runs(N, X, b, step)
    BY <1>3, <1>5, <2>1, Iterates
  <2> QED
    BY <2>1, <2>2
<1>7. PICK g \in [0..N -> X] : g[0] = <<>> /\ \A n \in 1..N : g[n] = step[n][g[n - 1]]
  BY <1>6 DEF Runs
<1>8. \A n \in 1..N : g[n] = SubscribeEach(g[n - 1], T(n))
  <2> TAKE n \in 1..N
  <2>0. n - 1 \in 0..N
    OBVIOUS
  <2>1. g[n - 1] \in X /\ g[n] = step[n][g[n - 1]]
    BY <1>7, <2>0
  <2>2. step[n] = [s \in X |-> SubscribeEach(s, T(n))]
    OBVIOUS
  <2> QED
    BY <2>1, <2>2
<1> HIDE DEF step
<1>9. Is(g)
  BY <1>7, <1>8
<1> DEFINE c == CHOOSE h : Is(h)
<1>10. Subscriptions(id, ds) = c[N]
  BY DEF Subscriptions, T
<1>11. Is(c)
  BY <1>9
<1> HIDE DEF c
<1>12. c[0] = <<>> /\ \A n \in 1..N : c[n] = SubscribeEach(c[n - 1], T(n))
  BY <1>11
<1> HIDE DEF Is
<1> DEFINE First(n) == UNION {ToSet(T(i)) : i \in 1..n}
           Good(n) == c[n] \in X /\ ToSet(c[n]) = First(n)
<1>13. Good(0)
  <2>1. First(0) = {} /\ ToSet(<<>>) = {}
    BY DEF ToSet
  <2> QED
    BY <1>3, <1>12, <2>1
<1>14. ASSUME NEW n \in 1..N, Good(n - 1) PROVE Good(n)
  <2>1. c[n] \in X /\ ToSet(c[n]) = ToSet(c[n - 1]) \cup ToSet(T(n))
    BY <1>4, <1>12, <1>14
  <2>2. First(n) = First(n - 1) \cup ToSet(T(n))
    <3>1. 1..n = 1..(n - 1) \cup {n}
      OBVIOUS
    <3> QED
      BY <3>1
  <2> HIDE DEF First
  <2> QED
    BY <1>14, <2>1, <2>2
<1> HIDE DEF Good
<1>15. ASSUME NEW bad \in SUBSET Nat, bad = {n \in 0..N : ~Good(n)}, bad # {} PROVE FALSE
  <2>1. PICK m \in bad : \A n \in bad : m <= n
    BY <1>15, LeastOf
  <2>2. m \in 0..N /\ ~Good(m)
    BY <1>15
  <2>3. m # 0
    BY <1>13, <2>2
  <2>4. m \in 1..N /\ m - 1 \in 0..N /\ ~(m <= m - 1)
    BY <2>2, <2>3
  <2>5. Good(m - 1)
    BY <1>15, <2>1, <2>4
  <2> QED
    BY <1>14, <2>2, <2>4, <2>5
<1>16. Good(N)
  <2>1. {n \in 0..N : ~Good(n)} \in SUBSET Nat
    OBVIOUS
  <2>2. {n \in 0..N : ~Good(n)} = {}
    BY <1>15, <2>1
  <2> QED
    BY <2>2
<1> QED
  BY <1>10, <1>16 DEF Good, X, T
\* What a list of topics holds, and what two of them do one after the other.
LEMMA ListHolds == ASSUME NEW s, IsList(s) PROVE s \in Seq(ToSet(s)) /\ Len(s) \in Nat /\ DOMAIN s = 1..Len(s)
BY DEF IsList

LEMMA JoinHolds ==
    ASSUME NEW S, NEW s \in Seq(S), NEW t \in Seq(S)
    PROVE  s \o t \in Seq(S) /\ ToSet(s \o t) = ToSet(s) \cup ToSet(t)
<1>1. /\ Len(s) \in Nat /\ Len(t) \in Nat /\ DOMAIN s = 1..Len(s) /\ DOMAIN t = 1..Len(t)
  OBVIOUS
<1>2. PICK u : u = s \o t
  OBVIOUS
<1>3. /\ u \in Seq(S) /\ DOMAIN u = 1..(Len(s) + Len(t))
      /\ \A i \in 1..(Len(s) + Len(t)) : u[i] = IF i <= Len(s) THEN s[i] ELSE t[i - Len(s)]
  BY <1>1, <1>2
<1>4. ASSUME NEW x \in ToSet(u) PROVE x \in ToSet(s) \cup ToSet(t)
  <2>1. PICK i \in 1..(Len(s) + Len(t)) : x = u[i]
    BY <1>3 DEF ToSet
  <2>2. i \in 1..Len(s) \/ (i - Len(s) \in 1..Len(t) /\ ~(i <= Len(s)))
    BY <1>1
  <2>3. CASE i \in 1..Len(s)
    <3>1. i <= Len(s) /\ x = s[i]
      BY <1>1, <1>3, <2>1, <2>3
    <3> QED
      BY <1>1, <2>3, <3>1 DEF ToSet
  <2>4. CASE i - Len(s) \in 1..Len(t) /\ ~(i <= Len(s))
    <3>1. PICK k : k = i - Len(s)
      OBVIOUS
    <3>2. k \in 1..Len(t) /\ x = t[k]
      BY <1>3, <2>1, <2>4, <3>1
    <3> QED
      BY <1>1, <3>2 DEF ToSet
  <2> QED
    BY <2>2, <2>3, <2>4
<1>5. ASSUME NEW x \in ToSet(s) PROVE x \in ToSet(u)
  <2>1. PICK i \in 1..Len(s) : x = s[i]
    BY <1>1 DEF ToSet
  <2>2. i \in 1..(Len(s) + Len(t)) /\ i <= Len(s)
    BY <1>1
  <2> QED
    BY <1>3, <2>1, <2>2 DEF ToSet
<1>6. ASSUME NEW x \in ToSet(t) PROVE x \in ToSet(u)
  <2>1. PICK i \in 1..Len(t) : x = t[i]
    BY <1>1 DEF ToSet
  <2>2. PICK k : k = Len(s) + i
    OBVIOUS
  <2>3. k \in 1..(Len(s) + Len(t)) /\ ~(k <= Len(s)) /\ k - Len(s) = i
    BY <1>1, <2>2
  <2>4. x = u[k]
    BY <1>3, <2>1, <2>3
  <2> QED
    BY <1>3, <2>3, <2>4 DEF ToSet
<1> QED
  BY <1>2, <1>3, <1>4, <1>5, <1>6

\* A device's topics in order are its routes.
LEMMA TopicsAreRoutes ==
    ASSUME NEW c, NEW d, GroupsAreLists(d.broadcast_groups)
    PROVE  /\ ToSet(TopicsInOrder(c, d)) = TxRoutes(c, d.id, d.broadcast_groups)
           /\ TopicsInOrder(c, d) \in Seq(TxRoutes(c, d.id, d.broadcast_groups))
<1> DEFINE groups == d.broadcast_groups
           S == TxRoutes(c, d.id, groups)
           In(scope) == [i \in DOMAIN groups[scope] |-> GroupTx(c, scope, groups[scope][i])]
           Of(scope) == {GroupTx(c, scope, groups[scope][i]) : i \in DOMAIN groups[scope]}
<1>1. \A scope \in Scopes : In(scope) \in Seq(S) /\ ToSet(In(scope)) = Of(scope)
  <2> TAKE scope \in Scopes
  <2>1. IsList(groups[scope])
    BY DEF GroupsAreLists
  <2>2. Len(groups[scope]) \in Nat /\ DOMAIN groups[scope] = 1..Len(groups[scope])
    BY <2>1, ListHolds
  <2>3. \A i \in DOMAIN groups[scope] : GroupTx(c, scope, groups[scope][i]) \in S
    BY DEF TxRoutes, GroupRoutes
  <2>4. PICK N : N = Len(groups[scope])
    OBVIOUS
  <2> HIDE DEF S
  <2>5. In(scope) \in [1..N -> S] /\ N \in Nat
    BY <2>2, <2>3, <2>4
  <2>6. In(scope) \in Seq(S)
    <3>1. PICK f : f = In(scope)
      OBVIOUS
    <3>2. f \in [1..N -> S] /\ N \in Nat
      BY <2>5, <3>1
    <3>3. f \in Seq(S)
      BY <3>2
    <3> QED
      BY <3>1, <3>3
  <2>7. ToSet(In(scope)) = Of(scope)
    BY DEF ToSet
  <2> QED
    BY <2>6, <2>7
<1>2. S = {DeviceTopic(c, d.id, "tx")} \cup Of("project") \cup Of("site") \cup Of("station")
  <2>1. UNION {Of(scope) : scope \in Scopes} = Of("project") \cup Of("site") \cup Of("station")
    <3> HIDE DEF Of
    <3> QED
      BY DEF Scopes
  <2>2. S = {DeviceTopic(c, d.id, "tx")} \cup UNION {Of(scope) : scope \in Scopes}
    BY DEF TxRoutes, GroupRoutes
  <2> HIDE DEF S, Of
  <2> QED
    BY <2>1, <2>2
<1>3. "project" \in Scopes /\ "site" \in Scopes /\ "station" \in Scopes
  BY DEF Scopes
<1>4. TopicsInOrder(c, d) = <<DeviceTopic(c, d.id, "tx")>> \o ((In("project") \o In("site")) \o In("station"))
  BY DEF TopicsInOrder, GroupTopicsInOrder
<1>5. PICK own, p, s, t : /\ own = <<DeviceTopic(c, d.id, "tx")>> /\ p = In("project") /\ s = In("site") /\ t = In("station")
  OBVIOUS
<1>6. own \in Seq(S) /\ ToSet(own) = {DeviceTopic(c, d.id, "tx")}
  <2>1. DeviceTopic(c, d.id, "tx") \in S
    BY DEF TxRoutes
  <2>2. PICK x : x = DeviceTopic(c, d.id, "tx")
    OBVIOUS
  <2> HIDE DEF S
  <2>3. own = <<x>> /\ x \in S
    BY <1>5, <2>1, <2>2
  <2>4. <<x>> \in Seq(S) /\ DOMAIN <<x>> = {1} /\ <<x>>[1] = x
    BY <2>3
  <2>5. ToSet(own) = {x}
    BY <2>3, <2>4 DEF ToSet
  <2> QED
    BY <2>2, <2>3, <2>4, <2>5
<1>7. /\ p \in Seq(S) /\ s \in Seq(S) /\ t \in Seq(S)
      /\ ToSet(p) = Of("project") /\ ToSet(s) = Of("site") /\ ToSet(t) = Of("station")
  <2> HIDE DEF S, Of, In
  <2> QED
    BY <1>1, <1>3, <1>5
<1> HIDE DEF S, Of, In
<1>8. PICK q : q = p \o s
  OBVIOUS
<1>9. q \in Seq(S) /\ ToSet(q) = ToSet(p) \cup ToSet(s)
  BY <1>7, <1>8, JoinHolds
<1>10. PICK r : r = q \o t
  OBVIOUS
<1>11. r \in Seq(S) /\ ToSet(r) = ToSet(q) \cup ToSet(t)
  BY <1>7, <1>9, <1>10, JoinHolds
<1>12. own \o r \in Seq(S) /\ ToSet(own \o r) = ToSet(own) \cup ToSet(r)
  BY <1>6, <1>11, JoinHolds
<1>13. TopicsInOrder(c, d) = own \o r
  BY <1>4, <1>5, <1>8, <1>10
<1>14. ToSet(own \o r) = S
  BY <1>2, <1>6, <1>7, <1>9, <1>11, <1>12
<1> QED
  BY <1>12, <1>13, <1>14 DEF S

\* So the subscriptions are the devices' routes.
LEMMA SubscriptionsAreRoutes ==
    ASSUME NEW c, NEW ds, IsList(ds), \A i \in DOMAIN ds : GroupsAreLists(ds[i].broadcast_groups)
    PROVE  /\ IsInjective(Subscriptions(c, ds))
           /\ ToSet(Subscriptions(c, ds)) = LeafTopics(c, ds, "tx") \cup GroupTopics(c, ds)
<1> DEFINE R(i) == TxRoutes(c, ds[i].id, ds[i].broadcast_groups)
           S == UNION {R(i) : i \in DOMAIN ds}
<1>1. Len(ds) \in Nat /\ DOMAIN ds = 1..Len(ds)
  BY ListHolds
<1>2. PICK N : N = Len(ds)
  OBVIOUS
<1>3. \A n \in 1..N : ToSet(TopicsInOrder(c, ds[n])) = R(n) /\ TopicsInOrder(c, ds[n]) \in Seq(R(n))
  <2> TAKE n \in 1..N
  <2>1. PICK d : d = ds[n]
    OBVIOUS
  <2>2. GroupsAreLists(d.broadcast_groups)
    BY <1>1, <1>2, <2>1
  <2> QED
    BY <2>1, <2>2, TopicsAreRoutes
<1>4. \A n \in 1..N : TopicsInOrder(c, ds[n]) \in Seq(S)
  <2> HIDE DEF R
  <2> TAKE n \in 1..N
  <2>1. R(n) \subseteq S
    BY <1>1, <1>2
  <2>2. PICK t, r : t = TopicsInOrder(c, ds[n]) /\ r = R(n)
    OBVIOUS
  <2> HIDE DEF S
  <2>3. t \in Seq(r) /\ r \subseteq S
    BY <1>3, <2>1, <2>2
  <2>4. t \in Seq(S)
    BY <2>3
  <2> QED
    BY <2>2, <2>4
<1> HIDE DEF S, R
<1>5. /\ Subscriptions(c, ds) \in Lists(S)
      /\ ToSet(Subscriptions(c, ds)) = UNION {ToSet(TopicsInOrder(c, ds[n])) : n \in 1..N}
  BY <1>1, <1>2, <1>4, SubscribesToAll
<1>6. {ToSet(TopicsInOrder(c, ds[n])) : n \in 1..N} = {R(n) : n \in 1..N}
  BY <1>3
<1>7. UNION {R(n) : n \in 1..N} = LeafTopics(c, ds, "tx") \cup GroupTopics(c, ds)
  <2> DEFINE own(n) == DeviceTopic(c, ds[n].id, "tx")
             gs(n) == GroupRoutes(c, ds[n].broadcast_groups)
  <2>1. \A n : R(n) = {own(n)} \cup gs(n)
    BY DEF R, TxRoutes
  <2>2. LeafTopics(c, ds, "tx") = {own(n) : n \in 1..N} /\ GroupTopics(c, ds) = UNION {gs(n) : n \in 1..N}
    BY <1>1, <1>2 DEF LeafTopics, GroupTopics
  <2> HIDE DEF own, gs
  <2> QED
    BY <2>1, <2>2
<1> QED
  BY <1>5, <1>6, <1>7 DEF Lists

\* A group's topic ends in "tx" and has "group" before its name.
LEMMA GroupTopicsAre ==
    ASSUME NEW c, NEW ds, NEW t \in GroupTopics(c, ds)
    PROVE  \E g : \/ t = <<"skuhus", c.project, "group", g, "tx">>
                  \/ t = <<"skuhus", c.project, c.site, "group", g, "tx">>
                  \/ t = <<"skuhus", c.project, c.site, c.station, "group", g, "tx">>
<1>1. PICK i \in DOMAIN ds : t \in GroupRoutes(c, ds[i].broadcast_groups)
  BY DEF GroupTopics
<1>2. PICK scope \in Scopes : \E k \in DOMAIN ds[i].broadcast_groups[scope] :
          t = GroupTx(c, scope, ds[i].broadcast_groups[scope][k])
  BY <1>1 DEF GroupRoutes
<1>3. PICK g : t = GroupTx(c, scope, g)
  BY <1>2
<1>4. scope = "project" \/ scope = "site" \/ scope = "station"
  BY DEF Scopes
<1> QED
  BY <1>3, <1>4 DEF GroupTx, GroupLevel

\* What tells topics apart: their length, their station, their device, their leaf.
LEMMA DeviceTopicIs ==
    ASSUME NEW c, NEW device, NEW leaf
    PROVE  LET t == DeviceTopic(c, device, leaf)
           IN  Len(t) = 6 /\ t[4] = c.station /\ t[5] = device /\ t[6] = leaf
BY DEF DeviceTopic

LEMMA AgentTopicIs ==
    ASSUME NEW c, NEW instance
    PROVE  Len(AgentStatus(c, instance)) = 7 /\ AgentStatus(c, instance)[7] = "status"
BY DEF AgentStatus

LEMMA GroupTopicIs ==
    ASSUME NEW c, NEW ds, NEW t \in GroupTopics(c, ds)
    PROVE  /\ Len(t) = 6 => t[4] = "group" /\ t[6] = "tx"
           /\ Len(t) = 7 => t[7] = "tx"
<1>1. PICK g : \/ t = <<"skuhus", c.project, "group", g, "tx">>
               \/ t = <<"skuhus", c.project, c.site, "group", g, "tx">>
               \/ t = <<"skuhus", c.project, c.site, c.station, "group", g, "tx">>
  BY GroupTopicsAre
<1>2. CASE t = <<"skuhus", c.project, "group", g, "tx">>
  BY <1>2
<1>3. CASE t = <<"skuhus", c.project, c.site, "group", g, "tx">>
  BY <1>3
<1>4. CASE t = <<"skuhus", c.project, c.site, c.station, "group", g, "tx">>
  BY <1>4
<1> QED
  BY <1>1, <1>2, <1>3, <1>4

\* Devices with different ids have different topics.
LEMMA LeavesCounted ==
    ASSUME NEW c, NEW ds, IsList(ds), NEW leaf, \A i, j \in DOMAIN ds : i # j => ds[i].id # ds[j].id
    PROVE  /\ IsFiniteSet(LeafTopics(c, ds, leaf))
           /\ Cardinality(LeafTopics(c, ds, leaf)) = Len(ds)
<1> DEFINE F(i) == DeviceTopic(c, ds[i].id, leaf)
           T == LeafTopics(c, ds, leaf)
<1>1. Len(ds) \in Nat /\ DOMAIN ds = 1..Len(ds)
  BY ListHolds
<1>2. PICK N : N = Len(ds)
  OBVIOUS
<1>3. T = {F(i) : i \in 1..N}
  BY <1>1, <1>2 DEF LeafTopics
<1>4. \A i, j \in 1..N : F(i) = F(j) => i = j
  <2> TAKE i, j \in 1..N
  <2>1. F(i)[5] = ds[i].id /\ F(j)[5] = ds[j].id
    BY DeviceTopicIs
  <2> HIDE DEF F
  <2> QED
    BY <1>1, <1>2, <2>1
<1> HIDE DEF F, T
<1> DEFINE f == [i \in 1..N |-> F(i)]
<1>5. f \in Bijection(1..N, T)
  <2>1. f \in [1..N -> T]
    BY <1>3
  <2>2. \A i, j \in 1..N : f[i] = f[j] => i = j
    BY <1>4
  <2>3. \A t \in T : \E i \in 1..N : f[i] = t
    BY <1>3
  <2> HIDE DEF f
  <2>4. DOMAIN f = 1..N
    BY <2>1
  <2> QED
    BY <2>1, <2>2, <2>3, <2>4 DEF Bijection, Injection, Surjection, IsInjective
<1>6. ExistsBijection(1..N, T)
  BY <1>5 DEF ExistsBijection
<1>7. IsFiniteSet(1..N)
  <2>1. 1 \in Int /\ N \in Int
    BY <1>1, <1>2
  <2> QED
    BY <2>1, FS_Interval
<1>8. IsFiniteSet(T)
  BY <1>6, <1>7, FS_Bijection
<1>9. Cardinality(T) = N
  BY <1>1, <1>2, <1>6, FS_CountingElements
<1> QED
  BY <1>2, <1>8, <1>9 DEF T

\* The rx and the status topics of all devices and the agent's are that many.
LEMMA PublishedCounted ==
    ASSUME NEW c, NEW ds, IsList(ds), \A i, j \in DOMAIN ds : i # j => ds[i].id # ds[j].id
    PROVE  Cardinality(PublishedTopics(c, ds)) = 2 * Len(ds) + 1
<1>1. PICK A, R, T, N : /\ A = {AgentStatus(c, c.instance)} /\ R = LeafTopics(c, ds, "rx")
                        /\ T = LeafTopics(c, ds, "status") /\ N = Len(ds)
  OBVIOUS
<1>2. IsFiniteSet(A) /\ Cardinality(A) = 1
  BY <1>1, FS_Singleton
<1>3. IsFiniteSet(R) /\ Cardinality(R) = N /\ IsFiniteSet(T) /\ Cardinality(T) = N /\ N \in Nat
  BY <1>1, LeavesCounted, ListHolds
<1>4. \A t \in A : Len(t) = 7
  BY <1>1, AgentTopicIs
<1>5. (\A t \in R : Len(t) = 6 /\ t[6] = "rx") /\ (\A t \in T : Len(t) = 6 /\ t[6] = "status")
  BY <1>1, DeviceTopicIs DEF LeafTopics
<1>6. A \cap R = {} /\ (A \cup R) \cap T = {}
  BY <1>4, <1>5
<1>7. Cardinality({}) = 0
  BY FS_EmptySet
<1>8. PICK B : B = A \cup R
  OBVIOUS
<1>9. IsFiniteSet(B) /\ Cardinality(B) = Cardinality(A) + Cardinality(R) - Cardinality(A \cap R)
  BY <1>2, <1>3, <1>8, FS_Union
<1>10. Cardinality(B \cup T) = Cardinality(B) + Cardinality(T) - Cardinality(B \cap T)
  BY <1>3, <1>9, FS_Union
<1>11. Cardinality(B) = 1 + N
  <2>1. Cardinality(A \cap R) = 0
    BY <1>6, <1>7
  <2>2. Cardinality(B) = 1 + N - 0
    BY <1>2, <1>3, <1>9, <2>1
  <2> QED
    BY <1>3, <2>2
<1>12. Cardinality(B \cup T) = 2 * N + 1
  BY <1>3, <1>6, <1>7, <1>8, <1>10, <1>11
<1> QED
  BY <1>1, <1>8, <1>12 DEF PublishedTopics

\* What the agent publishes to is no route to its devices.
LEMMA PublishedApart ==
    ASSUME NEW c, NEW ds
    PROVE  PublishedTopics(c, ds) \cap (LeafTopics(c, ds, "tx") \cup GroupTopics(c, ds)) = {}
<1> SUFFICES ASSUME NEW t \in PublishedTopics(c, ds), t \in LeafTopics(c, ds, "tx") \cup GroupTopics(c, ds)
             PROVE  FALSE
  OBVIOUS
<1>1. (Len(t) = 7 /\ t[7] = "status") \/ (Len(t) = 6 /\ t[6] \in {"rx", "status"})
  <2>1. CASE t = AgentStatus(c, c.instance)
    BY <2>1, AgentTopicIs
  <2>2. CASE t \in LeafTopics(c, ds, "rx") \cup LeafTopics(c, ds, "status")
    BY <2>2, DeviceTopicIs DEF LeafTopics
  <2> QED
    BY <2>1, <2>2 DEF PublishedTopics
<1>2. CASE t \in LeafTopics(c, ds, "tx")
  <2>1. Len(t) = 6 /\ t[6] = "tx"
    BY <1>2, DeviceTopicIs DEF LeafTopics
  <2> QED
    BY <1>1, <2>1
<1>3. CASE t \in GroupTopics(c, ds)
  <2>1. (Len(t) = 6 => t[6] = "tx") /\ (Len(t) = 7 => t[7] = "tx")
    BY <1>3, GroupTopicIs
  <2> QED
    BY <1>1, <2>1
<1> QED
  BY <1>2, <1>3

\* The topics of the devices Validate accepts, as buildDevices lists them.
LEMMA BuiltApart ==
    ASSUME NEW c, NEW ds, IsList(ds), \A i \in DOMAIN ds : GroupsAreLists(ds[i].broadcast_groups), ValidDevices(ds)
    PROVE  LET own == LeafTopics(c, ds, "tx")
               groups == GroupTopics(c, ds)
               published == PublishedTopics(c, ds)
           IN  /\ ToSet(Subscriptions(c, ds)) = own \cup groups
               /\ IsInjective(Subscriptions(c, ds))
               /\ Cardinality(own) = Len(ds)
               /\ Cardinality(published) = 2 * Len(ds) + 1
               /\ published \cap ToSet(Subscriptions(c, ds)) = {}
               /\ \A station \in Segments \ {GroupLevel}, device \in Segments :
                    DeviceTopic(At(c, station), device, "tx") \notin groups
               /\ ~Matches(EveryDeviceStatus(c), AgentStatus(c, c.instance))
<1>1. \A i, j \in DOMAIN ds : i # j => ds[i].id # ds[j].id
  BY DEF ValidDevices
<1>2. /\ ToSet(Subscriptions(c, ds)) = LeafTopics(c, ds, "tx") \cup GroupTopics(c, ds)
      /\ IsInjective(Subscriptions(c, ds))
  BY SubscriptionsAreRoutes
<1>3. Cardinality(LeafTopics(c, ds, "tx")) = Len(ds)
  BY <1>1, LeavesCounted
<1>4. Cardinality(PublishedTopics(c, ds)) = 2 * Len(ds) + 1
  BY <1>1, PublishedCounted
<1>5. PublishedTopics(c, ds) \cap ToSet(Subscriptions(c, ds)) = {}
  BY <1>2, PublishedApart
<1>6. ASSUME NEW station \in Segments \ {GroupLevel}, NEW device \in Segments,
             DeviceTopic(At(c, station), device, "tx") \in GroupTopics(c, ds)
      PROVE  FALSE
  <2>1. PICK t, id : id = At(c, station) /\ t = DeviceTopic(id, device, "tx")
    OBVIOUS
  <2>2. id.station = station
    BY <2>1 DEF At
  <2>3. Len(t) = 6 /\ t[4] = station
    BY <2>1, <2>2, DeviceTopicIs
  <2>4. t \in GroupTopics(c, ds)
    BY <1>6, <2>1
  <2>5. t[4] = "group"
    BY <2>3, <2>4, GroupTopicIs
  <2> QED
    BY <2>3, <2>5 DEF GroupLevel
<1>7. ~Matches(EveryDeviceStatus(c), AgentStatus(c, c.instance))
  <2>1. Len(AgentStatus(c, c.instance)) = 7 /\ Len(EveryDeviceStatus(c)) = 6
    BY AgentTopicIs, DeviceTopicIs DEF EveryDeviceStatus
  <2> QED
    BY <2>1 DEF Matches
<1> QED
  BY <1>2, <1>3, <1>4, <1>5, <1>6, <1>7

(***************************************************************************)
(* The file's devices, and so the agent's, are a list, and so are the      *)
(* groups of each.  Once the topics are built, nothing changes them.       *)
(***************************************************************************)
HasLists(device) == "broadcast_groups" \in DOMAIN device => GroupsAreLists(device.broadcast_groups)

FileShape == IsList(document.devices) /\ \A i \in DOMAIN document.devices : HasLists(document.devices[i])

DevicesShape == IsList(devices) /\ \A i \in DOMAIN devices : GroupsAreLists(devices[i].broadcast_groups)

Assembled == {"dial", "core", "running", "disconnect", "shut gate", "tell", "close log", "exited"}

TopicsInv == FileShape /\ DevicesShape /\ (subscribed # <<>> => pc \in Assembled) /\ TopicsApart

LEMMA MakesList == ASSUME NEW n \in Nat, NEW S, NEW s \in [1..n -> S] PROVE IsList(s)
<1>1. DOMAIN s = 1..n
  OBVIOUS
<1>2. PICK T : T = ToSet(s)
  OBVIOUS
<1>3. \A i \in 1..n : s[i] \in T
  BY <1>1, <1>2 DEF ToSet
<1>4. s \in [1..n -> T]
  BY <1>3
<1>5. s \in Seq(T)
  BY <1>4
<1> QED
  BY <1>2, <1>5 DEF IsList

LEMMA EmptyIsList == IsList(<<>>) /\ DOMAIN <<>> = {}
<1>1. <<>> \in Seq(ToSet(<<>>))
  OBVIOUS
<1> QED
  BY <1>1 DEF IsList

\* Editing the file keeps its shape.
LEMMA EditKeepsShape == ASSUME DocumentInv, FileShape, EditFile PROVE FileShape'
<1>1. CASE document'.devices = document.devices
  BY <1>1 DEF FileShape
<1>2. CASE document' = [document EXCEPT !.devices = <<>>]
  <2>1. document'.devices = <<>>
    BY <1>2 DEF DocumentInv
  <2> QED
    BY <2>1, EmptyIsList DEF FileShape
<1>3. CASE \E i \in DOMAIN document.devices : \E f \in DOMAIN DeviceChoices : \E v \in DeviceChoices[f] :
             document' = [document EXCEPT !.devices[i] = Put(@, f, v)]
  <2>1. PICK i, f, v : /\ i \in DOMAIN document.devices /\ f \in DOMAIN DeviceChoices /\ v \in DeviceChoices[f]
                       /\ document' = [document EXCEPT !.devices[i] = Put(@, f, v)]
    BY <1>3
  <2>2. PICK old, new, d : old = document.devices /\ new = document'.devices /\ d = Put(old[i], f, v)
    OBVIOUS
  <2>3. new = [old EXCEPT ![i] = d] /\ i \in DOMAIN old
    BY <2>1, <2>2 DEF DocumentInv
  <2>4. IsList(old) /\ \A k \in DOMAIN old : HasLists(old[k])
    BY <2>2 DEF FileShape
  <2>5. PICK n \in Nat : n = Len(old) /\ DOMAIN old = 1..n
    BY <2>4, ListHolds
  <2>6. IsList(new)
    <3>1. new \in [1..n -> {new[k] : k \in 1..n}]
      BY <2>3, <2>5
    <3> QED
      BY <3>1, MakesList
  <2>7. HasLists(d)
    <3>1. DOMAIN d = DOMAIN old[i] \cup {f} /\ \A y \in DOMAIN d : d[y] = IF y = f THEN v ELSE old[i][y]
      BY <2>2 DEF Put
    <3>2. CASE f = "broadcast_groups"
      <4>1. GroupsAreLists(v)
        BY <2>1, <3>2, ChoicesAssumption
      <4>2. d.broadcast_groups = v
        BY <3>1, <3>2
      <4> QED
        BY <4>1, <4>2 DEF HasLists
    <3>3. CASE f # "broadcast_groups"
      <4>1. "broadcast_groups" \in DOMAIN d => "broadcast_groups" \in DOMAIN old[i] /\ d.broadcast_groups = old[i].broadcast_groups
        BY <3>1, <3>3
      <4> QED
        BY <2>3, <2>4, <4>1 DEF HasLists
    <3> QED
      BY <3>2, <3>3
  <2>8. \A k \in DOMAIN new : HasLists(new[k])
    BY <2>3, <2>4, <2>7
  <2> QED
    BY <2>2, <2>6, <2>8 DEF FileShape
<1>4. \/ document'.devices = document.devices
      \/ document' = [document EXCEPT !.devices = <<>>]
      \/ \E i \in DOMAIN document.devices : \E f \in DOMAIN DeviceChoices : \E v \in DeviceChoices[f] :
             document' = [document EXCEPT !.devices[i] = Put(@, f, v)]
  BY DEF EditFile, DocumentInv
<1> QED
  BY <1>1, <1>2, <1>3, <1>4

\* The file's devices over the defaults keep theirs.
LEMMA DevicesKeepShape ==
    ASSUME NEW doc, IsList(doc.devices), \A i \in DOMAIN doc.devices : HasLists(doc.devices[i])
    PROVE  IsList(Devices(doc)) /\ \A i \in DOMAIN Devices(doc) : GroupsAreLists(Devices(doc)[i].broadcast_groups)
<1>1. PICK n \in Nat : DOMAIN doc.devices = 1..n
  BY ListHolds
<1>2. PICK ds : ds = Devices(doc)
  OBVIOUS
<1>3. DOMAIN ds = 1..n /\ ds = [i \in 1..n |-> ds[i]] /\ \A i \in 1..n : ds[i] = Overlay(DefaultDevice, doc.devices[i])
  BY <1>1, <1>2 DEF Devices
<1>4. IsList(ds)
  <2>1. ds \in [1..n -> {ds[i] : i \in 1..n}]
    BY <1>3
  <2> QED
    BY <2>1, MakesList
<1>5. ASSUME NEW i \in 1..n PROVE GroupsAreLists(ds[i].broadcast_groups)
  <2>1. PICK entry : entry = doc.devices[i]
    OBVIOUS
  <2>2. HasLists(entry)
    BY <1>1, <2>1
  <2>3. "broadcast_groups" \in DOMAIN DefaultDevice /\ DefaultDevice.broadcast_groups = NoGroups
    BY DEF DefaultDevice
  <2>4. ds[i].broadcast_groups = IF "broadcast_groups" \in DOMAIN entry THEN entry.broadcast_groups ELSE NoGroups
    BY <1>3, <2>1, <2>3 DEF Overlay
  <2>5. GroupsAreLists(NoGroups)
    BY EmptyIsList DEF GroupsAreLists, NoGroups
  <2> QED
    BY <2>2, <2>4, <2>5 DEF HasLists
<1> QED
  BY <1>2, <1>3, <1>4, <1>5

LEMMA FileShapeStep == ASSUME InputInv, ExitInv, FileShape, [Next]_vars PROVE FileShape'
<1>1. CASE EditFile
  BY <1>1, EditKeepsShape DEF InputInv
<1>2. CASE document' = document
  BY <1>2 DEF FileShape
<1>3. ~EditFile => document' = document
  <2>1. CASE pc \notin {"shell", "load"}
    BY <2>1, LoadedOnce
  <2>2. CASE pc \in {"shell", "load"}
    BY <2>2 DEF Next, SetVariable, SetFlag, DiskChanges, Editing, Start, Load, Assemble, OpenLog, LoadCredentials,
        NewTopics, BuildDevices, Dial, NewCore, Leave, RunReturns, Disconnect, ShutGate, Tell, CloseLog, PrintSettings,
        Probe, FindDevice, ProbeDevice, NewSerialReader, PahoLine, PahoWrites, Step, vars, input
  <2> QED
    BY <2>1, <2>2
<1> QED
  BY <1>1, <1>2, <1>3

\* Only Load, BuildDevices and FindDevice touch the devices and the subscriptions,
\* and only BuildDevices the latter.
LEMMA LeavesTopics ==
    ASSUME [Next]_vars, ~Load, ~BuildDevices, ~FindDevice
    PROVE  UNCHANGED <<cfg, devices, subscribed>>
BY DEF Next, EditFile, SetVariable, SetFlag, DiskChanges, Editing, Start, Assemble, OpenLog, LoadCredentials,
       NewTopics, Dial, NewCore, Leave, RunReturns, Disconnect, ShutGate, Tell, CloseLog, PrintSettings, Probe,
       ProbeDevice, NewSerialReader, PahoLine, PahoWrites, Step, vars, built

LEMMA StaysAssembled == ASSUME HoldsInv, [Next]_vars, pc \in Assembled PROVE pc' \in Assembled
<1> USE DEF Assembled
<1>1. CASE Load \/ Assemble \/ PrintSettings \/ Probe
  BY <1>1 DEF Load, Assemble, OpenLog, LoadCredentials, NewTopics, BuildDevices, Dial, NewCore, PrintSettings, Probe,
              FindDevice, ProbeDevice, NewSerialReader, Step
<1>2. CASE Leave
  BY <1>2 DEF Leave, RunReturns, Disconnect, ShutGate, Tell, CloseLog, Step
<1>3. CASE EditFile \/ SetVariable \/ SetFlag \/ DiskChanges \/ Start
  BY <1>3 DEF EditFile, SetVariable, SetFlag, DiskChanges, Editing, Start
<1>4. CASE PahoLine \/ PahoWrites \/ UNCHANGED vars
  BY <1>4 DEF PahoLine, PahoWrites, vars
<1> QED
  BY <1>1, <1>2, <1>3, <1>4 DEF Next

LEMMA TopicsStep == ASSUME ExitInv, InputInv, RulesInv, TopicsInv, [Next]_vars PROVE TopicsInv'
<1> USE DEF TopicsInv
<1>1. FileShape'
  BY FileShapeStep
<1>2. CASE Load
  <2>1. subscribed' = subscribed /\ devices' = Devices(document) /\ pc = "load"
    BY <1>2 DEF Load, Step
  <2>2. subscribed' = <<>>
    BY <2>1 DEF Assembled
  <2>3. DevicesShape'
    <3>1. PICK doc : doc = document
      OBVIOUS
    <3>2. IsList(doc.devices) /\ \A i \in DOMAIN doc.devices : HasLists(doc.devices[i])
      BY <3>1 DEF FileShape
    <3> QED
      BY <2>1, <3>1, <3>2, DevicesKeepShape DEF DevicesShape
  <2> QED
    BY <1>1, <2>2, <2>3 DEF TopicsApart
<1>3. CASE FindDevice
  <2>1. subscribed' = subscribed /\ pc = "find device"
    BY <1>3 DEF FindDevice, Step
  <2>2. subscribed' = <<>>
    BY <2>1 DEF Assembled
  <2>3. DevicesShape'
    <3>1. CASE devices' = devices
      BY <3>1 DEF DevicesShape
    <3>2. CASE \E i \in DOMAIN devices : devices' = <<devices[i]>>
      <4>1. PICK i \in DOMAIN devices : devices' = <<devices[i]>>
        BY <3>2
      <4>2. PICK d, s : d = devices[i] /\ s = <<d>>
        OBVIOUS
      <4>3. s \in [1..1 -> {d}] /\ s[1] = d /\ DOMAIN s = {1}
        BY <4>2
      <4>4. IsList(s)
        BY <4>3, MakesList
      <4>5. GroupsAreLists(d.broadcast_groups)
        BY <4>2 DEF DevicesShape
      <4> QED
        BY <4>1, <4>2, <4>3, <4>4, <4>5 DEF DevicesShape
    <3> QED
      BY <1>3, <3>1, <3>2 DEF FindDevice
  <2> QED
    BY <1>1, <2>2, <2>3 DEF TopicsApart
<1>4. CASE BuildDevices
  <2>1. UNCHANGED <<cfg, devices>> /\ pc = "devices"
    BY <1>4 DEF BuildDevices, Step
  <2>2. DevicesShape'
    BY <2>1 DEF DevicesShape
  <2>3. subscribed = <<>>
    BY <2>1 DEF Assembled
  <2>4. CASE subscribed' = <<>>
    BY <1>1, <2>2, <2>4 DEF TopicsApart
  <2>5. CASE subscribed' # <<>>
    <3>1. BuildDevicesAccepts(devices) /\ subscribed' = Subscriptions(cfg, devices) /\ pc' = "dial"
      BY <1>4, <2>3, <2>5 DEF BuildDevices, Step
    <3>2. ValidDevices(devices)
      <4>1. Loaded /\ args.cmd # "probe"
        BY <2>1 DEF ExitInv, ArgsInv, Loaded, RulesInv, WaysIn
      <4> QED
        BY <4>1 DEF RulesInv, Validated, Validate
    <3>3. PICK c, ds : c = cfg /\ ds = devices
      OBVIOUS
    <3>4. IsList(ds) /\ (\A i \in DOMAIN ds : GroupsAreLists(ds[i].broadcast_groups)) /\ ValidDevices(ds)
      BY <3>2, <3>3 DEF DevicesShape
    <3>5. cfg' = c /\ devices' = ds /\ subscribed' = Subscriptions(c, ds)
      BY <2>1, <3>1, <3>3
    <3>6. TopicsApart'
      BY <3>4, <3>5, BuiltApart DEF TopicsApart
    <3> QED
      BY <1>1, <2>2, <3>1, <3>6 DEF Assembled
  <2> QED
    BY <2>4, <2>5
<1>5. CASE ~Load /\ ~FindDevice /\ ~BuildDevices
  <2>1. UNCHANGED <<cfg, devices, subscribed>>
    BY <1>5, LeavesTopics
  <2>2. TopicsApart'
    BY <2>1 DEF TopicsApart
  <2>3. subscribed' # <<>> => pc' \in Assembled
    BY <2>1, StaysAssembled DEF ExitInv
  <2>4. DevicesShape'
    BY <2>1 DEF DevicesShape
  <2> QED
    BY <1>1, <2>2, <2>3, <2>4
<1> QED
  BY <1>2, <1>3, <1>4, <1>5

\* Whatever the configuration, an agent that was assembled subscribes once to each
\* route to its devices and to nothing else, does not receive what it
\* publishes, and its groups' topics are no station's devices' (topics.go:36-39).
THEOREM RoutesAreApart == Spec => []TopicsApart
<1> DEFINE Inv == ExitInv /\ InputInv /\ RulesInv /\ TopicsInv
<1>1. Init => Inv
  <2>1. Init => RulesInv
    BY DEF Init, RulesInv, Loaded, ProbePlaces, WaysIn
  <2>2. ASSUME Init PROVE TopicsInv
    <3>1. document = BaseDocument /\ devices = <<>> /\ subscribed = <<>>
      BY <2>2 DEF Init
    <3>2. FileShape
      BY <3>1, DocumentAssumption DEF FileShape, HasLists
    <3>3. DevicesShape
      BY <3>1, EmptyIsList DEF DevicesShape
    <3> QED
      BY <3>1, <3>2, <3>3 DEF TopicsInv, TopicsApart
  <2> QED
    BY <2>1, <2>2, ExitStart, InputStart
<1>2. Inv /\ [Next]_vars => Inv'
  BY ExitStep, InputStep, RulesStep, TopicsStep
<1>3. Inv => TopicsApart
  BY DEF TopicsInv
<1> QED
  BY <1>1, <1>2, <1>3, PTL DEF Spec
=============================================================================
