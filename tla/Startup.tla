------------------------------ MODULE Startup ------------------------------
(***************************************************************************)
(* The commands of skuhus-device-agent, from the shell to their exit: run  *)
(* assembles the agent and runs it, validate states whether the            *)
(* configuration is valid, and probe opens one device.  Settings says what *)
(* each step accepts.                                                      *)
(*                                                                         *)
(* Before the command starts an operator edits the file, the environment,  *)
(* the flags and the disk; the disk may also change while the command      *)
(* runs.  Once the connection is dialled, paho's goroutines write lines to *)
(* the log, through the line gate that Close shuts.                        *)
(***************************************************************************)
EXTENDS Settings, SequencesExt

CONSTANTS BaseDocument,     \* A valid configuration file.
          SettingChoices,   \* The values tried for each setting.
          DeviceChoices,    \* The values tried for each key of a device.
          VariableChoices,  \* The values tried for each variable that is no setting.
          DiskChoices,      \* The states tried for each thing on the disk.
          WrongKeys,        \* The wrong keys tried in a file.
          MaxEdits          \* Bound on the edits and changes of the disk.

ASSUME MaxEditsAssumption == MaxEdits \in Nat

\* What is set of the names in kind is a number.
NumbersIn(set, kind) == \A f \in kind \cap DOMAIN set : set[f] \in Int

\* A device's groups are lists of names.
IsList(s) == s \in Seq(ToSet(s))
GroupsAreLists(groups) == \A scope \in Scopes : IsList(groups[scope])

\* A value that the decoder lets through has the type of its key, and a
\* variable that is no setting has no setting's name.
ASSUME DocumentAssumption ==
    /\ DOMAIN BaseDocument = {"documents", "wrong", "set", "devices"}
    /\ NumbersIn(BaseDocument.set, NumberSettings)
    /\ IsList(BaseDocument.devices)
    /\ \A i \in DOMAIN BaseDocument.devices :
         /\ NumbersIn(BaseDocument.devices[i], NumberKeys)
         /\ "broadcast_groups" \in DOMAIN BaseDocument.devices[i] =>
              GroupsAreLists(BaseDocument.devices[i].broadcast_groups)

ASSUME ChoicesAssumption ==
    /\ \A f \in NumberSettings \cap DOMAIN SettingChoices : SettingChoices[f] \subseteq Int
    /\ \A f \in NumberKeys \cap DOMAIN DeviceChoices : DeviceChoices[f] \subseteq Int
    /\ "broadcast_groups" \in DOMAIN DeviceChoices =>
         \A groups \in DeviceChoices["broadcast_groups"] : GroupsAreLists(groups)
    /\ DOMAIN VariableChoices \cap NumberSettings = {}

\* A CA file is there, can be read and holds certificates or not; the log's
\* directory is there, is a directory and is writable or not.
CAStates == {"good", "missing", "unreadable", "no certificates"}
LogDirStates == {"good", "missing", "not a directory", "unwritable"}

ASSUME DiskAssumption ==
    /\ "ca" \in DOMAIN DiskChoices => DiskChoices["ca"] \subseteq CAStates
    /\ "logdir" \in DOMAIN DiskChoices => DiskChoices["logdir"] \subseteq LogDirStates

VARIABLES
    args,       \* The command line: the command, --config, and the flags set.
    environ,    \* The environment's variables.
    document,   \* The file that --config or CONFIG names.
    disk,       \* The credentials file, the CA file and the log's directory.
    edits,      \* How many edits were made.
    pc,         \* Where the command is.
    cfg,        \* The merged configuration.
    devices,    \* Its devices; for the probe, the one it opens.
    loadedAt,   \* edits when the configuration loaded.
    subscribed, \* The topics the connection subscribes to.
    refusedBy,  \* The step that refused, or "nobody".
    log,        \* The log file: "none", "open" or "closed".
    told,       \* Whether the log holds the error that stopped the agent.
    conn,       \* The connection: "none", "dialled", "disconnected", or "cut off" when
                \* the disconnect failed or took too long.
    line,       \* paho's goroutine: "idle", or "passing" while it holds the gate.
    gate        \* The line gate: "open" or "closed".

input == <<args, environ, document>>
built == <<cfg, devices, loadedAt, subscribed>>
paho == <<line, gate>>
vars == <<input, disk, edits, pc, built, refusedBy, log, told, conn, paho>>

GoodDisk == [credentials |-> "good", ca |-> "good", logdir |-> "good"]
Nothing == [x \in {} |-> {}]

Init ==
    /\ args = [cmd |-> "none", config |-> TRUE, flags |-> Nothing]
    /\ environ = Nothing
    /\ document = BaseDocument
    /\ disk = GoodDisk
    /\ edits = 0
    /\ pc = "shell"
    /\ cfg = Defaults /\ devices = <<>> /\ loadedAt = 0 /\ subscribed = <<>>
    /\ refusedBy = "nobody"
    /\ log = "none" /\ told = FALSE /\ conn = "none"
    /\ line = "idle" /\ gate = "open"

-----------------------------------------------------------------------------
(***************************************************************************)
(* The operator, and the disk.                                             *)
(***************************************************************************)
Editing ==
    /\ edits < MaxEdits
    /\ edits' = edits + 1
    /\ UNCHANGED <<pc, built, refusedBy, log, told, conn, paho>>

Put(function, x, value) == [y \in DOMAIN function \cup {x} |-> IF y = x THEN value ELSE function[y]]

EditFile ==
    /\ pc = "shell" /\ Editing
    /\ \/ \E f \in DOMAIN SettingChoices : \E v \in SettingChoices[f] : document' = [document EXCEPT !.set = Put(@, f, v)]
       \/ \E key \in WrongKeys : document' = [document EXCEPT !.wrong = @ \cup {key}]
       \/ \E n \in {0, 2} : document' = [document EXCEPT !.documents = n]
       \/ document' = [document EXCEPT !.devices = <<>>]
       \/ \E i \in DOMAIN document.devices : \E f \in DOMAIN DeviceChoices : \E v \in DeviceChoices[f] :
            document' = [document EXCEPT !.devices[i] = Put(@, f, v)]
    /\ UNCHANGED <<args, environ, disk>>

SetVariable ==
    /\ pc = "shell" /\ Editing
    /\ \/ \E f \in DOMAIN SettingChoices \cap EnvTargets : \E v \in SettingChoices[f] \cup {Unparsable} :
            environ' = Put(environ, f, v)
       \/ \E name \in DOMAIN VariableChoices : \E v \in VariableChoices[name] :
            environ' = Put(environ, name, v)
    /\ UNCHANGED <<args, document, disk>>

SetFlag ==
    /\ pc = "shell" /\ Editing
    /\ \/ \E f \in DOMAIN SettingChoices \cap FlagTargets : \E v \in SettingChoices[f] :
            args' = [args EXCEPT !.flags = Put(@, f, v)]
       \/ args.config /\ args' = [args EXCEPT !.config = FALSE]
    /\ UNCHANGED <<environ, document, disk>>

DiskChanges ==
    /\ pc # "exited" /\ Editing
    /\ \E f \in DOMAIN DiskChoices : \E v \in DiskChoices[f] : disk' = [disk EXCEPT ![f] = v]
    /\ UNCHANGED input

-----------------------------------------------------------------------------
(***************************************************************************)
(* The command.  A step that refuses goes to the exit, past the steps that *)
(* the command has no need of: nothing to disconnect before Dial, nothing  *)
(* to close before the log is open.                                        *)
(***************************************************************************)
Step(from, accepts, to, name) ==
    /\ pc = from
    /\ pc' = IF accepts THEN to
             ELSE IF conn = "dialled" THEN "disconnect" ELSE IF log = "open" THEN "tell" ELSE "exited"
    /\ refusedBy' = IF accepts THEN refusedBy ELSE name
    /\ UNCHANGED <<input, disk, edits, told, paho>>

Start ==
    /\ pc = "shell"
    /\ \E cmd \in {"run", "validate", "probe"} : args' = [args EXCEPT !.cmd = cmd]
    /\ pc' = "load"
    /\ UNCHANGED <<environ, document, disk, edits, built, refusedBy, log, told, conn, paho>>

\* The file: --config, CONFIG when it is not empty, or the default path, where
\* there is none.
HasFile == args.config \/ ("CONFIG" \in DOMAIN environ /\ environ["CONFIG"] # "")

\* The probe takes no overrides, and loads without validating.
Flags == IF args.cmd = "probe" THEN Nothing ELSE args.flags

LoadAccepts(c, ds) ==
    /\ RejectLegacyEnvironment(environ)
    /\ HasFile
    /\ DecodeAccepts(document)
    /\ ApplyEnvAccepts(environ)
    /\ args.cmd # "probe" => Validate(c, ds, environ, disk)

Load ==
    LET c == Merge(document, environ, Flags)
        ds == Devices(document)
    IN  /\ Step("load", LoadAccepts(c, ds),
                CASE args.cmd = "run" -> "open log"
                  [] args.cmd = "validate" -> "print"
                  [] args.cmd = "probe" -> "find device", "load")
        /\ cfg' = c /\ devices' = ds /\ loadedAt' = edits
        /\ UNCHANGED <<subscribed, log, conn>>

OpenLog ==
    /\ Step("open log", OpenLogAccepts(cfg, disk), "credentials", "open log")
    /\ log' = IF cfg.log_file # "" /\ OpenLogAccepts(cfg, disk) THEN "open" ELSE "none"
    /\ UNCHANGED <<built, conn>>

LoadCredentials ==
    /\ Step("credentials", LoadCredentialsAccepts(cfg, environ, disk), "topics", "credentials")
    /\ UNCHANGED <<built, log, conn>>

NewTopics ==
    /\ Step("topics", TopicsAccept(cfg), "devices", "topics")
    /\ UNCHANGED <<built, log, conn>>

\* BUG: a group's topic once for each of its devices.
SubscribeAgain(topics, topic) == Append(topics, topic)

\* Each topic once, in the order of the devices.
Subscribe(topics, topic) == IF Contains(topics, topic) THEN topics ELSE Append(topics, topic)

\* The topics of a device's groups: the project's, the site's, the station's.
GroupTopicsInOrder(c, d) ==
    LET In(scope) == [i \in DOMAIN d.broadcast_groups[scope] |-> GroupTx(c, scope, d.broadcast_groups[scope][i])]
    IN  In("project") \o In("site") \o In("station")

TopicsInOrder(c, d) == <<DeviceTopic(c, d.id, "tx")>> \o GroupTopicsInOrder(c, d)

SubscribeEach(topics, more) ==
    LET after[n \in 0..Len(more)] == IF n = 0 THEN topics ELSE Subscribe(after[n - 1], more[n])
    IN  after[Len(more)]

Subscriptions(c, ds) ==
    LET after[n \in 0..Len(ds)] == IF n = 0 THEN <<>> ELSE SubscribeEach(after[n - 1], TopicsInOrder(c, ds[n]))
    IN  after[Len(ds)]

BuildDevices ==
    /\ Step("devices", BuildDevicesAccepts(devices), "dial", "devices")
    /\ subscribed' = IF BuildDevicesAccepts(devices) THEN Subscriptions(cfg, devices)
                     ELSE subscribed
    /\ UNCHANGED <<cfg, devices, loadedAt, log, conn>>

Dial ==
    /\ Step("dial", DialAccepts(cfg) /\ TLSConfigAccepts(cfg, disk), "core",
            IF DialAccepts(cfg) THEN "ca file" ELSE "dial")
    /\ conn' = IF DialAccepts(cfg) /\ TLSConfigAccepts(cfg, disk) THEN "dialled" ELSE conn
    /\ UNCHANGED <<built, log>>

NewCore ==
    /\ Step("core", NewCoreAccepts(cfg, devices), "running", "core")
    /\ UNCHANGED <<built, log, conn>>

\* Core.Run returns after a signal; CoreRun is about what it does.
RunReturns ==
    /\ Step("running", TRUE, "disconnect", "nobody")
    /\ UNCHANGED <<built, log, conn>>

\* BUG: Close returns at the manager's error, and leaves the gate open.
DisconnectOrReturn ==
    /\ pc = "disconnect"
    /\ conn' \in {"disconnected", "cut off"}
    /\ pc' = IF conn' = "disconnected" THEN "shut gate" ELSE IF log = "open" THEN "tell" ELSE "exited"
    /\ UNCHANGED <<input, disk, edits, built, refusedBy, log, told, paho>>

\* Client.Close asks the manager to disconnect, which may fail or run into the
\* publish timeout.  The gate is shut all the same, and whoever called Close
\* only warns.
Disconnect ==
    /\ Step("disconnect", TRUE, "shut gate", "nobody")
    /\ conn' \in {"disconnected", "cut off"}
    /\ UNCHANGED <<built, log>>

\* BUG: the gate is shut without waiting for a line on its way.
GateIgnored == TRUE

\* The gate's lock is free of lines on their way.
GateFree == line = "idle"

ShutGate ==
    /\ pc = "shut gate" /\ GateFree
    /\ gate' = "closed"
    /\ pc' = IF log = "open" THEN "tell" ELSE "exited"
    /\ UNCHANGED <<input, disk, edits, built, refusedBy, log, told, conn, line>>

\* The deferred functions: the error goes to the log, and then the log closes.
Tell ==
    /\ pc = "tell"
    /\ told' = (refusedBy # "nobody")
    /\ pc' = "close log"
    /\ UNCHANGED <<input, disk, edits, built, refusedBy, log, conn, paho>>

CloseLog ==
    /\ pc = "close log"
    /\ log' = "closed"
    /\ pc' = "exited"
    /\ UNCHANGED <<input, disk, edits, built, refusedBy, told, conn, paho>>

\* validate prints the topics, which it builds as run does.
PrintSettings ==
    /\ Step("print", TopicsAccept(cfg) /\ \A i \in DOMAIN devices : DeviceTopicsAccept(devices[i]),
            "exited", "topics")
    /\ UNCHANGED <<built, log, conn>>

\* probe --device: the first entry with that id, or 0 when no entry has it.
FindDevice ==
    \E i \in {0} \cup DOMAIN devices :
        /\ Step("find device", i # 0, "check device", "no such device")
        /\ \A j \in 1..(i - 1) : devices[j].id # devices[i].id
        /\ devices' = IF i = 0 THEN devices ELSE <<devices[i]>>
        /\ UNCHANGED <<cfg, loadedAt, subscribed, log, conn>>

ProbeDevice ==
    /\ Step("check device", ValidDevice(devices[1]), "reader", "device")
    /\ UNCHANGED <<built, log, conn>>

NewSerialReader ==
    /\ Step("reader", SerialAccepts(devices[1]), "exited", "reader")
    /\ UNCHANGED <<built, log, conn>>

-----------------------------------------------------------------------------
(***************************************************************************)
(* paho's goroutines: a line takes the gate, and is written if it is open. *)
(***************************************************************************)
PahoLine ==
    /\ conn # "none" /\ pc # "exited" /\ line = "idle" /\ gate = "open"
    /\ line' = "passing"
    /\ UNCHANGED <<input, disk, edits, pc, built, refusedBy, log, told, conn, gate>>

PahoWrites ==
    /\ line = "passing"
    /\ line' = "idle"
    /\ UNCHANGED <<input, disk, edits, pc, built, refusedBy, log, told, conn, gate>>

Assemble == OpenLog \/ LoadCredentials \/ NewTopics \/ BuildDevices \/ Dial \/ NewCore
Leave == RunReturns \/ Disconnect \/ ShutGate \/ Tell \/ CloseLog
Probe == FindDevice \/ ProbeDevice \/ NewSerialReader

Next ==
    \/ EditFile \/ SetVariable \/ SetFlag \/ DiskChanges
    \/ Start \/ Load \/ Assemble \/ Leave \/ PrintSettings \/ Probe
    \/ PahoLine \/ PahoWrites

Spec == Init /\ [][Next]_vars

-----------------------------------------------------------------------------
(***************************************************************************)
(* Properties.                                                             *)
(***************************************************************************)
\* The configuration was loaded, and accepted.
Loaded == pc \notin {"shell", "load"} /\ refusedBy # "load"

\* What Validate accepts, no constructor refuses: not the topics, the devices,
\* the connection or the core when run and validate build them (run.go:59-62,
\* validate.go:46-47), nor the reader of a device the probe was let open.  As
\* long as the disk is as it was when the configuration loaded, a refusal
\* after that is about what no rule looks at: whether the credentials and the
\* CA file can be read and what they hold, empty or missing variables, and
\* whether the log can be written.
OnlyContentsRefuse ==
    /\ refusedBy \notin {"topics", "devices", "dial", "core", "reader"}
    /\ edits = loadedAt =>
         /\ refusedBy = "open log" => disk.logdir = "unwritable"
         /\ refusedBy = "ca file" => disk.ca \in {"unreadable", "no certificates"}
         /\ refusedBy = "credentials" =>
              \/ cfg.credentials_file # "" /\ disk.credentials \in {"unreadable", "garbled", "no password", "no username"}
              \/ \E name \in Credentials \cap DOMAIN environ : environ[name] = ""
              \/ cfg.credentials_file = "" /\ "MQTT_USERNAME" \notin DOMAIN environ

\* The setting that the layers give: flags come before the environment, the
\* environment before the file and the file before the defaults.
InForce(f) ==
    IF f \in DOMAIN Flags THEN Flags[f]
    ELSE IF f \in DOMAIN environ THEN environ[f]
    ELSE IF f \in DOMAIN document.set THEN document.set[f]
    ELSE Defaults[f]

\* Nothing that was given is ignored.  A configuration that loads has no key
\* that is unknown, removed or of the wrong type and no variable that is
\* unknown, removed, unreadable or of an earlier release (load.go:158-159,
\* env.go:137-139); each setting is that of the highest layer that has it
\* (load.go:15-16), and an instance that is empty wherever it was set is the
\* station that is in force in the end (defaults.go:154-157).
NothingIgnored ==
    Loaded => /\ document.wrong = {}
              /\ DOMAIN environ \cap (WrongVariables \cup {LegacyVariable}) = {}
              /\ \A name \in DOMAIN environ : environ[name] # Unparsable
              /\ \A f \in DOMAIN Defaults \ {"instance"} : cfg[f] = InForce(f)
              /\ cfg.instance = IF InForce("instance") # "" THEN InForce("instance") ELSE InForce("station")

\* The topics of the devices with one leaf, those of their groups, and those that
\* are published to; and the identity of another station of the site.
LeafTopics(c, ds, leaf) == {DeviceTopic(c, ds[i].id, leaf) : i \in DOMAIN ds}
GroupTopics(c, ds) == UNION {GroupRoutes(c, ds[i].broadcast_groups) : i \in DOMAIN ds}
PublishedTopics(c, ds) == {AgentStatus(c, c.instance)} \cup LeafTopics(c, ds, "rx") \cup LeafTopics(c, ds, "status")
At(c, station) == [project |-> c.project, site |-> c.site, station |-> station]

\* The topics an assembled agent has do not meet: each route to its devices is
\* subscribed to once and nothing else is, it does not receive what it
\* publishes, no group's topic is the tx topic of a device at any station of
\* the site (topics.go:36-39), and the filter for device statuses leaves the
\* agents' out (topics.go:149-150).
TopicsApart ==
    subscribed # <<>> =>
        LET own == LeafTopics(cfg, devices, "tx")
            groups == GroupTopics(cfg, devices)
            published == PublishedTopics(cfg, devices)
        IN  /\ ToSet(subscribed) = own \cup groups
            /\ IsInjective(subscribed)
            /\ Cardinality(own) = Len(devices)
            /\ Cardinality(published) = 2 * Len(devices) + 1
            /\ published \cap ToSet(subscribed) = {}
            /\ \A station \in Segments \ {GroupLevel}, device \in Segments :
                 DeviceTopic(At(cfg, station), device, "tx") \notin groups
            /\ ~Matches(EveryDeviceStatus(cfg), AgentStatus(cfg, cfg.instance))

\* "every exit path closes it" (run.go:162-164, 195-198), whatever refused and
\* whatever becomes of the disconnect: run does not exit with a connection it
\* dialled and did not try to disconnect, so that only a disconnect that fails
\* can leave the broker to publish the will; the log is closed, with the error
\* that stopped the agent in it; and no line of paho's, whose goroutines a
\* failed disconnect leaves running, is on its way to the closed log
\* (client.go:323-324, paholog.go:59-62).
ExitIsClean ==
    /\ pc = "exited" => log # "open" /\ conn # "dialled" /\ (log = "closed" => told = (refusedBy # "nobody"))
    /\ line = "passing" => log # "closed"

=============================================================================
