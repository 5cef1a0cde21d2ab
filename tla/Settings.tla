------------------------------ MODULE Settings ------------------------------
(***************************************************************************)
(* The configuration (internal/config) and what each part of the agent     *)
(* accepts of it: the defaults, the file, the environment and the flags    *)
(* laid over each other, Validate, the credentials, and the checks of the  *)
(* constructors that runAgent calls.                                       *)
(*                                                                         *)
(* A setting has the name of its key; the log's file is log_file.          *)
(* Durations are in tenths of a second and jitters in percent.  A string   *)
(* whose characters matter to a rule is a name for its kind: a url is      *)
(* "tls", "plaintext", "unparsable", "no host", "carries credentials" or   *)
(* "other scheme"; a path is "relative", "callin" or any other name.       *)
(***************************************************************************)
EXTENDS Topics, Backoff, FiniteSets

CONSTANTS LongNames,    \* Segments too long to be an instance.
          Unparsable    \* A variable's value that its setting cannot be read from.

ASSUME SegmentsAssumption == "" \notin Segments

Second == 10
MaxFrameBytesLimit == 1048576

Defaults ==
    [project |-> "", site |-> "", station |-> "", instance |-> "",
     url |-> "", credentials_file |-> "", ca_file |-> "", insecure |-> FALSE,
     keepalive |-> 30 * Second, connect_timeout |-> 10 * Second, reconnect_interval |-> Second,
     reconnect_backoff |-> [enabled |-> FALSE, max |-> 60 * Second, jitter |-> 30],
     publish_timeout |-> 2 * Second, buffer_size |-> 64, drain_timeout |-> 5 * Second,
     tx_intake_size |-> 256,
     keepalive_interval |-> 15 * Second, missed_keepalives |-> 3, event_buffer_size |-> 64,
     level |-> "info", log_payloads |-> FALSE, log_file |-> "", max_size_mb |-> 64, keep |-> 7,
     stdout |-> TRUE]

NoGroups == [scope \in Scopes |-> <<>>]

DefaultDevice ==
    [id |-> "", kind |-> "serial", path |-> "", baud |-> 9600, data_bits |-> 8, parity |-> "none",
     stop_bits |-> "1", separator |-> "", max_frame_bytes |-> 4096, inter_char_timeout |-> 2,
     message_expiry |-> 30 * Second, tx_open_attempts |-> 3, tx_open_interval |-> Second,
     tx_chunk_bytes |-> 1024, tx_remembered_ids |-> 1024, reopen_interval |-> 1,
     reopen_backoff |-> [enabled |-> TRUE, max |-> 30 * Second, jitter |-> 30],
     device_type |-> "", broadcast_groups |-> NoGroups]

\* The settings and the keys of a device that are integers or durations.
NumberSettings == {"keepalive", "connect_timeout", "reconnect_interval", "publish_timeout", "buffer_size", "drain_timeout",
                   "tx_intake_size", "keepalive_interval", "missed_keepalives", "event_buffer_size", "max_size_mb", "keep"}

NumberKeys == {"baud", "data_bits", "max_frame_bytes", "inter_char_timeout", "message_expiry", "tx_open_attempts",
               "tx_open_interval", "tx_chunk_bytes", "tx_remembered_ids", "reopen_interval"}

\* base with the settings of set in place of its own.
Overlay(base, set) == [f \in DOMAIN base |-> IF f \in DOMAIN set THEN set[f] ELSE base[f]]

-----------------------------------------------------------------------------
(***************************************************************************)
(* The layers.  A document has its number of YAML documents, the keys that *)
(* do not belong in it, each with its kind and line, what it sets, and its *)
(* device entries.  The environment is a function on the names of the      *)
(* variables it holds; a variable that sets a setting has that name.       *)
(***************************************************************************)
KeyKinds == {"removed", "unknown", "mistyped"}

FindRemovedKeys(doc) == {key \in doc.wrong : key.kind = "removed"}

\* The strict decoder reports every wrong key, removed ones too; those on a
\* removed key's line are taken to repeat it.
ReportedKeys(doc) ==
    LET removed == FindRemovedKeys(doc)
    IN  removed \cup {key \in doc.wrong : key.line \notin {r.line : r \in removed}}

DecodeAccepts(doc) == doc.documents = 1 /\ ReportedKeys(doc) = {}

Devices(doc) == [i \in DOMAIN doc.devices |-> Overlay(DefaultDevice, doc.devices[i])]

\* Neither mapping has a variable, and neither have the devices.
Credentials == {"MQTT_USERNAME", "MQTT_PASSWORD"}
EnvTargets == (DOMAIN Defaults \ {"reconnect_backoff"}) \cup Credentials \cup {"CONFIG"}

\* A variable with an earlier release's prefix, one of a removed setting, and
\* one nobody knows.
LegacyVariable == "legacy prefix"
WrongVariables == {"removed setting", "unrecognised"}

RejectLegacyEnvironment(environ) == LegacyVariable \notin DOMAIN environ

ApplyEnvAccepts(environ) ==
    DOMAIN environ \subseteq EnvTargets /\ \A name \in DOMAIN environ : environ[name] # Unparsable

FlagTargets == {"project", "site", "station", "instance", "url", "credentials_file", "ca_file",
                "insecure", "level", "log_payloads"}

ApplyDerivedDefaults(c) == [c EXCEPT !.instance = IF @ = "" THEN c.station ELSE @]

\* BUG: the derived default is taken before the environment and the flags.
MergeDerivedFirst(doc, environ, flags) ==
    Overlay(Overlay(ApplyDerivedDefaults(Overlay(Defaults, doc.set)), environ), flags)

Merge(doc, environ, flags) ==
    ApplyDerivedDefaults(Overlay(Overlay(Overlay(Defaults, doc.set), environ), flags))

-----------------------------------------------------------------------------
(***************************************************************************)
(* Validate.  c is the configuration, devices its devices, environ the     *)
(* environment and disk what is on the disk: the credentials file, the CA  *)
(* file and the log's directory.                                           *)
(***************************************************************************)
ReconnectPolicy(c) == [interval |-> c.reconnect_interval, backoff |-> c.reconnect_backoff]
ReopenPolicy(d) == [interval |-> d.reopen_interval, backoff |-> d.reopen_backoff]

\* An empty instance is let through: Load has made it the station by then.
ValidIdentity(c) ==
    /\ {c.project, c.site, c.station} \subseteq Segments
    /\ c.station # GroupLevel
    /\ c.instance = "" \/ (c.instance \in Segments /\ c.instance \notin LongNames)

UsesTLS(c) == c.url = "tls"

ValidURL(c) ==
    \/ c.url = "tls"
    \/ c.url = "plaintext" /\ c.ca_file = "" /\ c.insecure

SecretFile(disk) == disk.credentials \notin {"missing", "not regular", "open to others"}

ValidBroker(c, environ, disk) ==
    /\ ValidURL(c)
    /\ IF c.credentials_file = "" THEN "MQTT_PASSWORD" \in DOMAIN environ ELSE SecretFile(disk)
    /\ c.ca_file # "" => disk.ca # "missing"
    /\ c.keepalive > 0 /\ c.connect_timeout > 0
    /\ PolicyValid(ReconnectPolicy(c))

WholeSeconds(duration) == duration >= Second /\ duration % Second = 0

ValidPath(path) == path \notin {"", "relative", "callin"}

ValidSeparator(separator) == separator \notin {"", "has a backslash", "too long"}

ValidDeviceType(type) == type \notin {"blank", "too long", "control character"}

ValidGroups(groups) ==
    \A scope \in Scopes :
        /\ \A i \in DOMAIN groups[scope] : groups[scope][i] \in Segments
        /\ \A i, j \in DOMAIN groups[scope] : i # j => groups[scope][i] # groups[scope][j]

\* One entry by itself, as ValidateDevice checks it for the probe.
ValidDevice(d) ==
    /\ d.id \in Segments /\ d.id # AgentLevel
    /\ d.kind = "serial"
    /\ ValidPath(d.path)
    /\ d.baud > 0
    /\ d.data_bits \in 5..8
    /\ d.parity \in {"none", "odd", "even", "mark", "space"}
    /\ d.stop_bits \in {"1", "2"}
    /\ ValidSeparator(d.separator)
    /\ d.max_frame_bytes >= 1 /\ d.max_frame_bytes <= MaxFrameBytesLimit
    /\ d.inter_char_timeout > 0
    /\ WholeSeconds(d.message_expiry)
    /\ d.tx_open_attempts >= 1 /\ d.tx_open_interval > 0
    /\ d.tx_chunk_bytes >= 1 /\ d.tx_remembered_ids >= 1
    /\ PolicyValid(ReopenPolicy(d))
    /\ ValidDeviceType(d.device_type) /\ ValidGroups(d.broadcast_groups)

ValidDevices(devices) ==
    /\ devices # <<>>
    /\ \A i \in DOMAIN devices : ValidDevice(devices[i])
    /\ \A i, j \in DOMAIN devices :
         i # j => devices[i].id # devices[j].id /\ devices[i].path # devices[j].path

ValidDelivery(c, devices) ==
    /\ c.publish_timeout > 0
    /\ \A i \in DOMAIN devices :
         devices[i].message_expiry > 0 => c.publish_timeout <= devices[i].message_expiry
    /\ c.drain_timeout > 0 /\ c.buffer_size >= 1 /\ c.tx_intake_size >= 1

\* BUG: an event buffer of no size is let through.
ValidStatusAnyBuffer(c) == WholeSeconds(c.keepalive_interval) /\ c.missed_keepalives >= 1

ValidStatus(c) ==
    WholeSeconds(c.keepalive_interval) /\ c.missed_keepalives >= 1 /\ c.event_buffer_size >= 1

Levels == {"debug", "info", "warn", "error"}

ValidLogging(c, disk) ==
    /\ c.level \in Levels
    /\ c.log_file # "" => c.log_file # "relative" /\ disk.logdir \notin {"missing", "not a directory"}
    /\ c.max_size_mb >= 1 /\ c.keep >= 0

Validate(c, devices, environ, disk) ==
    /\ ValidIdentity(c)
    /\ ValidBroker(c, environ, disk)
    /\ ValidDevices(devices)
    /\ ValidDelivery(c, devices)
    /\ ValidStatus(c)
    /\ ValidLogging(c, disk)

-----------------------------------------------------------------------------
(***************************************************************************)
(* What the parts accept when runAgent builds them.                        *)
(***************************************************************************)
\* logging.OpenFile and logging.New.
OpenLogAccepts(c, disk) ==
    /\ c.log_file # "" => c.max_size_mb >= 1 /\ c.keep >= 0 /\ disk.logdir = "good"
    /\ c.level \in Levels

\* The credentials file, which has to open and to parse, gives both, the
\* environment overrides either, and neither may be empty in the end.
LoadCredentialsAccepts(c, environ, disk) ==
    /\ c.credentials_file # "" => disk.credentials \notin {"missing", "not regular", "unreadable", "garbled"}
    /\ IF "MQTT_PASSWORD" \in DOMAIN environ THEN environ["MQTT_PASSWORD"] # ""
       ELSE c.credentials_file # "" /\ disk.credentials # "no password"
    /\ IF "MQTT_USERNAME" \in DOMAIN environ THEN environ["MQTT_USERNAME"] # ""
       ELSE c.credentials_file # "" /\ disk.credentials # "no username"

TopicsAccept(c) == StationAccepted(c) /\ AgentAccepted(c.instance)

\* lineFormat, serial.New and, in it, NewFramer.
SerialAccepts(d) ==
    /\ d.parity \in {"none", "odd", "even", "mark", "space"} /\ d.stop_bits \in {"1", "2"}
    /\ d.id # "" /\ d.path # ""
    /\ d.baud > 0 /\ d.inter_char_timeout > 0
    /\ d.data_bits >= 5 /\ d.data_bits <= 8
    /\ d.separator # "" /\ d.max_frame_bytes >= 1
    /\ d.tx_chunk_bytes >= 1
    /\ PolicyValid(ReopenPolicy(d))

DeviceTopicsAccept(d) ==
    /\ DeviceAccepted(d.id)
    /\ \A scope \in Scopes : \A k \in DOMAIN d.broadcast_groups[scope] :
         GroupAccepted(d.broadcast_groups[scope][k])

BuildDevicesAccepts(devices) ==
    \A i \in DOMAIN devices : DeviceTopicsAccept(devices[i]) /\ SerialAccepts(devices[i])

\* Dial's own checks; the CA file it reads is TLSConfigAccepts.
DialAccepts(c) ==
    /\ c.instance # "" /\ c.keepalive > 0 /\ c.connect_timeout > 0
    /\ PolicyValid(ReconnectPolicy(c))
    /\ c.url # "unparsable"
    /\ ~UsesTLS(c) => c.ca_file = ""

\* tlsConfig: the CA file has to open, and to hold a certificate.
TLSConfigAccepts(c, disk) == UsesTLS(c) /\ c.ca_file # "" => disk.ca = "good"

NewCoreAccepts(c, devices) ==
    /\ devices # <<>>
    /\ c.publish_timeout > 0 /\ c.buffer_size > 0 /\ c.drain_timeout > 0 /\ c.event_buffer_size > 0
    /\ c.keepalive_interval > 0 /\ c.missed_keepalives >= 1
    /\ \A i \in DOMAIN devices :
         /\ devices[i].message_expiry > 0
         /\ devices[i].tx_open_attempts >= 0 /\ devices[i].tx_open_interval >= 0
         /\ devices[i].tx_remembered_ids >= 1

=============================================================================
