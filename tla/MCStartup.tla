----------------------------- MODULE MCStartup -----------------------------
(***************************************************************************)
(* Startup for TLC: a valid file with two devices and a broadcast group    *)
(* they share, and for each setting the values at the edges of its rules.  *)
(***************************************************************************)
EXTENDS Startup

MCSegments == {"p", "s", "st", "other", "d1", "d2", "g", "group", "agent", "long"}

MCBaseDocument ==
    [documents |-> 1, wrong |-> {},
     set |-> [project |-> "p", site |-> "s", station |-> "st", url |-> "tls",
              credentials_file |-> "credentials", log_file |-> "log"],
     devices |-> <<[id |-> "d1", path |-> "a", separator |-> "cr",
                    broadcast_groups |-> [NoGroups EXCEPT !["site"] = <<"g">>]],
                   [id |-> "d2", path |-> "b", separator |-> "cr",
                    broadcast_groups |-> [NoGroups EXCEPT !["site"] = <<"g">>]]>>]

MCSettingChoices ==
    [project |-> {"", "A b", "group"}, site |-> {"A b", "group"}, station |-> {"", "group", "other", "long"},
     instance |-> {"", "A b", "agent", "long"},
     url |-> {"", "plaintext", "unparsable", "no host", "carries credentials", "other scheme"},
     credentials_file |-> {""}, ca_file |-> {"", "ca"}, insecure |-> {TRUE},
     keepalive |-> {0, 1}, connect_timeout |-> {0, 1}, reconnect_interval |-> {0, 601},
     reconnect_backoff |-> {[enabled |-> TRUE, max |-> 600, jitter |-> 30], [enabled |-> TRUE, max |-> 9, jitter |-> 100],
                            [enabled |-> FALSE, max |-> 0, jitter |-> 101], [enabled |-> TRUE, max |-> 10, jitter |-> 101]},
     publish_timeout |-> {0, 300, 301}, buffer_size |-> {0, 1}, drain_timeout |-> {0, 1}, tx_intake_size |-> {0, 1},
     keepalive_interval |-> {9, 10, 15}, missed_keepalives |-> {0, 1}, event_buffer_size |-> {0, 1},
     level |-> {"loud"}, log_payloads |-> {TRUE}, log_file |-> {"", "relative"}, max_size_mb |-> {0, 1}, keep |-> {-1, 0}]

MCDeviceChoices ==
    [id |-> {"", "A b", "d1", "d2", "group", "agent"}, kind |-> {"hid"}, path |-> {"", "relative", "callin", "a"},
     baud |-> {0, 1}, data_bits |-> {4, 5, 9}, parity |-> {"mark", "other"}, stop_bits |-> {"2", "1.5"},
     separator |-> {"", "has a backslash", "too long"},
     max_frame_bytes |-> {0, 1, MaxFrameBytesLimit + 1}, inter_char_timeout |-> {0}, message_expiry |-> {0, 10, 15},
     tx_open_attempts |-> {0}, tx_open_interval |-> {0}, tx_chunk_bytes |-> {0}, tx_remembered_ids |-> {0},
     reopen_interval |-> {0, 301}, reopen_backoff |-> {[enabled |-> FALSE, max |-> 0, jitter |-> -1]},
     device_type |-> {"blank"},
     broadcast_groups |-> {[NoGroups EXCEPT !["station"] = <<"g", "g">>], [NoGroups EXCEPT !["project"] = <<"A b">>],
                           [NoGroups EXCEPT !["site"] = <<"d1">>, !["station"] = <<"g">>, !["project"] = <<"g", "d1">>]}]

MCVariableChoices ==
    "CONFIG" :> {"", "named"} @@ "MQTT_USERNAME" :> {"", "u"} @@ "MQTT_PASSWORD" :> {"", "p"}
    @@ "legacy prefix" :> {"x"} @@ "removed setting" :> {"x"} @@ "unrecognised" :> {"x"}

MCDiskChoices ==
    [credentials |-> {"missing", "not regular", "open to others", "unreadable", "garbled", "no password",
                       "no username", "good"},
     ca |-> {"missing", "unreadable", "no certificates"}, logdir |-> {"missing", "not a directory", "unwritable"}]

MCWrongKeys == [kind : KeyKinds, line : 1..2]

=============================================================================
