------------------------------- MODULE Topics -------------------------------
(***************************************************************************)
(* The agent's MQTT topics (internal/wire/topics.go).  A topic is the      *)
(* sequence of its levels.  An identity is a record with the fields        *)
(* project, site and station; a device's groups give the names of its      *)
(* broadcast groups in each scope.                                         *)
(***************************************************************************)
EXTENDS Naturals, Sequences

CONSTANT Segments   \* The names that match the segment rule, [a-z0-9-]+.

AgentLevel == "agent"
GroupLevel == "group"
Scopes == {"project", "site", "station"}

\* What the constructors accept.  Each refuses a name that is not a segment;
\* "group" is no station and "agent" no device.
StationAccepted(id) ==
    {id.project, id.site, id.station} \subseteq Segments /\ id.station # GroupLevel

AgentAccepted(instance) == instance \in Segments

DeviceAccepted(device) == device \in Segments /\ device # AgentLevel

GroupAccepted(group) == group \in Segments

DeviceTopic(id, device, leaf) ==
    <<"skuhus", id.project, id.site, id.station, device, leaf>>

AgentStatus(id, instance) ==
    <<"skuhus", id.project, id.site, id.station, AgentLevel, instance, "status">>

GroupTx(id, scope, group) ==
    CASE scope = "project" -> <<"skuhus", id.project, GroupLevel, group, "tx">>
      [] scope = "site"    -> <<"skuhus", id.project, id.site, GroupLevel, group, "tx">>
      [] scope = "station" -> <<"skuhus", id.project, id.site, id.station, GroupLevel, group, "tx">>

\* The routes to a device's tx, as a set: its own topic and its groups'.
GroupRoutes(id, groups) ==
    UNION {{GroupTx(id, scope, groups[scope][i]) : i \in DOMAIN groups[scope]} : scope \in Scopes}

TxRoutes(id, device, groups) == {DeviceTopic(id, device, "tx")} \cup GroupRoutes(id, groups)

\* The filters a consumer subscribes to.
EveryDeviceRx(id) == DeviceTopic(id, "+", "rx")
EveryDeviceStatus(id) == DeviceTopic(id, "+", "status")
EveryAgentStatus(id) == AgentStatus(id, "+")

\* The broker's matching of a filter with single-level wildcards (external).
Matches(filter, topic) ==
    /\ Len(filter) = Len(topic)
    /\ \A i \in DOMAIN filter : filter[i] \in {"+", topic[i]}

=============================================================================
