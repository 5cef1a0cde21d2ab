----------------------------- MODULE MCSendTx -----------------------------
(***************************************************************************)
(* SendTx for TLC: two devices of one agent and one of another site's, the *)
(* stations and two of the devices of the same name, and a site and a      *)
(* device named group, which only a station may not be.                    *)
(***************************************************************************)
EXTENDS SendTx

MCSegments == {"p", "s", "st", "d", "group", "all", "hall", "desk", "x", "y"}

Here == [project |-> "p", site |-> "group", station |-> "st"]
There == [project |-> "p", site |-> "s", station |-> "st"]

MCDevices ==
    {[id |-> Here, device |-> "d", agent |-> "x",
      groups |-> [project |-> <<"all">>, site |-> <<>>, station |-> <<"desk">>]],
     [id |-> Here, device |-> "group", agent |-> "x",
      groups |-> [project |-> <<>>, site |-> <<"hall">>, station |-> <<"desk">>]],
     [id |-> There, device |-> "d", agent |-> "y",
      groups |-> [project |-> <<"all">>, site |-> <<"hall">>, station |-> <<>>]]}

GoodPayload == [part \in Fields \cup {"json", "unknown"} |-> Good]

\* To a device, a group of each scope and nobody; with nothing to print, and
\* with an id that is no string.
MCTxs ==
    [topic : {DeviceTopic(Here, "group", "tx"), GroupTx(There, "project", "all"),
              GroupTx(Here, "station", "desk"), DeviceTopic(There, "x", "tx")},
     payload : {GoodPayload}]
    \cup {[topic |-> GroupTx(Here, "site", "hall"), payload |-> [GoodPayload EXCEPT !["raw_b64"] = "empty"]],
          [topic |-> DeviceTopic(Here, "group", "tx"), payload |-> [GoodPayload EXCEPT !["id"] = "other type"]]}

=============================================================================
