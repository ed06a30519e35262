---------------------------- MODULE MCScrapeMode ----------------------------
(* The instances of ScrapeMode that TLC checks.  Two files are scraped with: *)
(* the second drops a host, and has a measurement of a type nobody knows.    *)
(* The others cover the settings of one measurement or of none, and the      *)
(* topologies.                                                               *)
EXTENDS ScrapeMode

CONSTANTS a, b, c

Given0 == {Absent, -1, 0, 3}

Measurement(type, targets) ==
  [type |-> type, targets |-> targets, interval |-> Absent, packetTimeout |-> Absent,
   timeout |-> Absent, duration |-> Absent, padding |-> 0, burst |-> 0]

File(hosts, ms) ==
  [topology |-> "mesh", interval |-> Absent, packetTimeout |-> Absent, refresh |-> Absent,
   padding |-> 0, burst |-> 0, hosts |-> hosts, hub |-> a, hubEnabled |-> FALSE,
   measurements |-> ms]

MCScraped ==
  <<File(<<a, c>>, <<Measurement("twamp", "all"), Measurement("bw", "hub-only")>>),
    File(<<b, c>>, <<Measurement("ping", "all"), Measurement("dns", "all"),
                     Measurement("mtu", "all")>>)>>

OfMeasurement ==
  {File(<<a, b>>, <<[Measurement(type, "all") EXCEPT
       !.interval = i, !.packetTimeout = p, !.timeout = t, !.padding = n]>>) :
     type \in {"twamp", "mtu"}, i \in Given0 \cup {Bad}, p \in Given0, t \in Given0, n \in {-1, 0}}

OfNone ==
  {[File(<<a, b>>, <<>>) EXCEPT
       !.interval = i, !.packetTimeout = p, !.refresh = r, !.padding = n, !.burst = k] :
     i \in Given0, p \in Given0, r \in Given0, n \in {-1, 0, 2}, k \in {0, 1}}

OfTopology ==
  {[File(hosts, <<Measurement(type, targets)>>) EXCEPT !.hub = hub, !.hubEnabled = e,
       !.topology = t] :
     hosts \in {<<>>, <<a>>, <<a, b>>, <<b, a, c>>}, type \in {"twamp", "dns"},
     targets \in {"", "all", "hub-only"}, hub \in {a, c}, e \in BOOLEAN,
     t \in {"", "mesh", "hub-spoke"}}

MCFiles == ToSet(MCScraped) \cup OfMeasurement \cup OfNone \cup OfTopology
=============================================================================
