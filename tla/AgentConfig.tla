----------------------------- MODULE AgentConfig -----------------------------
(***************************************************************************)
(* The topology file of the agent and the exporter: what parseAgentConfig  *)
(* of agent.go makes of it, what the measurers make of their settings, and *)
(* whom a host probes.                                                     *)
(*                                                                         *)
(* A duration of the file is Absent, Bad, or a number of seconds of either *)
(* sign; a number that is absent is 0.  The JSON is well formed.  The      *)
(* settings that only pass through are left out, and of the numbers with a *)
(* default the burst stands for max_hops, probes_per_hop and ceiling.      *)
(***************************************************************************)
EXTENDS Integers, Sequences, SequencesExt

CONSTANTS
  Absent, Bad \* a duration that is not given, and one that does not parse

\* They are no numbers.
ASSUME DurationsAssumption == Absent \notin Int /\ Bad \notin Int /\ Absent # Bad

Timing == Int \cup {Absent, Bad}

\* What the decoder makes of the JSON: rawAgentConfig and rawMeasurement.
RawMeasurement ==
  [type : STRING, targets : STRING, interval : Timing, packetTimeout : Timing,
   timeout : Timing, duration : Timing, padding : Int, burst : Int]

WellFormed(raw) ==
  /\ {raw.interval, raw.packetTimeout, raw.refresh} \subseteq Timing
  /\ raw.padding \in Int /\ raw.burst \in Int
  /\ raw.measurements \in Seq(RawMeasurement)

Types == {"twamp", "bw", "trace", "mtu", "dns"}  \* buildMeasurers

(***************************************************************************)
(* parseAgentConfig.                                                       *)
(***************************************************************************)

\* Mutation: an empty string is zero.
DurationZero(given, default) == IF given = Absent THEN 0 ELSE given

DurationOf(given, default) == IF given = Absent THEN default ELSE given

Positive(n, default) == IF n <= 0 THEN default ELSE n

\* For TWAMP packet_timeout is the timeout, unless it is not positive.
SpecTimeout(m) ==
  IF m.type = "twamp" /\ DurationOf(m.packetTimeout, 5) > 0
  THEN DurationOf(m.packetTimeout, 5)
  ELSE DurationOf(m.timeout, 2)

SpecOf(m) ==
  [type |-> m.type, targets |-> m.targets,
   interval |-> DurationOf(m.interval, 60), timeout |-> SpecTimeout(m),
   duration |-> DurationOf(m.duration, 5), padding |-> m.padding,
   burst |-> Positive(m.burst, 5)]

\* Without a measurements block the file is one of TWAMP.
DefaultSpec(raw) ==
  [type |-> "twamp", targets |-> "all",
   interval |-> DurationOf(raw.interval, 60), timeout |-> DurationOf(raw.packetTimeout, 5),
   duration |-> 0, padding |-> raw.padding,
   burst |-> Positive(raw.burst, 5)]

Durations(raw) ==
  {raw.interval, raw.packetTimeout, raw.refresh} \cup
  UNION {{m.interval, m.packetTimeout, m.timeout, m.duration} : m \in ToSet(raw.measurements)}

Accepted(raw) == raw.topology # "" /\ Bad \notin Durations(raw) /\ raw.padding >= 0

Parse(raw) ==
  [topology |-> raw.topology, refresh |-> DurationOf(raw.refresh, 300),
   hosts |-> raw.hosts, hub |-> raw.hub, hubEnabled |-> raw.hubEnabled,
   measurements |->
     IF raw.measurements = <<>> THEN <<DefaultSpec(raw)>>
     ELSE [i \in DOMAIN raw.measurements |-> SpecOf(raw.measurements[i])]]

(***************************************************************************)
(* resolveTargets.  targetsFor, which heeds hub_spoke.enabled, only tests   *)
(* still call.                                                             *)
(***************************************************************************)
Without(hosts, h) == SelectSeq(hosts, LAMBDA x : x # h)
Only(hosts, h) == IF h \in ToSet(hosts) THEN <<h>> ELSE <<>>

ResolveTargets(cfg, host, spec) ==
  IF spec.type = "dns" THEN <<"dns">>
  ELSE IF spec.targets = "hub-only" THEN Only(cfg.hosts, cfg.hub)
  ELSE Without(cfg.hosts, host)

(***************************************************************************)
(* What the code does with the settings.                                   *)
(***************************************************************************)

\* What makes it panic: time.NewTicker of the poller, unless -config-refresh is
\* given, and of a scheduler, and make of the padding.
Panics(cfg) ==
  \/ cfg.refresh <= 0
  \/ \E m \in ToSet(cfg.measurements) :
       m.type \in Types /\ (m.interval <= 0 \/ (m.type = "twamp" /\ m.padding < 0))

\* The time a measurer waits for an answer, or sends: all but TWAMP take their
\* own default for what is not positive.
Waits(m) ==
  CASE m.type = "twamp" -> m.timeout
    [] m.type = "bw"    -> Positive(m.duration, 5)
    [] OTHER            -> Positive(m.timeout, 2)

\* The measurer gets no answer whatever the network does.
Deaf(m) ==
  \/ Waits(m) <= 0
  \/ m.type = "twamp" /\ m.burst <= 0

(***************************************************************************)
(* The properties, for a file that is accepted.                            *)
(***************************************************************************)
Given(d) == d \notin {Absent, Bad}
NotPositive(d) == Given(d) /\ d <= 0

\* The settings the code cannot run with are those the file spells out as zero
\* or less: no default, and no combination of absent settings, leads to one,
\* and only the padding of the file itself is checked (agent.go 213-268).
SettingsAreUsable(raw) ==
  LET cfg == Parse(raw)
      ms == raw.measurements
      bad(m) == m.type \in Types /\ (NotPositive(m.interval) \/ (m.type = "twamp" /\ m.padding < 0))
      deaf(m) == m.type = "twamp" /\ NotPositive(m.packetTimeout) /\ NotPositive(m.timeout)
      none == ms = <<>>
  IN /\ Panics(cfg) <=> \/ NotPositive(raw.refresh)
                        \/ none /\ NotPositive(raw.interval)
                        \/ \E m \in ToSet(ms) : bad(m)
     /\ \A i \in DOMAIN cfg.measurements :
          Deaf(cfg.measurements[i]) <=>
            IF none THEN NotPositive(raw.packetTimeout) ELSE deaf(ms[i])

\* What the README of the code says of a star: "spokes probe only the hub; hub
\* probes all spokes" (README.md 405), here for measurements that do not ask
\* for the hub themselves.  resolveTargets goes by the targets of the measurement
\* alone (agent.go 739-761): a spoke probes the other spokes as well.
StarProbes(raw) ==
  LET cfg == Parse(raw)
      hosts == ToSet(cfg.hosts)
      star == cfg.topology = "hub-spoke" /\ cfg.hubEnabled /\ cfg.hub \in hosts
  IN \A spec \in ToSet(cfg.measurements), host \in hosts :
       star /\ spec.type # "dns" /\ spec.targets \in {"", "all"} =>
         ToSet(ResolveTargets(cfg, host, spec)) =
           IF host = cfg.hub THEN hosts \ {host} ELSE {cfg.hub}

=============================================================================
