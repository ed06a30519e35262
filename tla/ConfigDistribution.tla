------------------------- MODULE ConfigDistribution -------------------------
(***************************************************************************)
(* The way of a refreshed configuration to the schedulers: the poller      *)
(* (runConfigPoller of agent.go), configCh, the fan-out goroutine, one     *)
(* channel for each measurement, and the schedulers, who take a            *)
(* configuration only between two probes.  Agent mode (runAgent) and the   *)
(* background and dual modes of exporter.go differ in one thing: what they *)
(* do with a measurement of a type they do not know.                       *)
(*                                                                         *)
(* A configuration is the number of the refresh that fetched it; 0 is the  *)
(* one the process has started with.                                       *)
(***************************************************************************)
EXTENDS Naturals, Sequences, FiniteSets, FiniteSetsExt

CONSTANTS
  Specs,    \* how many measurements the initial configuration lists
  Unknown,  \* those of an unknown type
  Exporter, \* exporter mode; otherwise agent mode
  MaxFetches \* bound: successful refreshes

ASSUME ConfigAssumption ==
  /\ Specs \in Nat \ {0}
  /\ Unknown \subseteq 1 .. Specs
  /\ Exporter \in BOOLEAN
  /\ MaxFetches \in Nat

Known == (1 .. Specs) \ Unknown
\* schedulerChans: the exporter makes a channel for an unknown type, too.
Chans == IF Exporter THEN 1 .. Specs ELSE Known

VARIABLES
  fetched,  \* the refreshes that have succeeded
  pPc,      \* the poller: "select", "push" (the last one fetched) or "exited"
  configCh, \* capacity 1
  fPc,      \* the fan-out: "select", "send" or "exited"
  fCfg,     \* the configuration it sends
  fTo,      \* the channels it has still to send it to
  ch,       \* the channel of each measurement, capacity 1
  sPc,      \* each scheduler: "start", "wait", "probe", "select" or "exited"
  cfg,      \* the configuration each scheduler uses
  cancelled

poller == <<fetched, pPc>>
fanout == <<fPc, fCfg, fTo>>
scheds == <<sPc, cfg>>
vars == <<poller, configCh, fanout, ch, scheds, cancelled>>

Init ==
  /\ fetched = 0 /\ pPc = "select"
  /\ configCh = <<0>>
  /\ fPc = "select" /\ fCfg = 0 /\ fTo = {}
  /\ ch = [c \in Chans |-> <<0>>]
  /\ sPc = [s \in Known |-> "start"] /\ cfg = [s \in Known |-> 0]
  /\ cancelled = FALSE

(***************************************************************************)
(* runConfigPoller.                                                        *)
(***************************************************************************)
FetchOk ==
  /\ pPc = "select" /\ fetched < MaxFetches
  /\ fetched' = fetched + 1
  /\ pPc' = "push"
  /\ UNCHANGED <<configCh, fanout, ch, scheds, cancelled>>

\* Mutation: after a failed refresh the initial configuration is sent again.
FetchFailInitial ==
  /\ pPc = "select" /\ configCh = <<>>
  /\ configCh' = <<0>>
  /\ UNCHANGED <<poller, fanout, ch, scheds, cancelled>>

\* A refresh that fails is logged and changes nothing.
FetchFail == pPc = "select" /\ UNCHANGED vars

PollPush ==
  /\ pPc = "push" /\ configCh = <<>>
  /\ configCh' = <<fetched>>
  /\ pPc' = "select"
  /\ UNCHANGED <<fetched, fanout, ch, scheds, cancelled>>

PollStop ==
  /\ pPc \in {"select", "push"} /\ cancelled
  /\ pPc' = "exited"
  /\ UNCHANGED <<fetched, configCh, fanout, ch, scheds, cancelled>>

(***************************************************************************)
(* The fan-out goroutine.                                                  *)
(***************************************************************************)
FanTake ==
  /\ fPc = "select" /\ configCh # <<>>
  /\ fCfg' = Head(configCh) /\ configCh' = <<>>
  /\ fTo' = Chans
  /\ fPc' = IF Chans = {} THEN "select" ELSE "send"
  /\ UNCHANGED <<poller, ch, scheds, cancelled>>

\* Mutation: a scheduler that has not taken its last configuration is passed
\* over.
FanSendSkips ==
  /\ fPc = "send"
  /\ LET c == Min(fTo) IN
       /\ ch' = [ch EXCEPT ![c] = IF @ = <<>> THEN <<fCfg>> ELSE @]
       /\ fTo' = fTo \ {c}
  /\ fPc' = IF fTo' = {} THEN "select" ELSE "send"
  /\ UNCHANGED <<poller, configCh, fCfg, scheds, cancelled>>

\* To the next channel in the order of the configuration, when it has room.
FanSend ==
  /\ fPc = "send"
  /\ LET c == Min(fTo) IN
       /\ ch[c] = <<>>
       /\ ch' = [ch EXCEPT ![c] = <<fCfg>>]
       /\ fTo' = fTo \ {c}
  /\ fPc' = IF fTo' = {} THEN "select" ELSE "send"
  /\ UNCHANGED <<poller, configCh, fCfg, scheds, cancelled>>

\* Mutation: the fan-out does not watch the context while it sends.
FanStopIdle ==
  /\ fPc = "select" /\ cancelled
  /\ fPc' = "exited"
  /\ UNCHANGED <<poller, configCh, fCfg, fTo, ch, scheds, cancelled>>

FanStop ==
  /\ fPc \in {"select", "send"} /\ cancelled
  /\ fPc' = "exited"
  /\ UNCHANGED <<poller, configCh, fCfg, fTo, ch, scheds, cancelled>>

(***************************************************************************)
(* runMeasurerScheduler.                                                   *)
(***************************************************************************)
Go(s, where) == sPc' = [sPc EXCEPT ![s] = where]

\* Mutation: a later configuration is received into a variable of the select.
TakeConfigShadowed(s) ==
  /\ sPc[s] \in {"start", "select"} /\ ch[s] # <<>>
  /\ ch' = [ch EXCEPT ![s] = <<>>]
  /\ Go(s, IF sPc[s] = "start" THEN "wait" ELSE "select")
  /\ UNCHANGED <<poller, configCh, fanout, cfg, cancelled>>

\* The scheduler receives its configuration: the first, and every later one.
TakeConfig(s) ==
  /\ sPc[s] \in {"start", "select"} /\ ch[s] # <<>>
  /\ cfg' = [cfg EXCEPT ![s] = Head(ch[s])]
  /\ ch' = [ch EXCEPT ![s] = <<>>]
  /\ Go(s, IF sPc[s] = "start" THEN "wait" ELSE "select")
  /\ UNCHANGED <<poller, configCh, fanout, cancelled>>

\* The first probe begins after 30 s, every other one at the ticker.
BeginProbe(s) ==
  /\ sPc[s] \in {"wait", "select"}
  /\ Go(s, "probe")
  /\ UNCHANGED <<poller, configCh, fanout, ch, cfg, cancelled>>

EndProbe(s) ==
  /\ sPc[s] = "probe"
  /\ Go(s, "select")
  /\ UNCHANGED <<poller, configCh, fanout, ch, cfg, cancelled>>

Stop(s) ==
  /\ sPc[s] \in {"start", "wait", "select"} /\ cancelled
  /\ Go(s, "exited")
  /\ UNCHANGED <<poller, configCh, fanout, ch, cfg, cancelled>>

Cancel ==
  /\ ~cancelled /\ cancelled' = TRUE
  /\ UNCHANGED <<poller, configCh, fanout, ch, scheds>>

AllExited ==
  pPc = "exited" /\ fPc = "exited" /\ \A s \in Known : sPc[s] = "exited"

Terminated == AllExited /\ UNCHANGED vars

\* The fan-out goroutine is the same in each mode but for Chans.
PollerStep == FetchOk \/ FetchFail \/ PollPush \/ PollStop
FanStep == FanTake \/ FanSend \/ FanStop
SchedulerStep(s) == TakeConfig(s) \/ BeginProbe(s) \/ EndProbe(s) \/ Stop(s)

Next ==
  \/ PollerStep \/ FanStep
  \/ \E s \in Known : SchedulerStep(s)
  \/ Cancel \/ Terminated

Spec == Init /\ [][Next]_vars

\* Every goroutine runs, a probe ends, and of the cases a select keeps finding
\* ready none is passed over for ever.
FairSpec ==
  /\ Spec
  /\ WF_vars(PollPush) /\ WF_vars(PollStop)
  /\ WF_vars(FanStep) /\ SF_vars(FanStop)
  /\ \A s \in Known :
       WF_vars(SchedulerStep(s)) /\ SF_vars(TakeConfig(s)) /\ SF_vars(Stop(s))

(***************************************************************************)
(* Properties.                                                             *)
(***************************************************************************)
Versions == 0 .. MaxFetches

\* No scheduler ever goes back to an older configuration, however the refreshes
\* overtake its probes (agent.go 383-403, 625-645, 728).
NeverOlder == [][\A s \in Known : cfg'[s] >= cfg[s]]_vars

\* A scheduler that probes for long holds the poller up rather than miss more:
\* it is never more than four refreshes behind, one in each place between.
BoundedLag == \A s \in Known : fetched <= cfg[s] + 4

\* Every scheduler gets every refresh, or a later one, unless the process is
\* stopped.
Refreshed ==
  \A v \in Versions, s \in Known : fetched >= v ~> (cfg[s] >= v \/ cancelled)

\* The shutdown ends, whoever is blocked on whose channel.
ShutdownEnds == cancelled ~> AllExited

\* "Unknown type values logged and skipped (forward compat)" (toolkit design
\* 229): a measurement of an unknown type keeps no refresh from the others.
UnknownSkipped == Refreshed

=============================================================================
