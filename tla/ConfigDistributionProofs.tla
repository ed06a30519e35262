---------------------- MODULE ConfigDistributionProofs ----------------------
(***************************************************************************)
(* The order of the refreshes on their way to the schedulers, for any      *)
(* number of measurements, known or not, in both modes.                    *)
(*                                                                         *)
(* The argument is a chain: the poller, configCh, the fan-out, a channel   *)
(* and its scheduler hold versions that never increase along the way, and  *)
(* each holds the one its predecessor holds or the one before it, because  *)
(* every place has room for one configuration and waits for the next.      *)
(***************************************************************************)
EXTENDS ConfigDistribution, NaturalsInduction, WellFoundedInduction, TLAPS

\* An empty channel, or one with a configuration in it.
AtMostOne == {<<>>} \cup {<<v>> : v \in Nat}

ConfigTyped ==
  /\ fetched \in Nat
  /\ pPc \in {"select", "push", "exited"}
  /\ configCh \in AtMostOne
  /\ fPc \in {"select", "send", "exited"}
  /\ fCfg \in Nat
  /\ fTo \subseteq Chans
  /\ ch \in [Chans -> AtMostOne]
  /\ sPc \in [Known -> {"start", "wait", "probe", "select", "exited"}]
  /\ cfg \in [Known -> Nat]
  /\ cancelled \in BOOLEAN
  /\ fPc = "send" => fTo # {}
  /\ fPc = "select" => fTo = {}

\* What the fan-out has, seen from the poller.
PollerChain ==
  /\ \A v \in Nat : configCh = <<v>> =>
       /\ v <= fetched /\ fetched <= v + 1
       /\ pPc = "select" => v = fetched
       /\ fCfg <= v /\ v <= fCfg + 1
  /\ configCh = <<>> =>
       /\ fCfg <= fetched /\ fetched <= fCfg + 1
       /\ pPc = "select" => fCfg = fetched

\* What a channel has, seen from the fan-out.
FanChain ==
  \A c \in Chans, v \in Nat : ch[c] = <<v>> =>
    /\ v <= fCfg /\ fCfg <= v + 1
    /\ c \notin fTo => v = fCfg

\* What a scheduler has, seen from its channel.
SchedulerChain ==
  \A s \in Known :
    /\ \A v \in Nat : ch[s] = <<v>> => cfg[s] <= v /\ v <= cfg[s] + 1
    /\ ch[s] = <<>> =>
         /\ cfg[s] <= fCfg /\ fCfg <= cfg[s] + 1
         /\ s \notin fTo => cfg[s] = fCfg

ChainInv == PollerChain /\ FanChain /\ SchedulerChain

-----------------------------------------------------------------------------

\* The fan-out takes the channels in the order of the configuration, and there
\* is a next one as long as one is left.
LEMMA MinOfNaturals ==
  ASSUME NEW S \in SUBSET Nat, S # {}
  PROVE  Min(S) \in S
<1>1. PICK x \in S : \A y \in S : ~(<<y, x>> \in OpToRel(<, Nat))
  BY NatLessThanWellFounded, WFMin, Zenon
<1>2. \A y \in S : ~(y < x)
  BY <1>1 DEF OpToRel
<1>3. \A y \in S : x <= y
  BY <1>2
<1>4. QED
  BY <1>3 DEF Min

\* The channels are named after the positions of the measurements, and every
\* scheduler has one.
LEMMA ChannelsAreNaturals == Chans \in SUBSET Nat /\ Known \subseteq Chans
BY ConfigAssumption DEF Chans, Known

\* Every place holds one configuration or none.
LEMMA ConfigTypedStep ==
  ASSUME ConfigTyped, [Next]_vars
  PROVE  ConfigTyped'
<1> USE DEF ConfigTyped
<1>1. CASE FetchOk BY <1>1 DEF FetchOk, fanout, scheds
<1>2. CASE FetchFail BY <1>2 DEF FetchFail, vars, poller, fanout, scheds
<1>3. CASE PollPush BY <1>3 DEF PollPush, AtMostOne, fanout, scheds
<1>4. CASE PollStop BY <1>4 DEF PollStop, fanout, scheds
<1>5. CASE FanTake
  <2>1. PICK v \in Nat : configCh = <<v>>
    BY <1>5 DEF FanTake, AtMostOne
  <2>2. fCfg' = v /\ configCh' = <<>> /\ fTo' = Chans
        /\ fPc' = IF Chans = {} THEN "select" ELSE "send"
    BY <1>5, <2>1 DEF FanTake
  <2>3. UNCHANGED <<fetched, pPc, ch, sPc, cfg, cancelled>>
    BY <1>5 DEF FanTake, poller, scheds
  <2>4. QED
    BY <2>2, <2>3 DEF AtMostOne
<1>6. CASE FanSend
  <2>1. fTo # {} /\ Min(fTo) \in fTo
    BY <1>6, MinOfNaturals, ChannelsAreNaturals DEF FanSend
  <2>2. /\ ch' = [ch EXCEPT ![Min(fTo)] = <<fCfg>>]
        /\ fTo' = fTo \ {Min(fTo)}
        /\ fPc' = IF fTo' = {} THEN "select" ELSE "send"
    BY <1>6 DEF FanSend
  <2>3. ch' \in [Chans -> AtMostOne]
    BY <2>2 DEF AtMostOne
  <2>4. UNCHANGED <<fetched, pPc, configCh, fCfg, sPc, cfg, cancelled>>
    BY <1>6 DEF FanSend, poller, scheds
  <2>5. QED
    BY <2>2, <2>3, <2>4
<1>7. CASE FanStop BY <1>7 DEF FanStop, poller, scheds
<1>8. ASSUME NEW s \in Known, TakeConfig(s) PROVE ConfigTyped'
  <2>1. s \in Chans
    BY ChannelsAreNaturals
  <2>2. PICK v \in Nat : ch[s] = <<v>>
    BY <1>8, <2>1 DEF TakeConfig, AtMostOne
  <2>3. cfg' = [cfg EXCEPT ![s] = v] /\ ch' = [ch EXCEPT ![s] = <<>>]
    BY <1>8, <2>2 DEF TakeConfig
  <2>4. sPc' \in [Known -> {"start", "wait", "probe", "select", "exited"}]
    BY <1>8 DEF TakeConfig, Go
  <2>5. UNCHANGED <<fetched, pPc, configCh, fPc, fCfg, fTo, cancelled>>
    BY <1>8 DEF TakeConfig, poller, fanout
  <2>6. QED
    BY <2>3, <2>4, <2>5 DEF AtMostOne
<1>9. ASSUME NEW s \in Known, BeginProbe(s) \/ EndProbe(s) \/ Stop(s)
      PROVE  ConfigTyped'
  BY <1>9 DEF BeginProbe, EndProbe, Stop, Go, poller, fanout
<1>10. CASE Cancel BY <1>10 DEF Cancel, poller, fanout, scheds
<1>11. CASE UNCHANGED vars BY <1>11 DEF vars, poller, fanout, scheds
<1>12. QED
  BY <1>1, <1>2, <1>3, <1>4, <1>5, <1>6, <1>7, <1>8, <1>9, <1>10, <1>11
     DEF Next, PollerStep, FanStep, SchedulerStep, Terminated

\* Each place hands its configuration on before it takes the next.
LEMMA ChainStep ==
  ASSUME ConfigTyped, ConfigTyped', ChainInv, [Next]_vars
  PROVE  ChainInv'
<1> USE DEF ChainInv
<1>k. Known \subseteq Chans
  BY ChannelsAreNaturals
<1>1. CASE FetchOk
  BY <1>1 DEF FetchOk, PollerChain, FanChain, SchedulerChain, ConfigTyped, fanout, scheds
<1>2. CASE PollPush
  <2>1. PollerChain'
    BY <1>2 DEF PollPush, PollerChain, ConfigTyped, fanout
  <2>2. QED
    BY <1>2, <2>1 DEF PollPush, FanChain, SchedulerChain, fanout, scheds
<1>3. CASE PollStop
  BY <1>3 DEF PollStop, PollerChain, FanChain, SchedulerChain, fanout, scheds
<1>4. CASE FanTake
  <2>1. PICK v \in Nat : configCh = <<v>>
    BY <1>4 DEF FanTake, ConfigTyped, AtMostOne
  <2>2. fCfg' = v /\ configCh' = <<>> /\ fTo = {} /\ fTo' = Chans
    BY <1>4, <2>1 DEF FanTake, ConfigTyped
  <2>3. UNCHANGED <<fetched, pPc, ch, sPc, cfg, cancelled>>
    BY <1>4 DEF FanTake, poller, scheds
  <2>4. fCfg <= v /\ v <= fCfg + 1 /\ fCfg \in Nat
    BY <2>1 DEF PollerChain, ConfigTyped
  <2>5. PollerChain'
    BY <2>1, <2>2, <2>3 DEF PollerChain, ConfigTyped
  <2>6. FanChain'
    BY <2>2, <2>3, <2>4 DEF FanChain
  <2>7. SchedulerChain'
    BY <1>k, <2>2, <2>3, <2>4 DEF SchedulerChain, ConfigTyped
  <2>8. QED
    BY <2>5, <2>6, <2>7
<1>5. CASE FanSend
  <2> DEFINE m == Min(fTo)
  <2>1. fTo # {} /\ m \in fTo /\ m \in Chans
    BY <1>5, MinOfNaturals, ChannelsAreNaturals DEF FanSend, ConfigTyped
  <2>2. ch[m] = <<>> /\ ch' = [ch EXCEPT ![m] = <<fCfg>>] /\ fTo' = fTo \ {m}
    BY <1>5 DEF FanSend
  <2>3. UNCHANGED <<fetched, pPc, configCh, fCfg, sPc, cfg, cancelled>>
    BY <1>5 DEF FanSend, poller, scheds
  <2> HIDE DEF m
  <2>4. /\ ch'[m] = <<fCfg>>
        /\ \A c \in Chans : c # m => ch'[c] = ch[c]
    BY <2>1, <2>2 DEF ConfigTyped
  <2>5. PollerChain'
    BY <2>3 DEF PollerChain
  <2>6. FanChain'
    BY <2>1, <2>2, <2>3, <2>4 DEF FanChain, ConfigTyped
  <2>7. SchedulerChain'
    BY <1>k, <2>1, <2>2, <2>3, <2>4 DEF SchedulerChain, ConfigTyped
  <2>8. QED
    BY <2>5, <2>6, <2>7
<1>6. CASE FanStop
  BY <1>6 DEF FanStop, PollerChain, FanChain, SchedulerChain, poller, scheds
<1>7. ASSUME NEW s \in Known, TakeConfig(s) PROVE ChainInv'
  <2>1. s \in Chans
    BY <1>k
  <2>2. PICK v \in Nat : ch[s] = <<v>>
    BY <1>7, <2>1 DEF TakeConfig, ConfigTyped, AtMostOne
  <2>3. cfg' = [cfg EXCEPT ![s] = v] /\ ch' = [ch EXCEPT ![s] = <<>>]
    BY <1>7, <2>2 DEF TakeConfig
  <2>4. UNCHANGED <<fetched, pPc, configCh, fPc, fCfg, fTo, cancelled>>
    BY <1>7 DEF TakeConfig, poller, fanout
  <2>5. /\ cfg'[s] = v /\ ch'[s] = <<>>
        /\ \A c \in Chans : c # s => ch'[c] = ch[c]
        /\ \A t \in Known : t # s => cfg'[t] = cfg[t]
    BY <2>1, <2>3 DEF ConfigTyped
  <2>6. PollerChain'
    BY <2>4 DEF PollerChain
  <2>7. FanChain'
    <3> SUFFICES ASSUME NEW c \in Chans, NEW w \in Nat, ch'[c] = <<w>>
                 PROVE  /\ w <= fCfg /\ fCfg <= w + 1
                        /\ c \notin fTo => w = fCfg
      BY <2>4 DEF FanChain
    <3>1. <<>> # <<w>>
      OBVIOUS
    <3>2. c # s /\ ch[c] = <<w>>
      BY <2>5, <3>1
    <3>3. FanChain
      OBVIOUS
    <3>4. QED
      BY <3>2, <3>3 DEF FanChain
  <2>8. v <= fCfg /\ fCfg <= v + 1 /\ (s \notin fTo => v = fCfg)
    BY <2>1, <2>2 DEF FanChain
  <2>9. SchedulerChain'
    <3> SUFFICES ASSUME NEW t \in Known
                 PROVE  /\ \A w \in Nat : ch'[t] = <<w>> => cfg'[t] <= w /\ w <= cfg'[t] + 1
                        /\ ch'[t] = <<>> =>
                             /\ cfg'[t] <= fCfg /\ fCfg <= cfg'[t] + 1
                             /\ t \notin fTo => cfg'[t] = fCfg
      BY <2>4 DEF SchedulerChain
    <3>1. CASE t = s
      <4>1. \A w \in Nat : <<>> # <<w>>
        OBVIOUS
      <4>2. cfg'[t] = v /\ ch'[t] = <<>> /\ (t \notin fTo => v = fCfg)
        BY <2>5, <2>8, <3>1
      <4>3. QED
        BY <2>8, <4>1, <4>2
    <3>2. CASE t # s
      BY <1>k, <2>5, <3>2 DEF SchedulerChain
    <3>3. QED
      BY <3>1, <3>2
  <2>10. QED
    BY <2>6, <2>7, <2>9
<1>8. ASSUME NEW s \in Known, BeginProbe(s) \/ EndProbe(s) \/ Stop(s)
      PROVE  ChainInv'
  <2>1. UNCHANGED <<fetched, pPc, configCh, fCfg, fTo, ch, cfg>>
    BY <1>8 DEF BeginProbe, EndProbe, Stop, poller, fanout
  <2>2. QED
    BY <2>1 DEF PollerChain, FanChain, SchedulerChain
<1>9. CASE Cancel \/ UNCHANGED vars
  BY <1>9 DEF Cancel, vars, PollerChain, FanChain, SchedulerChain, poller, fanout, scheds
<1>10. QED
  BY <1>1, <1>2, <1>3, <1>4, <1>5, <1>6, <1>7, <1>8, <1>9
     DEF Next, PollerStep, FetchFail, FanStep, SchedulerStep, Terminated

\* The chain holds from the start, when every place has the configuration the
\* process was started with.
THEOREM ChainInvariant == Spec => [](ConfigTyped /\ ChainInv)
<1>1. Init => ConfigTyped /\ ChainInv
  <2> SUFFICES ASSUME Init PROVE ConfigTyped /\ ChainInv
    OBVIOUS
  <2>1. ConfigTyped
    BY ConfigAssumption DEF Init, ConfigTyped, AtMostOne
  <2>2. PollerChain
    BY DEF Init, PollerChain
  <2>3. FanChain
    BY DEF Init, FanChain
  <2>4. SchedulerChain
    BY ChannelsAreNaturals DEF Init, SchedulerChain
  <2>5. QED
    BY <2>1, <2>2, <2>3, <2>4 DEF ChainInv
<1>2. ConfigTyped /\ ChainInv /\ [Next]_vars => ConfigTyped' /\ ChainInv'
  BY ConfigTypedStep, ChainStep
<1>3. QED
  BY <1>1, <1>2, PTL DEF Spec

\* However long a scheduler's probe takes, and however many measurements there
\* are, it is never more than four refreshes behind: the poller and the fan-out
\* wait for it (agent.go 383-403, 728).
THEOREM LagBounded == Spec => []BoundedLag
<1>1. ConfigTyped /\ ChainInv => BoundedLag
  <2> SUFFICES ASSUME ConfigTyped, ChainInv, NEW s \in Known
               PROVE  fetched <= cfg[s] + 4
    BY DEF BoundedLag
  <2>1. s \in Chans /\ cfg[s] \in Nat /\ fetched \in Nat /\ fCfg \in Nat
    BY ChannelsAreNaturals DEF ConfigTyped
  <2>2. fetched <= fCfg + 2
    <3>1. CASE configCh = <<>>
      BY <2>1, <3>1 DEF ChainInv, PollerChain
    <3>2. CASE configCh # <<>>
      <4>1. PICK v \in Nat : configCh = <<v>>
        BY <3>2 DEF ConfigTyped, AtMostOne
      <4>2. QED
        BY <2>1, <4>1 DEF ChainInv, PollerChain
    <3>3. QED
      BY <3>1, <3>2
  <2>3. fCfg <= cfg[s] + 2
    <3>1. CASE ch[s] = <<>>
      BY <2>1, <3>1 DEF ChainInv, SchedulerChain
    <3>2. CASE ch[s] # <<>>
      <4>1. PICK v \in Nat : ch[s] = <<v>>
        BY <2>1, <3>2 DEF ConfigTyped, AtMostOne
      <4>2. fCfg <= v + 1 /\ v <= cfg[s] + 1
        BY <2>1, <4>1 DEF ChainInv, FanChain, SchedulerChain
      <4>3. QED
        BY <2>1, <4>2
    <3>3. QED
      BY <3>1, <3>2
  <2>4. QED
    BY <2>1, <2>2, <2>3
<1>2. QED
  BY <1>1, ChainInvariant, PTL

\* No scheduler ever takes a configuration older than the one it uses,
\* however the refreshes overtake its probes.
THEOREM NeverGoesBack == Spec => NeverOlder
<1>1. ConfigTyped /\ ChainInv /\ [Next]_vars
      => [\A s \in Known : cfg'[s] >= cfg[s]]_vars
  <2> SUFFICES ASSUME ConfigTyped, ChainInv, Next, NEW t \in Known
               PROVE  cfg'[t] >= cfg[t]
    OBVIOUS
  <2>1. cfg[t] \in Nat
    BY DEF ConfigTyped
  <2>2. ASSUME NEW s \in Known, TakeConfig(s) PROVE cfg'[t] >= cfg[t]
    <3>1. s \in Chans
      BY ChannelsAreNaturals
    <3>2. PICK v \in Nat : ch[s] = <<v>>
      BY <2>2, <3>1 DEF TakeConfig, ConfigTyped, AtMostOne
    <3>3. cfg' = [cfg EXCEPT ![s] = v]
      BY <2>2, <3>2 DEF TakeConfig
    <3>4. v >= cfg[s]
      BY <3>2 DEF ChainInv, SchedulerChain, ConfigTyped
    <3>5. QED
      BY <2>1, <3>3, <3>4 DEF ConfigTyped
  <2>3. ASSUME UNCHANGED cfg PROVE cfg'[t] >= cfg[t]
    BY <2>1, <2>3
  <2>4. ASSUME NEW s \in Known, BeginProbe(s) \/ EndProbe(s) \/ Stop(s)
        PROVE  UNCHANGED cfg
    BY <2>4 DEF BeginProbe, EndProbe, Stop
  <2>5. PollerStep \/ FanStep \/ Cancel \/ Terminated => UNCHANGED cfg
    BY DEF PollerStep, FetchOk, FetchFail, PollPush, PollStop, FanStep, FanTake,
           FanSend, FanStop, Cancel, Terminated, vars, scheds
  <2>6. QED
    BY <2>2, <2>3, <2>4, <2>5 DEF Next, SchedulerStep
<1>2. QED
  BY <1>1, ChainInvariant, PTL DEF Spec, NeverOlder

=============================================================================
