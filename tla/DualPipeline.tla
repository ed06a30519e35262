---------------------------- MODULE DualPipeline ----------------------------
(***************************************************************************)
(* The dual mode of exporter.go: a scheduler pushes results to             *)
(* schedulerOut, a dispatcher offers each of them to the Prometheus        *)
(* consumer (resultsCh) and to the InfluxDB writer (influxCh), and never   *)
(* waits for either.  The three channels have the same capacity.           *)
(*                                                                         *)
(* chan and closed of InfluxWriter are influxCh.  The results are          *)
(* numbered in the order one scheduler measures them; AgentPipeline has    *)
(* several schedulers, and the results that are hidden.                    *)
(* The prefix Dual marks the names that AgentPipeline has as well.         *)
(***************************************************************************)
EXTENDS InfluxWriter

ASSUME DualAssumption == IsFiniteSet(Results) /\ Results = 1 .. Cardinality(Results)

VARIABLES
  schedulerPc,  \* where the scheduler is
  next,         \* the last result it measured
  out,          \* schedulerOut
  dPc, held,    \* the dispatcher, and the result it holds
  prom,         \* resultsCh
  promClosed,   \* resultsCh is closed
  pPc, shown,   \* the Prometheus consumer, and the last result it stored
  toProm, toInflux \* what the dispatcher got into either channel

scheduler == <<schedulerPc, next>>
dvars == <<dPc, held, toProm, toInflux>>
pvars == <<pPc, shown>>
dualVars == <<writervars, scheduler, out, dvars, prom, promClosed, pvars>>

DualInit ==
  /\ WriterInit
  /\ schedulerPc = "select" /\ next = 0
  /\ out = <<>>
  /\ dPc = "select" /\ held = 0
  /\ prom = <<>> /\ promClosed = FALSE
  /\ pPc = "select" /\ shown = 0
  /\ toProm = {} /\ toInflux = {}

(***************************************************************************)
(* The scheduler, with localStore nil.                                     *)
(***************************************************************************)
DualProbe ==
  /\ schedulerPc = "select" /\ next + 1 \in Results
  /\ next' = next + 1 /\ schedulerPc' = "push"
  /\ UNCHANGED <<writervars, out, dvars, prom, promClosed, pvars>>

DualPush ==
  /\ schedulerPc = "push" /\ Len(out) < ChanCap
  /\ out' = Append(out, next)
  /\ schedulerPc' = "select"
  /\ UNCHANGED <<writervars, next, dvars, prom, promClosed, pvars>>

\* Mutation: a scheduler that waits for room does not watch the context.
DualPushCutNever == FALSE /\ UNCHANGED dualVars

DualPushCut ==
  /\ schedulerPc = "push" /\ cancelled
  /\ schedulerPc' = "select"
  /\ UNCHANGED <<writervars, next, out, dvars, prom, promClosed, pvars>>

DualStop ==
  /\ schedulerPc = "select" /\ cancelled
  /\ schedulerPc' = "exited"
  /\ UNCHANGED <<writervars, next, out, dvars, prom, promClosed, pvars>>

(***************************************************************************)
(* The dispatcher.                                                         *)
(***************************************************************************)
Take ==
  /\ dPc = "select" /\ out # <<>>
  /\ held' = Head(out) /\ out' = Tail(out)
  /\ dPc' = "prom"
  /\ UNCHANGED <<writervars, scheduler, toProm, toInflux, prom, promClosed, pvars>>

\* To resultsCh if it has room.
ToProm ==
  /\ dPc = "prom" /\ dPc' = "influx"
  /\ \/ /\ Len(prom) < ChanCap
        /\ prom' = Append(prom, held) /\ toProm' = toProm \cup {held}
     \/ Len(prom) = ChanCap /\ UNCHANGED <<prom, toProm>>
  /\ UNCHANGED <<writervars, scheduler, out, held, toInflux, promClosed, pvars>>

\* Mutation: the dispatcher waits for room in influxCh.
ToInfluxWaits ==
  /\ dPc = "influx" /\ dPc' = "select"
  /\ Offer(held) /\ toInflux' = toInflux \cup {held}
  /\ UNCHANGED <<cancelled, wvars, scheduler, out, held, toProm, prom, promClosed, pvars>>

\* To influxCh if it has room.
ToInflux ==
  /\ dPc = "influx" /\ dPc' = "select"
  /\ \/ Offer(held) /\ toInflux' = toInflux \cup {held}
     \/ ~Room /\ UNCHANGED <<chvars, toInflux>>
  /\ UNCHANGED <<cancelled, wvars, scheduler, out, held, toProm, prom, promClosed, pvars>>

\* Mutation: the channel is closed and the loop goes on.
CloseInfluxGoesOn ==
  /\ dPc = "select" /\ cancelled
  /\ CloseChan
  /\ dPc' \in {"select", "closing"}
  /\ UNCHANGED <<cancelled, wvars, scheduler, out, held, toProm, toInflux, prom, promClosed,
                 pvars>>

\* ctx.Done: the deferred calls close influxCh, then resultsCh.
CloseInflux ==
  /\ dPc = "select" /\ cancelled
  /\ CloseChan
  /\ dPc' = "closing"
  /\ UNCHANGED <<cancelled, wvars, scheduler, out, held, toProm, toInflux, prom, promClosed,
                 pvars>>

CloseProm ==
  /\ dPc = "closing"
  /\ promClosed' = TRUE
  /\ dPc' = "exited"
  /\ UNCHANGED <<writervars, scheduler, out, held, toProm, toInflux, prom, pvars>>

(***************************************************************************)
(* The Prometheus consumer.                                                *)
(***************************************************************************)
Update ==
  /\ pPc = "select" /\ prom # <<>>
  /\ shown' = Head(prom) /\ prom' = Tail(prom)
  /\ UNCHANGED <<writervars, scheduler, out, dvars, promClosed, pPc>>

PromEnd ==
  /\ pPc = "select"
  /\ cancelled \/ (promClosed /\ prom = <<>>)
  /\ pPc' = "exited"
  /\ UNCHANGED <<writervars, scheduler, out, dvars, prom, promClosed, shown>>

DualSchedulerStep == DualProbe \/ DualPush \/ DualPushCut \/ DualStop
DispatcherStep == Take \/ ToProm \/ ToInflux \/ CloseInflux \/ CloseProm
PromStep == Update \/ PromEnd
Rest == UNCHANGED <<scheduler, out, dvars, prom, promClosed, pvars>>

DualAllExited == {wPc, schedulerPc, dPc, pPc} = {"exited"}
DualTerminated == DualAllExited /\ UNCHANGED dualVars

DualNext ==
  \/ DualSchedulerStep \/ DispatcherStep \/ PromStep
  \/ WriterStep /\ Rest
  \/ Cancel /\ Rest
  \/ DualTerminated

DualSpec == DualInit /\ [][DualNext]_dualVars

\* The Go scheduler runs the goroutines of the probes, and a select that keeps
\* finding ctx.Done ready chooses it in the end.
ProbeFairness ==
  /\ WF_dualVars(DualSchedulerStep) /\ SF_dualVars(DualStop)
  /\ WF_dualVars(DispatcherStep) /\ SF_dualVars(CloseInflux)
  /\ WF_dualVars(PromStep) /\ SF_dualVars(PromEnd)

\* Nothing is assumed of the writer: a request may hang.
DualFairSpec == DualSpec /\ ProbeFairness

\* What the shutdown needs of it.
RequestsEnd == WF_dualVars(WriterStep /\ Rest) /\ SF_dualVars(SeeCancel /\ Rest)

(***************************************************************************)
(* Properties.                                                             *)
(***************************************************************************)

\* The dispatcher holds no result when it has closed a channel: nobody sends
\* on a closed channel (exporter.go 300-318).
NoSendOnClosed ==
  closed \/ promClosed => dPc \notin {"prom", "influx"}

\* Every result the writer was handed is in its channel, in its hands, in
\* InfluxDB or in a write it gave up, also when the channel was closed before
\* it was empty.
InfluxKeeps ==
  toInflux \subseteq
    Elems(chan) \cup InHand \cup posted \cup dropped

\* The dispatcher found resultsCh full.
NotForProm(r) ==
  held >= r /\ r \notin toProm /\ ~(held = r /\ dPc = "prom")

\* A hung InfluxDB holds nobody up, although its writer takes nothing from its
\* channel: a scheduler that waits for room gets it, and the metrics show every
\* result that is measured, or a newer one, unless the dispatcher found
\* resultsCh full (exporter.go 297-320).
NotHeldByInflux ==
  /\ schedulerPc = "push" ~> schedulerPc # "push"
  /\ \A r \in Results : next >= r ~> (shown >= r \/ NotForProm(r) \/ cancelled)

\* The shutdown ends, wg.Wait returns, if every request does, by its answer or
\* by its timeout of 10 s.
DualShutdownEnds == RequestsEnd => (cancelled ~> DualAllExited)

=============================================================================
