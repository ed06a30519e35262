---------------------------- MODULE AgentPipeline ----------------------------
(***************************************************************************)
(* The results of agent mode on their way upstream (runAgent and           *)
(* runMeasurerScheduler of agent.go): schedulers that measure and push     *)
(* results to resultsCh, the InfluxDB writer that consumes it, the local   *)
(* store that each result is appended to after the push, and the goroutine *)
(* that replays the store to InfluxDB every 30 s.                          *)
(*                                                                         *)
(* A record of the store is the number of the Append call that wrote it.   *)
(* An operation on the store that fails may take any of the records it     *)
(* holds; LocalStore models the file, says which, and has the crashes.     *)
(* Append waits for the mutex while a replay, with its HTTP requests, is   *)
(* under way.                                                              *)
(***************************************************************************)
EXTENDS InfluxWriter

CONSTANTS
  Schedulers, \* one for each measurement of the configuration
  Owner,      \* Owner[r]: the scheduler that measures result r
  Skipped,    \* the results tagged skipped=true
  HideSkipped,\* cfg.HideSkipped
  StoreOn,    \* whether the local store is enabled
  StoreCap,   \* its cap, max_lines of the configuration
  MaxFaults   \* bound: operations on the store that fail

ASSUME PipelineAssumption ==
  /\ Owner \in [Results -> Schedulers]
  /\ Skipped \subseteq Results
  /\ HideSkipped \in BOOLEAN /\ StoreOn \in BOOLEAN
  /\ StoreCap \in Nat \ {0} /\ MaxFaults \in Nat

VARIABLES
  sPc,      \* where each scheduler is
  cur,      \* the result a scheduler works on
  measured, \* the results measured so far
  pushed,   \* the results that went into the channel
  appends,  \* the results that Append was called with, in that order
  kept,     \* the Append calls whose lines are in the store
  whole,    \* those of them whose lines decode
  faults,   \* the operations on the store that have failed
  faultAt,  \* the last Append call whose record one of them can have taken
  fPc       \* where the replay goroutine is

svars == <<sPc, cur, measured, pushed>>
records == <<kept, whole>>
store == <<appends, records, faults, faultAt>>
vars == <<writervars, svars, store, fPc>>

Init ==
  /\ WriterInit
  /\ sPc = [s \in Schedulers |-> "select"]
  /\ cur = [s \in Schedulers |-> CHOOSE r \in Results : TRUE]
  /\ measured = {} /\ pushed = {}
  /\ appends = <<>> /\ kept = {} /\ whole = {}
  /\ faults = 0 /\ faultAt = 0
  /\ fPc = IF StoreOn THEN "select" ELSE "exited"

(***************************************************************************)
(* A scheduler.                                                            *)
(***************************************************************************)
Go(s, where) == sPc' = [sPc EXCEPT ![s] = where]

\* The ticker fires, and m.Run returns a result; a hidden one is skipped.
Probe(s) ==
  /\ sPc[s] = "select"
  /\ \E r \in Results \ measured :
        /\ Owner[r] = s
        /\ measured' = measured \cup {r}
        /\ \/ HideSkipped /\ r \in Skipped /\ UNCHANGED <<sPc, cur>>
           \/ /\ ~(HideSkipped /\ r \in Skipped)
              /\ cur' = [cur EXCEPT ![s] = r]
              /\ Go(s, "push")
  /\ UNCHANGED <<writervars, pushed, store, fPc>>

\* results <- r, which waits for room.
Push(s) ==
  /\ sPc[s] = "push"
  /\ Offer(cur[s])
  /\ pushed' = pushed \cup {cur[s]}
  /\ Go(s, IF StoreOn THEN "store" ELSE "select")
  /\ UNCHANGED <<cancelled, wvars, cur, measured, store, fPc>>

\* Mutation: a scheduler that waits for room does not watch the context.
PushCutNever(s) == FALSE /\ UNCHANGED vars

\* ctx.Done is chosen instead: the result is gone.
PushCut(s) ==
  /\ sPc[s] = "push" /\ cancelled
  /\ Go(s, "select")
  /\ UNCHANGED <<writervars, cur, measured, pushed, store, fPc>>

\* Mutation: the cap keeps one line less than max_lines.
NewestFewer(S) == {n \in S : Cardinality({k \in S : k > n}) < StoreCap - 1}

\* enforceCap: the newest lines stay.
Newest(S) == {n \in S : Cardinality({k \in S : k > n}) < StoreCap}

\* The last of these lines, if there are any.
LastOf(S) == {n \in S : \A k \in S : k <= n}

\* localStore.Append is called, which waits for the mutex.
Appends(s) ==
  /\ sPc[s] = "store" /\ fPc # "replay"
  /\ appends' = Append(appends, cur[s])
  /\ Go(s, "select")
  /\ UNCHANGED <<writervars, cur, measured, pushed, fPc>>

\* A call that failed may have left a line without a newline, which becomes one
\* with the next line, and decodes to nothing.
MayBeTorn == faultAt = Len(appends) /\ kept # {}

\* The line is written, and the cap enforced.
Store(s) ==
  /\ Appends(s)
  /\ \/ /\ kept' = Newest(kept \cup {Len(appends')})
        /\ whole' = kept' \cap (whole \cup {Len(appends')})
        /\ UNCHANGED faultAt
     \/ /\ MayBeTorn
        /\ kept' = Newest((kept \ LastOf(kept)) \cup {Len(appends')})
        /\ whole' = kept' \cap whole
        /\ faultAt' = Len(appends')
  /\ UNCHANGED faults

Fault == faults < MaxFaults /\ faults' = faults + 1

\* An operation fails within Append; the error, if Append returns one, is logged
\* and passed over.  The line is not written, or torn; or the lines that the cap
\* leaves are read or written back in part.  The last line may be cut short.
StoreFails(s) ==
  /\ Appends(s) /\ Fault
  /\ kept' \in SUBSET (kept \cup {Len(appends')})
  /\ \E cut \in {{}, LastOf(kept')} :
        whole' = (kept' \cap (whole \cup {Len(appends')})) \ cut
  /\ faultAt' = Len(appends')

Stop(s) ==
  /\ sPc[s] = "select" /\ cancelled
  /\ Go(s, "exited")
  /\ UNCHANGED <<writervars, cur, measured, pushed, store, fPc>>

(***************************************************************************)
(* The replay goroutine.                                                   *)
(***************************************************************************)

\* A tick that the select prefers to ctx.Done begins a replay that ends at its
\* first record; it is left out.
ReplayBegin ==
  /\ fPc = "select" /\ ~cancelled
  /\ fPc' = "replay"
  /\ UNCHANGED <<writervars, svars, store>>

Clear == kept' = {} /\ whole' = {}

\* The records in these lines are posted, and Flush returns.
Replay(lines) ==
  /\ fPc = "replay"
  /\ posted' = posted \cup {appends[n] : n \in lines}
  /\ fPc' = "select"
  /\ UNCHANGED <<chvars, cancelled, wPc, batch, body, attempt, live, after, dropped, svars,
                 appends>>

\* Every batch is posted and the store is cleared.
ReplayOk == Replay(whole) /\ Clear /\ UNCHANGED <<faults, faultAt>>

\* Mutation: the store is cleared although a batch failed.
ReplayFailClears ==
  /\ \E sent \in SUBSET whole : Replay(sent)
  /\ Clear /\ UNCHANGED <<faults, faultAt>>

\* A batch is given up, ctx.Done noticed before a line, or Seek or Truncate
\* fails; the store stays as it is, but batches may have been posted.
ReplayFail ==
  /\ \E sent \in SUBSET whole : Replay(sent)
  /\ UNCHANGED <<records, faults, faultAt>>

\* A read error passes for the end of the file: the lines before it are posted,
\* and the store is cleared.
ReplayMisses ==
  /\ kept # {} /\ Fault
  /\ \E sent \in SUBSET whole : Replay(sent)
  /\ Clear /\ faultAt' = Len(appends)

\* The select finds ctx.Done.
ReplayStop ==
  /\ fPc = "select" /\ cancelled
  /\ fPc' = "exited"
  /\ UNCHANGED <<writervars, svars, store>>

SchedulerStep(s) ==
  Probe(s) \/ Push(s) \/ PushCut(s) \/ Store(s) \/ StoreFails(s) \/ Stop(s)
ReplayStep == ReplayBegin \/ ReplayOk \/ ReplayFail \/ ReplayMisses \/ ReplayStop
Writer == WriterStep /\ UNCHANGED <<svars, store, fPc>>

AllExited ==
  /\ wPc = "exited" /\ fPc = "exited"
  /\ \A s \in Schedulers : sPc[s] = "exited"

\* Every goroutine has called wg.Done.
Terminated == AllExited /\ UNCHANGED vars

Next ==
  \/ \E s \in Schedulers : SchedulerStep(s)
  \/ ReplayStep \/ Writer
  \/ Cancel /\ UNCHANGED <<svars, store, fPc>>
  \/ Terminated

Spec == Init /\ [][Next]_vars

\* The Go scheduler runs every goroutine, and a sync.Mutex starves nobody.
\* InfluxDB does not refuse every replay.  Nothing is asked of the selects: once
\* the context is cancelled a goroutine finds ctx.Done alone when the results,
\* which are finitely many, are used up.
FairSpec ==
  /\ Spec
  /\ \A s \in Schedulers : WF_vars(SchedulerStep(s))
  /\ SF_vars(\E s \in Schedulers : Store(s))
  /\ WF_vars(Writer)
  /\ WF_vars(ReplayStep) /\ SF_vars(ReplayOk)

(***************************************************************************)
(* Properties.                                                             *)
(***************************************************************************)

\* A result that was pushed is in the channel, in the writer's hands, in
\* InfluxDB, or in a write that was given up; it is never in two places of
\* the pipeline (influx.go 183-231).
PipelineKeeps ==
  /\ pushed \subseteq Elems(chan) \cup InHand \cup posted \cup dropped
  /\ LET line == body \o batch \o chan IN Cardinality(Elems(line)) = Len(line)

\* The record of this Append call was pushed out by the cap, or an operation
\* that failed in this call, a later one or a replay since can have taken it.
Taken(n) == n + StoreCap <= Len(appends) \/ n <= faultAt

\* With the store enabled, whatever was pushed is in InfluxDB, or about to be
\* appended, or a whole line of the store, unless the newest StoreCap Append
\* calls are others, or an operation on the store has failed: a write that is
\* given up, a replay that is refused, the shutdown, and a push into the channel
\* after the writer has ended lose nothing (agent.go 540-567 and 701-710,
\* store.go 31-116).
StoreBacksUp ==
  StoreOn =>
    \A r \in pushed :
      \/ r \in posted
      \/ \E s \in Schedulers : sPc[s] = "store" /\ cur[s] = r
      \/ \E n \in 1 .. Len(appends) : appends[n] = r /\ (n \in whole \/ Taken(n))

\* The shutdown ends: wg.Wait returns, whoever was blocked on whom.
ShutdownEnds == cancelled ~> AllExited

\* With the store enabled a pushed result reaches InfluxDB although the
\* writer gave its write up, unless the agent is stopped first, or the cap or
\* an operation on the store that failed has taken its record.
EventuallyPosted ==
  \A r \in Results :
    r \in pushed ~>
      (\/ r \in posted \/ cancelled
       \/ \E n \in 1 .. Len(appends) : appends[n] = r /\ Taken(n))

=============================================================================
