---------------------------- MODULE InfluxWriter ----------------------------
(***************************************************************************)
(* InfluxWriter.runResults and InfluxWriter.write of influx.go: the one    *)
(* consumer of a bounded channel of results, which it batches and posts    *)
(* with retries, and drains once more when its context is cancelled.       *)
(*                                                                         *)
(* The module has no producer: AgentPipeline and DualPipeline compose it   *)
(* with theirs, through Offer and CloseChan.  A result is a model value or *)
(* a number; posted is a set because InfluxDB overwrites a point that is   *)
(* written twice.                                                          *)
(***************************************************************************)
EXTENDS Naturals, Sequences, FiniteSets

CONSTANTS
  Results,  \* the results that may be produced
  ChanCap,  \* the capacity of the channel, 200 in the code
  MaxBatch, \* 100 in the code
  Attempts  \* the attempts of write, 3 in the code

ASSUME WriterAssumption ==
  /\ ChanCap \in Nat \ {0}
  /\ MaxBatch \in Nat \ {0}
  /\ Attempts \in Nat \ {0}

VARIABLES
  chan,      \* the channel
  closed,    \* the channel was closed
  cancelled, \* the context of the process was cancelled
  wPc,       \* where the writer is
  batch,     \* the lines gathered for the next flush
  body,      \* the lines write is posting
  attempt,   \* the failed attempts of this write
  live,      \* the request was started under a context still alive
  after,     \* what follows the write: "loop", or "exited"
  posted,    \* the results InfluxDB has
  dropped    \* the results of writes that were given up

wvars == <<wPc, batch, body, attempt, live, after, posted, dropped>>
chvars == <<chan, closed>>
writervars == <<chan, closed, cancelled, wPc, batch, body, attempt, live, after,
                posted, dropped>>

WriterInit ==
  /\ chan = <<>> /\ closed = FALSE /\ cancelled = FALSE
  /\ wPc = "loop" /\ batch = <<>> /\ body = <<>>
  /\ attempt = 0 /\ live = TRUE /\ after = "loop"
  /\ posted = {} /\ dropped = {}

Elems(s) == {s[i] : i \in 1 .. Len(s)}

(***************************************************************************)
(* The channel, as its producers use it.                                   *)
(***************************************************************************)
Room == Len(chan) < ChanCap

Offer(r) ==
  /\ Room /\ ~closed
  /\ chan' = Append(chan, r)
  /\ UNCHANGED closed

CloseChan == closed' = TRUE /\ UNCHANGED chan

\* SIGINT or SIGTERM: the context is cancelled.
Cancel ==
  /\ ~cancelled
  /\ cancelled' = TRUE
  /\ UNCHANGED <<chvars, wvars>>

(***************************************************************************)
(* runResults.                                                             *)
(***************************************************************************)

\* Mutation: the batch is not emptied when it is handed to write.
FlushKeeps(lines, next) ==
  /\ body' = lines /\ batch' = lines
  /\ attempt' = 0 /\ live' = ~cancelled /\ after' = next
  /\ wPc' = "post"

\* flush: the batch is emptied before write is called with its lines.
Flush(lines, next) ==
  /\ body' = lines /\ batch' = <<>>
  /\ attempt' = 0 /\ live' = ~cancelled /\ after' = next
  /\ wPc' = "post"

\* A result is received; a full batch is flushed.
Receive ==
  /\ wPc = "loop" /\ chan # <<>>
  /\ chan' = Tail(chan) /\ UNCHANGED closed
  /\ LET b == Append(batch, Head(chan)) IN
       \/ /\ Len(b) >= MaxBatch
          /\ Flush(b, "loop")
       \/ /\ Len(b) < MaxBatch
          /\ batch' = b
          /\ UNCHANGED <<wPc, body, attempt, live, after>>
  /\ UNCHANGED <<cancelled, posted, dropped>>

\* The 10 s ticker.
FlushTick ==
  /\ wPc = "loop" /\ batch # <<>>
  /\ Flush(batch, "loop")
  /\ UNCHANGED <<chvars, cancelled, posted, dropped>>

\* Mutation: the lines gathered so far are not flushed.
ReceiveClosedForgets ==
  /\ wPc = "loop" /\ closed /\ chan = <<>>
  /\ wPc' = "exited"
  /\ UNCHANGED <<chvars, cancelled, batch, body, attempt, live, after, posted, dropped>>

\* The channel is closed and empty: flush, under the context as it is.
ReceiveClosed ==
  /\ wPc = "loop" /\ closed /\ chan = <<>>
  /\ \/ batch = <<>> /\ wPc' = "exited"
        /\ UNCHANGED <<batch, body, attempt, live, after>>
     \/ batch # <<>> /\ Flush(batch, "exited")
  /\ UNCHANGED <<chvars, cancelled, posted, dropped>>

\* ctx.Done is chosen by the select.
SeeCancel ==
  /\ wPc = "loop" /\ cancelled
  /\ wPc' = "drain"
  /\ UNCHANGED <<chvars, cancelled, batch, body, attempt, live, after, posted, dropped>>

DrainTake ==
  /\ wPc = "drain" /\ chan # <<>>
  /\ batch' = Append(batch, Head(chan))
  /\ chan' = Tail(chan) /\ UNCHANGED closed
  /\ UNCHANGED <<cancelled, wPc, body, attempt, live, after, posted, dropped>>

\* The channel is empty for a moment: the rest is posted under a fresh
\* context of 15 s.
DrainDone ==
  /\ wPc = "drain" /\ chan = <<>>
  /\ \/ /\ batch = <<>> /\ wPc' = "exited"
        /\ UNCHANGED <<batch, body, attempt, live, after>>
     \/ /\ batch # <<>>
        /\ wPc' = "post" /\ body' = batch /\ batch' = <<>>
        /\ attempt' = 0 /\ live' = TRUE /\ after' = "final"
  /\ UNCHANGED <<chvars, cancelled, posted, dropped>>

(***************************************************************************)
(* write.  `after` tells the context it runs under: the one that may be    *)
(* cancelled, or ("final") the one that may expire.                        *)
(***************************************************************************)
ContextEnded == IF after = "final" THEN TRUE ELSE cancelled

Leave ==
  /\ wPc' = IF after = "loop" THEN "loop" ELSE "exited"
  /\ body' = <<>> /\ attempt' = 0 /\ live' = TRUE /\ after' = "loop"
  /\ UNCHANGED batch

GiveUp == Leave /\ dropped' = dropped \cup Elems(body)

\* 204: the lines are in InfluxDB.
PostOk ==
  /\ wPc = "post" /\ live
  /\ posted' = posted \cup Elems(body)
  /\ Leave
  /\ UNCHANGED <<chvars, cancelled, dropped>>

\* The request fails, or its answer is lost after the lines were stored.
PostFail ==
  /\ wPc = "post"
  /\ UNCHANGED posted \/ (live /\ posted' = posted \cup Elems(body))
  /\ \/ /\ attempt + 1 < Attempts
        /\ attempt' = attempt + 1 /\ wPc' = "backoff"
        /\ UNCHANGED <<batch, body, live, after, dropped>>
     \/ attempt + 1 = Attempts /\ GiveUp
  /\ UNCHANGED <<chvars, cancelled>>

\* The request cannot be built: write returns at once.
PostUnbuilt ==
  /\ wPc = "post"
  /\ GiveUp
  /\ UNCHANGED <<chvars, cancelled, posted>>

\* The wait of 2 or 4 seconds is over.
Retry ==
  /\ wPc = "backoff"
  /\ wPc' = "post"
  /\ live' = (after = "final" \/ ~cancelled)
  /\ UNCHANGED <<chvars, cancelled, batch, body, attempt, after, posted, dropped>>

\* The context ends during the wait: the batch is given up.
BackoffCut ==
  /\ wPc = "backoff" /\ ContextEnded
  /\ GiveUp
  /\ UNCHANGED <<chvars, cancelled, posted>>

WriterStep ==
  \/ Receive \/ FlushTick \/ ReceiveClosed \/ SeeCancel \/ DrainTake
  \/ DrainDone \/ PostOk \/ PostFail \/ PostUnbuilt \/ Retry \/ BackoffCut

\* What the writer holds while it runs.
InHand == IF wPc = "exited" THEN {} ELSE Elems(batch) \cup Elems(body)

=============================================================================
