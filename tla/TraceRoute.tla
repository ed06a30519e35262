------------------------------ MODULE TraceRoute ------------------------------
(***************************************************************************)
(* TraceMeasurer of trace.go: echo requests with a TTL (or hop limit) that *)
(* grows by one, and the answers of the routers and of the destination.    *)
(* traceV4 and traceV6 have the same control.                              *)
(*                                                                         *)
(* The raw socket delivers every ICMP message of the host, and the code    *)
(* looks at its sender only: "dst", or "router" for anybody else.  An      *)
(* answer may be lost, or delayed until a later probe waits for its own;   *)
(* noise counts the answers delayed and the messages to somebody else.     *)
(***************************************************************************)
EXTENDS Naturals, Sequences, FiniteSets

CONSTANTS
  MaxHops,   \* the largest cfg.MaxHops considered
  MaxProbes, \* the largest cfg.ProbesPerHop considered
  Distances, \* the hops the destination may be away
  MaxNoise   \* bound: delayed answers and foreign messages

ASSUME TraceAssumption ==
  /\ MaxHops \in Nat \ {0} /\ MaxProbes \in Nat \ {0}
  /\ Distances \subseteq Nat \ {0}
  /\ MaxNoise \in Nat

VARIABLES
  maxHops, probes, \* of the configuration
  distance,        \* of the destination
  pc,              \* "open", "hop", "probe", "await", "record", "done" or "skipped"
  ttl, probe,
  heard,           \* bestRTT >= 0: this hop has answered
  reachedDst,
  fields,          \* for each hop recorded, whether hop_<ttl>_rtt_ms is an RTT
  complete,        \* trace_complete: "unset", "yes" or "no"
  reached,         \* trace_hops
  queue, late, noise,
  lost,            \* an answer was lost, or a write failed
  cancelled

setting == <<maxHops, probes, distance>>
hop == <<ttl, probe, heard, reachedDst>>
result == <<fields, complete, reached>>
network == <<queue, late, noise, lost>>
vars == <<setting, pc, hop, result, network, cancelled>>

Init ==
  /\ maxHops \in 1 .. MaxHops /\ probes \in 1 .. MaxProbes
  /\ distance \in Distances
  /\ pc = "open"
  /\ ttl = 1 /\ probe = 0 /\ heard = FALSE /\ reachedDst = FALSE
  /\ fields = <<>> /\ complete = "unset" /\ reached = 0
  /\ queue = <<>> /\ late = <<>> /\ noise = 0 /\ lost = FALSE
  /\ cancelled = FALSE

\* Who answers a probe of this TTL.
Answer == IF ttl < distance THEN "router" ELSE "dst"

(***************************************************************************)
(* traceV4, traceV6.                                                       *)
(***************************************************************************)
OpenOk ==
  /\ pc = "open" /\ pc' = "hop"
  /\ UNCHANGED <<setting, hop, result, network, cancelled>>

\* No raw socket, or (traceV4) SetTTL fails: Run tags the result as skipped, with no
\* field but trace_hops = 0.
Fails ==
  /\ pc \in {"open", "hop"}
  /\ pc = "hop" => ttl <= maxHops
  /\ pc' = "skipped"
  /\ fields' = <<>> /\ complete' = "unset" /\ reached' = 0
  /\ UNCHANGED <<setting, hop, network, cancelled>>

\* The context is looked at once for each hop.  The result that is returned
\* has no trace_complete.
SeeCancel ==
  /\ pc = "hop" /\ ttl <= maxHops /\ cancelled
  /\ pc' = "done"
  /\ UNCHANGED <<setting, hop, result, network, cancelled>>

BeginHop ==
  /\ pc = "hop" /\ ttl <= maxHops /\ ~cancelled
  /\ pc' = "probe"
  /\ probe' = 0 /\ heard' = FALSE /\ reachedDst' = FALSE
  /\ UNCHANGED <<setting, ttl, result, network, cancelled>>

\* The last hop was probed: the destination did not answer.
HopsEnd ==
  /\ pc = "hop" /\ ttl > maxHops
  /\ complete' = "no" /\ pc' = "done"
  /\ UNCHANGED <<setting, hop, fields, reached, network, cancelled>>

WriteFails ==
  /\ pc = "probe" /\ probe < probes
  /\ probe' = probe + 1 /\ lost' = TRUE
  /\ UNCHANGED <<setting, pc, ttl, heard, reachedDst, result, queue, late, noise,
                 cancelled>>

Send ==
  /\ pc = "probe" /\ probe < probes
  /\ pc' = "await"
  /\ \/ queue' = Append(queue, Answer) /\ UNCHANGED <<late, noise, lost>>
     \/ lost' = TRUE /\ UNCHANGED <<queue, late, noise>>
     \/ /\ noise < MaxNoise /\ noise' = noise + 1
        /\ late' = Append(late, Answer)
        /\ UNCHANGED <<queue, lost>>
  /\ UNCHANGED <<setting, hop, result, cancelled>>

\* Any message is taken for the answer; its sender may be the destination.
ReadAnswer ==
  /\ pc = "await" /\ queue # <<>>
  /\ heard' = TRUE /\ reachedDst' = (reachedDst \/ Head(queue) = "dst")
  /\ queue' = Tail(queue)
  /\ probe' = probe + 1 /\ pc' = "probe"
  /\ UNCHANGED <<setting, ttl, result, late, noise, lost, cancelled>>

ReadTimeout ==
  /\ pc = "await" /\ queue = <<>>
  /\ probe' = probe + 1 /\ pc' = "probe"
  /\ UNCHANGED <<setting, ttl, heard, reachedDst, result, network, cancelled>>

\* Mutation: the hop after the destination is probed, too.
RecordGoesOn ==
  /\ pc = "probe" /\ probe = probes
  /\ fields' = Append(fields, heard)
  /\ reached' = IF heard THEN ttl ELSE reached
  /\ complete' = IF reachedDst THEN "yes" ELSE complete
  /\ pc' = IF reachedDst /\ ttl > distance THEN "done" ELSE "hop"
  /\ ttl' = IF reachedDst /\ ttl > distance THEN ttl ELSE ttl + 1
  /\ UNCHANGED <<setting, probe, heard, reachedDst, network, cancelled>>

\* Mutation: the loop tries a hop again that did not answer.
RecordStays ==
  /\ pc = "probe" /\ probe = probes
  /\ \/ ~heard /\ UNCHANGED <<fields, reached, complete, ttl>> /\ pc' = "hop"
     \/ /\ heard
        /\ fields' = Append(fields, heard)
        /\ reached' = ttl
        /\ complete' = IF reachedDst THEN "yes" ELSE complete
        /\ pc' = IF reachedDst THEN "done" ELSE "hop"
        /\ ttl' = IF reachedDst THEN ttl ELSE ttl + 1
  /\ UNCHANGED <<setting, probe, heard, reachedDst, network, cancelled>>

\* Mutation: every hop probed counts as reached.
RecordCounts ==
  /\ pc = "probe" /\ probe = probes
  /\ fields' = Append(fields, heard)
  /\ reached' = ttl
  /\ complete' = IF reachedDst THEN "yes" ELSE complete
  /\ pc' = IF reachedDst THEN "done" ELSE "hop"
  /\ ttl' = IF reachedDst THEN ttl ELSE ttl + 1
  /\ UNCHANGED <<setting, probe, heard, reachedDst, network, cancelled>>

\* hop_<ttl>_rtt_ms is set, to -1 for a hop that did not answer.
Record ==
  /\ pc = "probe" /\ probe = probes
  /\ fields' = Append(fields, heard)
  /\ reached' = IF heard THEN ttl ELSE reached
  /\ complete' = IF reachedDst THEN "yes" ELSE complete
  /\ pc' = IF reachedDst THEN "done" ELSE "hop"
  /\ ttl' = IF reachedDst THEN ttl ELSE ttl + 1
  /\ UNCHANGED <<setting, probe, heard, reachedDst, network, cancelled>>

(***************************************************************************)
(* The network, and the shutdown.                                          *)
(***************************************************************************)

\* A delayed answer arrives.
Arrive ==
  /\ late # <<>>
  /\ queue' = Append(queue, Head(late)) /\ late' = Tail(late)
  /\ UNCHANGED <<setting, pc, hop, result, noise, lost, cancelled>>

\* A message to another process or measurer of the host arrives.
Foreign ==
  /\ pc \in {"hop", "probe", "await"} /\ noise < MaxNoise
  /\ noise' = noise + 1
  /\ \E sender \in {"dst", "router"} : queue' = Append(queue, sender)
  /\ UNCHANGED <<setting, pc, hop, result, late, lost, cancelled>>

Cancel ==
  /\ ~cancelled /\ cancelled' = TRUE
  /\ UNCHANGED <<setting, pc, hop, result, network>>

Finished == pc \in {"done", "skipped"}
Terminated == Finished /\ UNCHANGED vars

\* traceV4 as above, and traceV6, which has the same steps.
TraceStep ==
  OpenOk \/ Fails \/ SeeCancel \/ BeginHop \/ HopsEnd \/ WriteFails \/ Send
    \/ ReadAnswer \/ ReadTimeout \/ Record

Next == TraceStep \/ Arrive \/ Foreign \/ Cancel \/ Terminated

Spec == Init /\ [][Next]_vars

\* Every read has a deadline.
FairSpec == Spec /\ WF_vars(TraceStep)

(***************************************************************************)
(* Properties.                                                             *)
(***************************************************************************)

\* Whatever the socket delivers, trace_hops is the last hop with an RTT, so
\* the command line, which prints the hops up to it, prints no hop twice and
\* none that is missing (trace.go 132-139, main.go 1116-1120).
HopsRecorded ==
  /\ reached <= Len(fields)
  /\ reached > 0 => fields[reached]
  /\ \A i \in reached + 1 .. Len(fields) : ~fields[i]

\* Without delayed or foreign messages a complete trace has a hop for each
\* router and ends at the destination; with losses it may have missed the
\* destination at its distance, and no hop lies before it.
CompleteWhenQuiet ==
  noise = 0 /\ complete = "yes" =>
    /\ reached >= distance
    /\ ~lost => reached = distance

\* Without loss either, the trace is complete just when the destination is
\* within cfg.MaxHops, and every hop up to it has an RTT.
ExactWhenQuiet ==
  pc = "done" /\ noise = 0 /\ ~lost /\ ~cancelled =>
    /\ complete = (IF distance <= maxHops THEN "yes" ELSE "no")
    /\ reached = (IF distance <= maxHops THEN distance ELSE maxHops)
    /\ \A i \in 1 .. reached : fields[i]

\* Every trace ends, cancelled or not, whatever the network loses.
TraceTerminates == <>Finished

=============================================================================
