--------------------------- MODULE ProbeAccounting ---------------------------
(***************************************************************************)
(* What a burst promises to the code that reports loss (TwampMeasurer.Run, *)
(* Client.printStats): the packets are sent in order, each is received or  *)
(* lost exactly once, and the burst is reported only when all are, or when *)
(* none was sent because there was no socket.                              *)
(***************************************************************************)
EXTENDS Integers

CONSTANT Count

VARIABLES
  status,   \* of each packet
  reported  \* whether the burst has returned

vars == <<status, reported>>

Init ==
  /\ status = [s \in 1 .. Count |-> "unsent"]
  /\ reported = FALSE

Send(s) ==
  /\ status[s] = "unsent"
  /\ \A t \in 1 .. s - 1 : status[t] # "unsent"
  /\ status' = [status EXCEPT ![s] = "inflight"]
  /\ UNCHANGED reported

Resolve(s, outcome) ==
  /\ status[s] = "inflight"
  /\ status' = [status EXCEPT ![s] = outcome]
  /\ UNCHANGED reported

Report ==
  /\ \/ \A s \in 1 .. Count : status[s] \in {"received", "lost"}
     \/ \A s \in 1 .. Count : status[s] = "unsent"
  /\ reported' = TRUE
  /\ UNCHANGED status

Next ==
  /\ ~reported
  /\ \/ \E s \in 1 .. Count :
          Send(s) \/ Resolve(s, "received") \/ Resolve(s, "lost")
     \/ Report

Spec == Init /\ [][Next]_vars

=============================================================================
