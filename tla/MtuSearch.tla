------------------------------ MODULE MtuSearch ------------------------------
(***************************************************************************)
(* MtuMeasurer of mtu.go: the binary search for the path MTU by ICMP echo  *)
(* requests that may not be fragmented.  discoverV4 and discoverV6 differ  *)
(* in Floor only: 576 and 1280 bytes.                                      *)
(*                                                                         *)
(* The raw socket delivers whatever ICMP message comes to the host, in the *)
(* order of its arrival, and the code looks at the type of the message     *)
(* only.  So `queue` holds the messages that have arrived, each of them    *)
(* "echo" (an echo reply to anyone), "other", or "junk" (what icmp does    *)
(* not parse); those the network still delays are in `late`.  Any answer   *)
(* may be lost; noise counts the answers that were delayed and the         *)
(* messages that were meant for somebody else.                             *)
(***************************************************************************)
EXTENDS Integers, Sequences

CONSTANTS
  Floor,   \* the size the search begins with
  Ceilings,\* the values cfg.Ceiling may have, positive
  Mtus,    \* the values the path MTU may have
  MaxNoise \* bound: delayed answers and foreign messages

ASSUME MtuAssumption ==
  /\ Floor \in Nat \ {0}
  /\ Ceilings \subseteq Nat \ {0} /\ Mtus \subseteq Nat
  /\ MaxNoise \in Nat

VARIABLES
  ceiling,   \* cfg.Ceiling
  mtu,       \* the largest packet that passes unfragmented
  pc,        \* "open", "search", "await", "done" or "skipped"
  lo, hi, effective,
  mid,       \* the size of the probe that is under way
  queue,     \* the messages the socket holds
  late,      \* the messages that are still to come
  noise,
  lost,      \* an answer was lost, or a probe that would have passed not written
  cancelled

search == <<lo, hi, effective, mid>>
network == <<queue, late, noise, lost>>
path == <<ceiling, mtu>>
vars == <<path, pc, search, network, cancelled>>

Init ==
  /\ ceiling \in Ceilings /\ mtu \in Mtus
  /\ pc = "open"
  /\ lo = Floor /\ hi = ceiling /\ effective = 0 /\ mid = 0
  /\ queue = <<>> /\ late = <<>> /\ noise = 0 /\ lost = FALSE
  /\ cancelled = FALSE

Middle == (lo + hi) \div 2
Answer(size) == IF size <= mtu THEN "echo" ELSE "other"

(***************************************************************************)
(* discoverV4, discoverV6.                                                 *)
(***************************************************************************)

\* No raw socket, or no DF bit: the result is tagged skipped.
SocketFails ==
  /\ pc = "open" /\ pc' = "skipped"
  /\ UNCHANGED <<path, search, network, cancelled>>

SocketOpens ==
  /\ pc = "open" /\ pc' = "search"
  /\ UNCHANGED <<path, search, network, cancelled>>

SearchEnds ==
  /\ pc = "search" /\ lo > hi
  /\ pc' = "done"
  /\ UNCHANGED <<path, search, network, cancelled>>

TooLarge == hi' = mid' - 1 /\ UNCHANGED <<lo, effective>>

\* WriteTo fails, as it does when the probe is larger than the MTU of the
\* interface; any other error counts as a loss.
WriteFails ==
  /\ pc = "search" /\ lo <= hi
  /\ mid' = Middle
  /\ TooLarge
  /\ lost' = (lost \/ mid' <= mtu)
  /\ UNCHANGED <<path, pc, queue, late, noise, cancelled>>

\* The probe is sent.  It is answered, its answer is lost (what is too large
\* may also vanish in a router that says nothing), or delayed.
Send ==
  /\ pc = "search" /\ lo <= hi
  /\ mid' = Middle /\ pc' = "await"
  /\ \/ queue' = Append(queue, Answer(mid')) /\ UNCHANGED <<late, noise, lost>>
     \/ mid' > mtu /\ UNCHANGED network
     \/ lost' = TRUE /\ UNCHANGED <<queue, late, noise>>
     \/ /\ noise < MaxNoise /\ noise' = noise + 1
        /\ late' = Append(late, Answer(mid'))
        /\ UNCHANGED <<queue, lost>>
  /\ UNCHANGED <<path, lo, hi, effective, cancelled>>

\* After a message was read and parsed, and only then, ctx.Done is looked at.
Checked == pc' = IF cancelled THEN "done" ELSE "search"

\* Mutation: the probe that passed is tried again.
ReadEchoStays ==
  /\ pc = "await" /\ queue # <<>> /\ Head(queue) = "echo"
  /\ queue' = Tail(queue)
  /\ effective' = mid /\ lo' = mid
  /\ Checked
  /\ UNCHANGED <<path, hi, mid, late, noise, lost, cancelled>>

\* Mutation: the size after the one that passed is recorded.
ReadEchoOff ==
  /\ pc = "await" /\ queue # <<>> /\ Head(queue) = "echo"
  /\ queue' = Tail(queue)
  /\ lo' = mid + 1 /\ effective' = lo'
  /\ Checked
  /\ UNCHANGED <<path, hi, mid, late, noise, lost, cancelled>>

ReadEcho ==
  /\ pc = "await" /\ queue # <<>> /\ Head(queue) = "echo"
  /\ queue' = Tail(queue)
  /\ effective' = mid /\ lo' = mid + 1
  /\ Checked
  /\ UNCHANGED <<path, hi, mid, late, noise, lost, cancelled>>

\* Fragmentation needed, packet too big, or any other message.
ReadOther ==
  /\ pc = "await" /\ queue # <<>> /\ Head(queue) = "other"
  /\ queue' = Tail(queue)
  /\ hi' = mid - 1
  /\ Checked
  /\ UNCHANGED <<path, lo, effective, mid, late, noise, lost, cancelled>>

\* A message that cannot be parsed: the loop goes on, whatever ctx says.
ReadJunk ==
  /\ pc = "await" /\ queue # <<>> /\ Head(queue) = "junk"
  /\ queue' = Tail(queue)
  /\ hi' = mid - 1
  /\ pc' = "search"
  /\ UNCHANGED <<path, lo, effective, mid, late, noise, lost, cancelled>>

\* The deadline passes before any message has come.
ReadTimeout ==
  /\ pc = "await" /\ queue = <<>>
  /\ pc' = "search"
  /\ hi' = mid - 1
  /\ UNCHANGED <<path, lo, effective, mid, network, cancelled>>

(***************************************************************************)
(* The network, and the shutdown.                                          *)
(***************************************************************************)

\* A delayed answer arrives.
Arrive ==
  /\ late # <<>>
  /\ queue' = Append(queue, Head(late)) /\ late' = Tail(late)
  /\ UNCHANGED <<path, pc, search, noise, lost, cancelled>>

\* A message to another process or measurer of the host arrives.
Foreign ==
  /\ pc \in {"search", "await"} /\ noise < MaxNoise
  /\ noise' = noise + 1
  /\ \E m \in {"echo", "other", "junk"} : queue' = Append(queue, m)
  /\ UNCHANGED <<path, pc, search, late, lost, cancelled>>

Cancel ==
  /\ ~cancelled /\ cancelled' = TRUE
  /\ UNCHANGED <<path, pc, search, network>>

Finished == pc \in {"done", "skipped"}
Terminated == Finished /\ UNCHANGED vars

\* discoverV4 as above, and discoverV6, which has the same steps.
SearchStep ==
  SocketFails \/ SocketOpens \/ SearchEnds \/ WriteFails \/ Send \/ ReadEcho \/ ReadOther
    \/ ReadJunk \/ ReadTimeout

Next == SearchStep \/ Arrive \/ Foreign \/ Cancel \/ Terminated

Spec == Init /\ [][Next]_vars

\* Every read has a deadline.
FairSpec == Spec /\ WF_vars(SearchStep)

(***************************************************************************)
(* Properties.                                                             *)
(***************************************************************************)

\* Every variable has its type.
TypeOK ==
  /\ ceiling \in Ceilings /\ mtu \in Mtus
  /\ pc \in {"open", "search", "await", "done", "skipped"}
  /\ lo \in Nat /\ hi \in Int /\ effective \in {0} \cup Floor .. ceiling /\ mid \in Nat
  /\ queue \in Seq({"echo", "other", "junk"}) /\ late \in Seq({"echo", "other"})
  /\ noise \in 0 .. MaxNoise /\ lost \in BOOLEAN
  /\ cancelled \in BOOLEAN

\* The search stays between the floor and the ceiling whatever the socket
\* delivers, and what it has found is the size just below lo, no larger than hi (mtu.go 95-140).
InRange ==
  /\ Floor <= lo /\ hi <= ceiling
  /\ \/ effective = 0 /\ lo = Floor
     \/ effective >= Floor /\ effective = lo - 1 /\ effective <= hi

\* Without delayed or foreign messages the measurer reports no more than the
\* path MTU, also when answers are lost or the search is cancelled.
NeverTooLargeWhenQuiet == noise = 0 => effective <= mtu

\* If no answer is lost either, it reports the smaller of the ceiling and the
\* path MTU, or nothing when that is below the floor (README.md 280: "the
\* binary search converges regardless").
Smaller == IF mtu < ceiling THEN mtu ELSE ceiling
ExactWhenQuiet ==
  pc = "done" /\ noise = 0 /\ ~lost /\ ~cancelled =>
    effective = IF Smaller < Floor THEN 0 ELSE Smaller

\* Every search ends, cancelled or not, whatever the network loses.
SearchTerminates == <>Finished

=============================================================================
