--------------------------- MODULE MtuSearchProofs ---------------------------
(***************************************************************************)
(* Proofs about MtuSearch, for every floor, ceiling and path MTU.          *)
(***************************************************************************)
EXTENDS MtuSearch, TLAPS

\* A message of the socket.
Message == {"echo", "other", "junk"}

\* An answer to a probe.
AnAnswer == {"echo", "other"}

\* While a probe is under way its size lies between lo and hi.
ProbeInv == pc = "await" => lo <= mid /\ mid <= hi

\* Everything that holds whatever the network does.
Shape == TypeOK /\ InRange /\ ProbeInv

\* The middle of a range that is not empty lies in it: the size of a probe.
LEMMA MiddleBetween ==
  ASSUME NEW a \in Nat, NEW b \in Int, a <= b
  PROVE  (a + b) \div 2 \in Nat /\ a <= (a + b) \div 2 /\ (a + b) \div 2 <= b
OBVIOUS

\* The sizes are numbers.
LEMMA Sizes ==
  ASSUME TypeOK
  PROVE  /\ Floor \in Nat /\ Floor > 0
         /\ ceiling \in Nat /\ ceiling > 0 /\ mtu \in Nat
         /\ lo \in Nat /\ hi \in Int /\ mid \in Nat
         /\ effective \in Nat
<1>1. ceiling \in Nat \ {0} /\ mtu \in Nat /\ Floor \in Nat \ {0}
  BY MtuAssumption DEF TypeOK
<1>2. ceiling \in Nat /\ ceiling > 0 /\ Floor \in Nat /\ Floor > 0
  BY <1>1
<1> QED
  BY <1>1, <1>2 DEF TypeOK

\* The tail of a queue of messages is one, and its head a message.
LEMMA QueueTail ==
  ASSUME NEW S, NEW q \in Seq(S), q # <<>>
  PROVE  Tail(q) \in Seq(S) /\ Head(q) \in S
OBVIOUS

\* A message at the end of a queue of messages makes another one.
LEMMA QueueAdd ==
  ASSUME NEW S, NEW q \in Seq(S), NEW m \in S
  PROVE  Append(q, m) \in Seq(S)
OBVIOUS

\* One step keeps the type invariant and the range of the search: each action
\* of the code narrows lo .. hi around the middle it has probed.
LEMMA ShapeStep ==
  ASSUME Shape, [Next]_vars
  PROVE  Shape'
<1>m. MaxNoise \in Nat
  BY MtuAssumption
<1>s. /\ Floor \in Nat /\ ceiling \in Nat /\ lo \in Nat /\ hi \in Int /\ effective \in Nat
      /\ Floor <= lo /\ hi <= ceiling
      /\ \/ effective = 0 /\ lo = Floor
         \/ effective >= Floor /\ effective = lo - 1 /\ effective <= hi
  BY Sizes DEF Shape, InRange
<1> USE DEF Shape, TypeOK, InRange, ProbeInv
<1>1. CASE SocketFails
  BY <1>1 DEF SocketFails, path, search, network
<1>2. CASE SocketOpens
  BY <1>2 DEF SocketOpens, path, search, network
<1>3. CASE SearchEnds
  BY <1>3 DEF SearchEnds, path, search, network
<1>4. CASE WriteFails
  <2>1. PICK m \in Nat : m = Middle /\ lo <= m /\ m <= hi
    BY <1>4, MiddleBetween DEF WriteFails, Middle
  <2>2. /\ pc = "search" /\ pc' = pc /\ mid' = m /\ hi' = m - 1
        /\ UNCHANGED <<lo, effective, ceiling, mtu, queue, late, noise, cancelled>>
        /\ lost' \in BOOLEAN
    BY <1>4, <2>1 DEF WriteFails, TooLarge, path
  <2>3. TypeOK'
    BY <2>2
  <2>4. ProbeInv'
    BY <2>2
  <2>5. /\ m - 1 \in Int /\ m - 1 <= ceiling
        /\ \/ effective = 0 /\ lo = Floor
           \/ effective >= Floor /\ effective = lo - 1 /\ effective <= m - 1
    BY <2>1, <1>s
  <2>6. /\ hi' = m - 1 /\ lo' = lo /\ effective' = effective /\ ceiling' = ceiling
    BY <2>2
  <2> HIDE DEF Shape, TypeOK, InRange, ProbeInv
  <2>7. InRange'
    BY <2>5, <2>6, <1>s DEF InRange
  <2> QED
    BY <2>3, <2>4, <2>7 DEF Shape
<1>5. CASE Send
  <2>1. mid' \in Nat /\ lo <= mid' /\ mid' <= hi
    BY <1>5, MiddleBetween DEF Send, Middle
  <2>2. Answer(mid') \in AnAnswer /\ Answer(mid') \in Message
    BY DEF Answer, AnAnswer, Message
  <2>3. /\ queue' \in Seq(Message) /\ late' \in Seq(AnAnswer)
        /\ noise' \in 0 .. MaxNoise /\ lost' \in BOOLEAN
    <3>1. queue' = Append(queue, Answer(mid')) \/ queue' = queue
      BY <1>5 DEF Send, network
    <3>2. late' = Append(late, Answer(mid')) \/ late' = late
      BY <1>5 DEF Send, network
    <3>3. noise' = noise \/ (noise < MaxNoise /\ noise' = noise + 1)
      BY <1>5 DEF Send, network
    <3>4. lost' = lost \/ lost' = TRUE
      BY <1>5 DEF Send, network
    <3>5. queue \in Seq(Message) /\ late \in Seq(AnAnswer)
      BY DEF Message, AnAnswer
    <3>6. queue' \in Seq(Message) /\ late' \in Seq(AnAnswer)
      <4> HIDE DEF Shape, TypeOK, InRange, ProbeInv
      <4> QED
        BY <2>2, <3>1, <3>2, <3>5, QueueAdd
    <3>7. noise' \in 0 .. MaxNoise
      BY <3>3, <1>m
    <3> QED
      BY <3>4, <3>6, <3>7
  <2>4. pc' = "await" /\ UNCHANGED <<lo, hi, effective, ceiling, mtu, cancelled>>
    BY <1>5 DEF Send, path
  <2> QED
    BY <2>1, <2>3, <2>4 DEF Message, AnAnswer
<1>6. CASE ReadEcho
  <2>1. queue' \in Seq(Message)
    BY <1>6, QueueTail DEF ReadEcho, Message
  <2>2. /\ pc = "await" /\ pc' \in {"done", "search"}
        /\ effective' = mid /\ lo' = mid + 1
        /\ UNCHANGED <<hi, mid, ceiling, mtu, late, noise, lost, cancelled>>
    BY <1>6 DEF ReadEcho, Checked, path
  <2>3. lo <= mid /\ mid <= hi /\ mid \in Nat
    BY <2>2
  <2>4. mid + 1 \in Nat /\ mid = (mid + 1) - 1 /\ mid \in Floor .. ceiling
        /\ Floor <= mid /\ Floor <= mid + 1
    BY <2>3, <1>s
  <2>5. TypeOK'
    BY <2>1, <2>2, <2>4 DEF Message
  <2>6. InRange'
    BY <2>2, <2>3, <2>4
  <2>7. ProbeInv'
    BY <2>2
  <2> HIDE DEF Shape, TypeOK, InRange, ProbeInv
  <2> QED
    BY <2>5, <2>6, <2>7 DEF Shape
<1>7. CASE ReadOther \/ ReadJunk
  <2>1. queue' \in Seq(Message)
    <3>1. queue \in Seq(Message) /\ queue # <<>> /\ queue' = Tail(queue)
      BY <1>7 DEF ReadOther, ReadJunk, Message
    <3> QED
      BY <3>1, QueueTail
  <2>2. /\ pc = "await" /\ pc' \in {"done", "search"}
        /\ hi' = mid - 1
        /\ UNCHANGED <<lo, effective, mid, ceiling, mtu, late, noise, lost, cancelled>>
    BY <1>7 DEF ReadOther, ReadJunk, Checked, path
  <2>3. lo <= mid /\ mid <= hi /\ mid \in Nat
    BY <2>2
  <2>4. /\ mid - 1 \in Int /\ mid - 1 <= ceiling
        /\ \/ effective = 0 /\ lo = Floor
           \/ effective >= Floor /\ effective = lo - 1 /\ effective <= mid - 1
    BY <2>3, <1>s
  <2>5. TypeOK'
    BY <2>1, <2>2, <2>4 DEF Message
  <2>6. InRange'
    BY <2>2, <2>4, <1>s
  <2>7. ProbeInv'
    BY <2>2
  <2> HIDE DEF Shape, TypeOK, InRange, ProbeInv
  <2> QED
    BY <2>5, <2>6, <2>7 DEF Shape
<1>8. CASE ReadTimeout
  <2>1. /\ pc = "await" /\ pc' = "search" /\ hi' = mid - 1
        /\ UNCHANGED <<lo, effective, mid, ceiling, mtu, queue, late, noise, lost, cancelled>>
    BY <1>8 DEF ReadTimeout, path, network
  <2>2. lo <= mid /\ mid <= hi /\ mid \in Nat
    BY <2>1
  <2>3. /\ mid - 1 \in Int /\ mid - 1 <= ceiling
        /\ \/ effective = 0 /\ lo = Floor
           \/ effective >= Floor /\ effective = lo - 1 /\ effective <= mid - 1
    BY <2>2, <1>s
  <2>4. TypeOK'
    BY <2>1, <2>3
  <2>5. InRange'
    BY <2>1, <2>3, <1>s
  <2>6. ProbeInv'
    BY <2>1
  <2> HIDE DEF Shape, TypeOK, InRange, ProbeInv
  <2> QED
    BY <2>4, <2>5, <2>6 DEF Shape
<1>9. CASE Arrive
  <2>1. late \in Seq(AnAnswer) /\ late # <<>> /\ late' = Tail(late)
    BY <1>9 DEF Arrive, AnAnswer
  <2>2. late' \in Seq(AnAnswer) /\ Head(late) \in AnAnswer
    BY <2>1, QueueTail
  <2>3. queue' \in Seq(Message)
    BY <1>9, <2>2 DEF Arrive, Message, AnAnswer
  <2>4. UNCHANGED <<pc, lo, hi, effective, mid, ceiling, mtu, noise, lost, cancelled>>
    BY <1>9 DEF Arrive, path, search
  <2> QED
    BY <2>2, <2>3, <2>4 DEF Message, AnAnswer
<1>10. CASE Foreign
  <2>1. queue' \in Seq(Message) /\ noise' \in 0 .. MaxNoise
    BY <1>10, <1>m DEF Foreign, Message
  <2>2. UNCHANGED <<pc, lo, hi, effective, mid, ceiling, mtu, late, lost, cancelled>>
    BY <1>10 DEF Foreign, path, search
  <2> QED
    BY <2>1, <2>2 DEF Message
<1>11. CASE Cancel
  BY <1>11 DEF Cancel, path, search, network
<1>12. CASE UNCHANGED vars
  BY <1>12 DEF vars, path, search, network
<1> HIDE DEF Shape, TypeOK, InRange, ProbeInv
<1> QED
  BY <1>1, <1>2, <1>3, <1>4, <1>5, <1>6, <1>7, <1>8, <1>9, <1>10, <1>11, <1>12
  DEF Next, SearchStep, Terminated

\* The first state has the shape.
LEMMA ShapeInit == Init => Shape
<1> SUFFICES ASSUME Init
             PROVE  Shape
  OBVIOUS
<1>1. ceiling \in Nat /\ Floor \in Nat /\ MaxNoise \in Nat
  BY MtuAssumption DEF Init
<1>2. TypeOK
  <2>1. ceiling \in Ceilings /\ mtu \in Mtus /\ pc = "open" /\ lo \in Nat /\ hi \in Int
        /\ effective = 0 /\ mid = 0
    BY <1>1 DEF Init
  <2>2. queue \in Seq({"echo", "other", "junk"}) /\ late \in Seq({"echo", "other"})
    BY DEF Init
  <2>3. noise \in 0 .. MaxNoise
    BY <1>1 DEF Init
  <2>4. lost \in BOOLEAN /\ cancelled \in BOOLEAN
    BY Zenon DEF Init
  <2> QED
    BY <2>1, <2>2, <2>3, <2>4 DEF TypeOK
<1>3. InRange /\ ProbeInv
  BY <1>1 DEF Init, InRange, ProbeInv
<1> QED
  BY <1>2, <1>3 DEF Shape

\* Every reachable state has it.
LEMMA ShapeAlways == Spec => []Shape
<1>1. Shape /\ [Next]_vars => Shape'
  BY ShapeStep
<1> QED
  BY ShapeInit, <1>1, PTL DEF Spec

\* Type correctness: every variable keeps its type, and the result is nothing
\* or a size between the floor and the ceiling.
THEOREM TypeCorrect == Spec => []TypeOK
<1>1. Shape => TypeOK
  BY DEF Shape
<1> QED
  BY ShapeAlways, <1>1, PTL

\* Whatever messages the socket delivers, the binary search of mtu.go 95-146
\* keeps its result just below lo and within the floor and the ceiling.
THEOREM SearchInRange == Spec => []InRange
<1>1. Shape => InRange
  BY DEF Shape
<1> QED
  BY ShapeAlways, <1>1, PTL

(***************************************************************************)
(* The quiet network: no answer is delayed and no message is foreign.      *)
(***************************************************************************)

\* The socket holds nothing but the answer to the probe under way, and a probe
\* without an answer was too large, or its answer was lost.
QuietQueue ==
  /\ late = <<>>
  /\ pc # "await" => queue = <<>>
  /\ pc = "await" =>
       \/ queue = <<Answer(mid)>>
       \/ queue = <<>> /\ (mid > mtu \/ lost)

\* What the search knows: the size it has found passes, and unless an answer
\* was lost no size beyond hi does.
Knows ==
  /\ effective <= mtu
  /\ ~lost => hi >= mtu \/ hi = ceiling
  /\ pc = "done" /\ ~cancelled => lo > hi

Quiet == noise = 0 => QuietQueue /\ Knows

\* The first state is quiet and knows nothing.
LEMMA QuietInit == Init => Quiet
BY MtuAssumption DEF Init, Quiet, QuietQueue, Knows

\* One step: while noise stays 0, the queue holds the answer to the last probe
\* at most, so what is read is the answer to the size that was sent.
LEMMA QuietStep ==
  ASSUME Shape, Quiet, [Next]_vars
  PROVE  Quiet'
<1> SUFFICES ASSUME noise' = 0
             PROVE  QuietQueue' /\ Knows'
  BY DEF Quiet
<1> USE DEF Shape, TypeOK, ProbeInv
<1>0. noise = 0 /\ QuietQueue /\ Knows
  <2>1. noise = 0
    <3>1. noise' = noise \/ noise' = noise + 1
      BY DEF Next, SearchStep, SocketFails, SocketOpens, SearchEnds, WriteFails, Send,
             ReadEcho, ReadOther, ReadJunk, ReadTimeout, Arrive, Foreign, Cancel, Terminated, vars,
             network
    <3> QED
      BY <3>1, MtuAssumption
  <2> QED
    BY <2>1 DEF Quiet
<1> USE <1>0
<1>1. CASE SocketFails
  BY <1>1 DEF SocketFails, path, search, network, QuietQueue, Knows
<1>2. CASE SocketOpens
  BY <1>2 DEF SocketOpens, path, search, network, QuietQueue, Knows
<1>3. CASE SearchEnds
  BY <1>3 DEF SearchEnds, path, search, network, QuietQueue, Knows
<1>4. CASE WriteFails
  <2>1. mid' \in Nat
    BY <1>4, MiddleBetween DEF WriteFails, Middle
  <2>2. /\ pc = "search" /\ pc' = pc /\ hi' = mid' - 1
        /\ lost' = (lost \/ mid' <= mtu)
        /\ UNCHANGED <<lo, effective, ceiling, mtu, queue, late, cancelled>>
    BY <1>4 DEF WriteFails, TooLarge, path
  <2>3. ~lost' => hi' >= mtu'
    <3>1. PICK m \in Nat : m = mid'
      BY <2>1, Zenon
    <3>2. PICK p \in Nat : p = mtu
      BY Sizes, Zenon
    <3>3. ~lost' => ~(m <= p)
      BY <2>2, <3>1, <3>2, Zenon
    <3>4. hi' = m - 1 /\ mtu' = p
      BY <2>2, <3>1, <3>2, Zenon
    <3>5. \A i, j \in Nat : ~(i <= j) => i - 1 >= j
      OBVIOUS
    <3> QED
      BY <3>1, <3>2, <3>3, <3>4, <3>5, Zenon
  <2>4. QuietQueue'
    BY <2>2 DEF QuietQueue
  <2>5. Knows'
    BY <2>2, <2>3, Zenon DEF Knows
  <2> QED
    BY <2>4, <2>5
<1>5. CASE Send
  <2>1. pc = "search" /\ pc' = "await"
        /\ UNCHANGED <<lo, hi, effective, ceiling, mtu, cancelled>>
    BY <1>5 DEF Send, path
  <2>2. queue = <<>> /\ late = <<>>
    BY <2>1 DEF QuietQueue
  <2>3. noise' # noise + 1
    BY MtuAssumption
  <2>4. \/ queue' = Append(queue, Answer(mid')) /\ late' = late /\ lost' = lost
        \/ mid' > mtu /\ queue' = queue /\ late' = late /\ lost' = lost
        \/ lost' = TRUE /\ queue' = queue /\ late' = late
    BY <1>5, <2>3, Zenon DEF Send, network
  <2>5. Answer(mid)' = Answer(mid')
    BY <2>1 DEF Answer
  <2>6. QuietQueue'
    BY <2>1, <2>2, <2>4, <2>5 DEF QuietQueue
  <2>7. Knows'
    BY <2>1, <2>4 DEF Knows
  <2> QED
    BY <2>6, <2>7
<1>6. CASE ReadEcho
  <2>1. /\ pc = "await" /\ queue # <<>> /\ Head(queue) = "echo"
        /\ queue' = Tail(queue)
        /\ pc' = IF cancelled THEN "done" ELSE "search"
        /\ effective' = mid /\ lo' = mid + 1
        /\ UNCHANGED <<hi, mid, ceiling, mtu, late, lost, cancelled>>
    BY <1>6 DEF ReadEcho, Checked, path
  <2>2. queue = <<Answer(mid)>>
    BY <2>1 DEF QuietQueue
  <2>3. mid <= mtu
    BY <2>1, <2>2 DEF Answer
  <2>4. queue' = <<>>
    BY <2>1, <2>2
  <2> QED
    BY <2>1, <2>3, <2>4 DEF QuietQueue, Knows
<1>7. CASE ReadOther
  <2>1. /\ pc = "await" /\ queue # <<>> /\ Head(queue) = "other"
        /\ queue' = Tail(queue)
        /\ pc' = IF cancelled THEN "done" ELSE "search"
        /\ hi' = mid - 1
        /\ UNCHANGED <<lo, effective, mid, ceiling, mtu, late, lost, cancelled>>
    BY <1>7 DEF ReadOther, Checked, path
  <2>2. queue = <<Answer(mid)>>
    BY <2>1 DEF QuietQueue
  <2>3. ~(mid <= mtu)
    BY <2>1, <2>2 DEF Answer
  <2>4. queue' = <<>>
    BY <2>1, <2>2
  <2>5. mtu \in Nat
    BY MtuAssumption
  <2> QED
    BY <2>1, <2>3, <2>4, <2>5 DEF QuietQueue, Knows
<1>8. CASE ReadTimeout
  <2>1. /\ pc = "await" /\ queue = <<>> /\ pc' = "search" /\ hi' = mid - 1
        /\ UNCHANGED <<lo, effective, mid, ceiling, mtu, queue, late, lost, cancelled>>
    BY <1>8 DEF ReadTimeout, path, network
  <2>2. mid > mtu \/ lost
    BY <2>1 DEF QuietQueue
  <2>3. mtu \in Nat
    BY MtuAssumption
  <2> QED
    BY <2>1, <2>2, <2>3 DEF QuietQueue, Knows
<1>9. CASE Arrive
  BY <1>9 DEF Arrive, QuietQueue
<1>10. CASE Foreign
  BY <1>10, MtuAssumption DEF Foreign
<1>11. CASE Cancel
  BY <1>11 DEF Cancel, path, search, network, QuietQueue, Knows, Answer
<1>12. CASE UNCHANGED vars
  BY <1>12 DEF vars, path, search, network, QuietQueue, Knows, Answer
<1>13. CASE ReadJunk
  <2>1. pc = "await" /\ queue # <<>> /\ Head(queue) = "junk"
    BY <1>13 DEF ReadJunk
  <2>2. queue = <<Answer(mid)>>
    BY <2>1 DEF QuietQueue
  <2> QED
    BY <2>1, <2>2 DEF Answer
<1> QED
  BY <1>1, <1>2, <1>3, <1>4, <1>5, <1>6, <1>7, <1>8, <1>9, <1>10, <1>11, <1>12, <1>13
  DEF Next, SearchStep, Terminated

\* Every reachable state is quiet, if no answer was late and no message foreign.
LEMMA QuietAlways == Spec => []Quiet
<1>1. Shape /\ Quiet /\ [Next]_vars => Quiet'
  BY QuietStep
<1> QED
  BY QuietInit, <1>1, ShapeAlways, PTL DEF Spec

\* Soundness: without delayed or foreign messages the measurer never reports a
\* size that does not pass, for every ceiling, path MTU and pattern of losses.
THEOREM ResultPasses == Spec => []NeverTooLargeWhenQuiet
<1>1. Quiet => NeverTooLargeWhenQuiet
  BY DEF Quiet, Knows, NeverTooLargeWhenQuiet
<1> QED
  BY QuietAlways, <1>1, PTL

\* Exactness: when no answer is lost either, the search that runs to its end
\* reports the smaller of the ceiling and the path MTU (README.md 280).
THEOREM ResultExact == Spec => []ExactWhenQuiet
<1>1. Shape /\ Quiet => ExactWhenQuiet
  <2> SUFFICES ASSUME Shape, Quiet, pc = "done", noise = 0, ~lost, ~cancelled
               PROVE  effective = IF Smaller < Floor THEN 0 ELSE Smaller
    BY DEF ExactWhenQuiet
  <2>1. /\ effective <= mtu /\ lo > hi
        /\ hi >= mtu \/ hi = ceiling
    BY DEF Quiet, Knows
  <2>2. InRange /\ lo \in Nat /\ hi \in Int /\ ceiling \in Nat /\ mtu \in Nat
        /\ effective \in Nat /\ Floor \in Nat /\ Floor > 0
    BY MtuAssumption DEF Shape, TypeOK
  <2>3. CASE effective = 0 /\ lo = Floor
    <3>1. Smaller < Floor
      BY <2>1, <2>2, <2>3 DEF InRange, Smaller
    <3> QED
      BY <3>1, <2>3
  <2>4. CASE effective >= Floor /\ effective = lo - 1 /\ effective <= hi
    <3>1. Smaller = effective
      BY <2>1, <2>2, <2>4 DEF InRange, Smaller
    <3> QED
      BY <3>1, <2>2, <2>4
  <2> QED
    BY <2>2, <2>3, <2>4 DEF InRange
<1> QED
  BY ShapeAlways, QuietAlways, <1>1, PTL

=============================================================================
