-------------------------- MODULE TraceRouteProofs --------------------------
(***************************************************************************)
(* What a traceroute reports, for any number of hops and of probes, any    *)
(* distance of the destination and any amount of delayed and foreign       *)
(* messages.                                                               *)
(***************************************************************************)
EXTENDS TraceRoute, SequenceTheorems, TLAPS

Senders == {"router", "dst"}

TypeInv ==
  /\ maxHops \in Nat /\ probes \in Nat /\ probes > 0 /\ distance \in Nat /\ distance > 0
  /\ pc \in {"open", "hop", "probe", "await", "done", "skipped"}
  /\ ttl \in Nat /\ ttl > 0 /\ probe \in Nat
  /\ heard \in BOOLEAN /\ reachedDst \in BOOLEAN
  /\ fields \in Seq(BOOLEAN) /\ complete \in {"unset", "yes", "no"} /\ reached \in Nat
  /\ queue \in Seq(Senders) /\ late \in Seq(Senders) /\ noise \in Nat
  /\ lost \in BOOLEAN /\ cancelled \in BOOLEAN

\* Where the loop over the hops is, and what it has recorded.
LoopInv ==
  /\ pc \in {"open", "hop", "probe", "await"} => Len(fields) = ttl - 1 /\ complete = "unset"
  /\ pc \in {"open", "hop"} => ttl <= maxHops + 1 /\ reachedDst = FALSE
  /\ pc \in {"probe", "await"} => ttl <= maxHops
  /\ reachedDst => heard
  /\ complete = "yes" => pc = "done" /\ heard /\ reachedDst /\ reached = ttl /\ ttl <= maxHops
  /\ complete = "no" => pc = "done" /\ ttl = maxHops + 1 /\ Len(fields) = maxHops
  /\ pc = "done" /\ complete = "unset" => cancelled

\* As long as nothing was delayed or foreign, the only message in the socket is
\* the answer to the probe that waits, and only a hop as far as the destination
\* is answered by it.
QuietInv ==
  noise = 0 =>
    /\ late = <<>>
    /\ pc # "await" => queue = <<>>
    /\ queue # <<>> => queue = <<Answer>>
    /\ reachedDst => ttl >= distance

\* If nothing was lost either, every hop probed has answered, and none lies
\* beyond the destination.
ExactInv ==
  noise = 0 /\ ~lost /\ pc # "skipped" =>
    /\ ttl <= distance
    /\ pc = "await" => queue # <<>>
    /\ pc \in {"probe", "await"} /\ probe > 0 => heard /\ (reachedDst <=> ttl = distance)
    /\ reached = Len(fields)
    /\ \A i \in 1 .. Len(fields) : fields[i]

Inv == TypeInv /\ LoopInv /\ HopsRecorded /\ QuietInv /\ ExactInv

-----------------------------------------------------------------------------
(***************************************************************************)
(* Lists of messages and of hops.                                          *)
(***************************************************************************)

\* The last element of a list that has got one more, and the others.
LEMMA OneMore ==
  ASSUME NEW S, NEW s \in Seq(S), NEW x \in S
  PROVE  /\ Append(s, x) \in Seq(S) /\ Append(s, x) # <<>> /\ Len(s) \in Nat
         /\ Len(Append(s, x)) = Len(s) + 1 /\ Append(s, x)[Len(s) + 1] = x
         /\ \A i \in 1 .. Len(s) : Append(s, x)[i] = s[i]
BY LenProperties, AppendProperties

\* The first element of a list, and what is left of it.
LEMMA OneLess ==
  ASSUME NEW S, NEW s \in Seq(S), s # <<>>
  PROVE  Head(s) \in S /\ Tail(s) \in Seq(S)
BY HeadTailProperties, EmptySeq

\* A list of one message.
LEMMA Only ==
  ASSUME NEW x
  PROVE  /\ Append(<<>>, x) = <<x>> /\ Head(<<x>>) = x /\ Tail(<<x>>) = <<>>
         /\ <<x>> # <<>>
OBVIOUS

\* Who answers is one of the senders.
LEMMA AnswerIsSender == Answer \in Senders
BY DEF Answer, Senders

-----------------------------------------------------------------------------
(***************************************************************************)
(* The steps.                                                              *)
(***************************************************************************)

\* The setting is never changed, and the steps of others leave the loop alone.
LEMMA TypeKept ==
  ASSUME TypeInv, [Next]_vars
  PROVE  TypeInv'
<1> USE AnswerIsSender DEF TypeInv, setting, hop, result, network
<1>1. CASE OpenOk
  BY <1>1 DEF OpenOk
<1>2. CASE Fails
  <2>1. <<>> \in Seq(BOOLEAN)
    BY EmptySeq
  <2>2. QED
    BY <1>2, <2>1 DEF Fails
<1>3. CASE SeeCancel
  BY <1>3 DEF SeeCancel
<1>4. CASE BeginHop
  BY <1>4 DEF BeginHop
<1>5. CASE HopsEnd
  BY <1>5 DEF HopsEnd
<1>6. CASE WriteFails
  BY <1>6 DEF WriteFails
<1>7. CASE Send
  <2>1. queue' \in Seq(Senders) /\ late' \in Seq(Senders) /\ noise' \in Nat /\ lost' \in BOOLEAN
    <3>1. Append(queue, Answer) \in Seq(Senders) /\ Append(late, Answer) \in Seq(Senders)
      BY OneMore
    <3>2. queue' \in {queue, Append(queue, Answer)} /\ late' \in {late, Append(late, Answer)}
      BY <1>7 DEF Send
    <3>3. noise' \in {noise, noise + 1} /\ lost' \in {lost, TRUE}
      BY <1>7 DEF Send
    <3>4. queue \in Seq(Senders) /\ late \in Seq(Senders) /\ noise + 1 \in Nat
      OBVIOUS
    <3>5. QED
      BY <3>1, <3>2, <3>3, <3>4
  <2>2. QED
    BY <1>7, <2>1 DEF Send
<1>8. CASE ReadAnswer
  <2>1. queue' \in Seq(Senders)
    BY <1>8, OneLess DEF ReadAnswer
  <2>2. QED
    BY <1>8, <2>1 DEF ReadAnswer
<1>9. CASE ReadTimeout
  BY <1>9 DEF ReadTimeout
<1>10. CASE Record
  <2>1. fields' \in Seq(BOOLEAN)
    BY <1>10, OneMore DEF Record
  <2>2. QED
    BY <1>10, <2>1 DEF Record
<1>11. CASE Arrive
  <2>1. queue' \in Seq(Senders) /\ late' \in Seq(Senders)
    BY <1>11, OneMore, OneLess DEF Arrive
  <2>2. QED
    BY <1>11, <2>1 DEF Arrive
<1>12. CASE Foreign
  <2>1. PICK sender \in Senders : queue' = Append(queue, sender)
    BY <1>12 DEF Foreign, Senders
  <2>2. queue' \in Seq(Senders)
    BY <2>1, OneMore
  <2>3. QED
    BY <1>12, <2>2 DEF Foreign
<1>13. CASE Cancel
  BY <1>13 DEF Cancel
<1>14. CASE UNCHANGED vars
  BY <1>14 DEF vars
<1>15. QED
  BY <1>1, <1>2, <1>3, <1>4, <1>5, <1>6, <1>7, <1>8, <1>9, <1>10, <1>11, <1>12, <1>13, <1>14
  DEF Next, TraceStep, Terminated

\* The loop goes from hop to hop, records each and leaves with a verdict.
LEMMA LoopKept ==
  ASSUME TypeInv, LoopInv, [Next]_vars
  PROVE  LoopInv'
<1> USE DEF TypeInv, LoopInv, setting, hop, result, network
<1>1. CASE OpenOk
  BY <1>1 DEF OpenOk
<1>2. CASE Fails
  BY <1>2 DEF Fails
<1>3. CASE SeeCancel
  BY <1>3 DEF SeeCancel
<1>4. CASE BeginHop
  BY <1>4 DEF BeginHop
<1>5. CASE HopsEnd
  BY <1>5 DEF HopsEnd
<1>6. CASE WriteFails
  BY <1>6 DEF WriteFails
<1>7. CASE Send
  BY <1>7 DEF Send
<1>8. CASE ReadAnswer
  BY <1>8 DEF ReadAnswer
<1>9. CASE ReadTimeout
  BY <1>9 DEF ReadTimeout
<1>10. CASE Record
  <2>1. Len(fields') = Len(fields) + 1 /\ Len(fields) = ttl - 1 /\ ttl <= maxHops
    BY <1>10, OneMore DEF Record
  <2>2. CASE reachedDst
    BY <1>10, <2>1, <2>2 DEF Record
  <2>3. CASE ~reachedDst
    BY <1>10, <2>1, <2>3 DEF Record
  <2>4. QED
    BY <2>2, <2>3
<1>11. CASE Arrive
  BY <1>11 DEF Arrive
<1>12. CASE Foreign
  BY <1>12 DEF Foreign
<1>13. CASE Cancel
  BY <1>13 DEF Cancel
<1>14. CASE UNCHANGED vars
  BY <1>14 DEF vars
<1>15. QED
  BY <1>1, <1>2, <1>3, <1>4, <1>5, <1>6, <1>7, <1>8, <1>9, <1>10, <1>11, <1>12, <1>13, <1>14
  DEF Next, TraceStep, Terminated

\* Only a hop that is recorded, and a trace that is given up, change what is
\* reported.
LEMMA HopsKept ==
  ASSUME TypeInv, LoopInv, HopsRecorded, [Next]_vars
  PROVE  HopsRecorded'
<1>1. CASE Fails
  <2>1. fields' = <<>> /\ reached' = 0 /\ Len(fields') = 0
    BY <1>1, EmptySeq DEF Fails
  <2>2. QED
    BY <2>1 DEF HopsRecorded
<1>2. CASE Record
  <2> DEFINE n == Len(fields)
  <2>1. /\ n \in Nat /\ ttl = n + 1 /\ reached \in Nat /\ heard \in BOOLEAN
        /\ Len(fields') = n + 1 /\ fields'[n + 1] = heard
        /\ \A i \in 1 .. n : fields'[i] = fields[i]
        /\ reached' = IF heard THEN n + 1 ELSE reached
    <3>1. ttl = n + 1 /\ fields \in Seq(BOOLEAN) /\ heard \in BOOLEAN
      BY <1>2, LenProperties DEF Record, TypeInv, LoopInv
    <3>2. QED
      BY <1>2, <3>1, OneMore DEF Record, TypeInv
  <2>2. /\ reached <= n /\ (reached > 0 => fields[reached])
        /\ \A i \in reached + 1 .. n : ~fields[i]
    BY DEF HopsRecorded
  <2> HIDE DEF n
  <2>3. CASE heard
    <3>1. reached' = n + 1
      BY <2>1, <2>3
    <3>2. fields'[n + 1]
      BY <2>1, <2>3, Zenon
    <3>3. n + 1 <= n + 1 /\ n + 1 + 1 .. n + 1 = {}
      BY <2>1
    <3>4. QED
      BY <2>1, <3>1, <3>2, <3>3, Zenon DEF HopsRecorded
  <2>4. CASE ~heard
    <3>1. reached > 0 => fields'[reached]
      BY <2>1, <2>2
    <3>2. ASSUME NEW i \in reached + 1 .. n + 1 PROVE ~fields'[i]
      <4>1. i = n + 1 \/ (i \in reached + 1 .. n /\ i \in 1 .. n)
        BY <2>1, <3>2
      <4>2. QED
        BY <2>1, <2>2, <2>4, <4>1
    <3>3. QED
      BY <2>1, <2>2, <2>4, <3>1, <3>2 DEF HopsRecorded
  <2>5. QED
    BY <2>3, <2>4
<1>3. ASSUME UNCHANGED <<fields, reached>> PROVE HopsRecorded'
  BY <1>3 DEF HopsRecorded
<1>4. CASE OpenOk \/ SeeCancel \/ BeginHop \/ HopsEnd \/ WriteFails \/ Send \/ ReadAnswer
             \/ ReadTimeout \/ Arrive \/ Foreign \/ Cancel \/ UNCHANGED vars
  BY <1>3, <1>4 DEF OpenOk, SeeCancel, BeginHop, HopsEnd, WriteFails, Send, ReadAnswer,
     ReadTimeout, Arrive, Foreign, Cancel, vars, result
<1>5. QED
  BY <1>1, <1>2, <1>4 DEF Next, TraceStep, Terminated

\* Until a message is delayed or foreign, the socket is empty but for the
\* answer that is waited for.
LEMMA QuietKept ==
  ASSUME TypeInv, LoopInv, QuietInv, [Next]_vars
  PROVE  QuietInv'
<1> USE DEF QuietInv, setting, hop, result, network
<1>a. UNCHANGED <<ttl, distance>> => Answer' = Answer
  BY DEF Answer
<1>b. ttl \in Nat /\ distance \in Nat /\ noise \in Nat
  BY DEF TypeInv
<1>1. CASE OpenOk \/ Fails \/ SeeCancel
  BY <1>1, <1>a DEF OpenOk, Fails, SeeCancel
<1>2. CASE BeginHop \/ HopsEnd
  BY <1>2, <1>a DEF BeginHop, HopsEnd
<1>3. CASE WriteFails
  BY <1>3, <1>a DEF WriteFails
<1>4. CASE Send
  <2>1. UNCHANGED <<ttl, distance, reachedDst>> /\ pc = "probe" /\ pc' = "await"
    BY <1>4 DEF Send
  <2>2. ASSUME noise' = 0
        PROVE  noise = 0 /\ late' = late /\ queue' \in {queue, Append(queue, Answer)}
    BY <1>4, <1>b, <2>2 DEF Send
  <2>3. noise = 0 => late = <<>> /\ queue = <<>> /\ (reachedDst => ttl >= distance)
    BY <2>1
  <2>4. Append(<<>>, Answer) = <<Answer>>
    BY Only
  <2>5. QED
    BY <1>a, <2>1, <2>2, <2>3, <2>4
<1>5. CASE ReadAnswer
  <2>1. /\ UNCHANGED <<ttl, distance, late, noise>> /\ pc' = "probe" /\ queue # <<>>
        /\ reachedDst' = (reachedDst \/ Head(queue) = "dst") /\ queue' = Tail(queue)
    BY <1>5 DEF ReadAnswer
  <2>2. ASSUME noise = 0 PROVE queue = <<Answer>> /\ queue' = <<>> /\ Head(queue) = Answer
    BY <2>1, <2>2, Only
  <2>3. Answer = "dst" => ttl >= distance
    BY <1>b DEF Answer
  <2>4. QED
    BY <2>1, <2>2, <2>3
<1>6. CASE ReadTimeout
  BY <1>6, <1>a DEF ReadTimeout
<1>7. CASE Record
  <2>1. UNCHANGED <<late, noise, queue, distance, reachedDst>> /\ pc = "probe"
        /\ pc' \in {"hop", "done"} /\ ttl' \in {ttl, ttl + 1}
    BY <1>7 DEF Record
  <2>2. ttl >= distance => ttl' >= distance'
    BY <1>b, <2>1
  <2>3. noise = 0 => queue' = <<>>
    BY <2>1
  <2>4. QED
    BY <2>1, <2>2, <2>3
<1>8. CASE Arrive
  BY <1>8, <1>b DEF Arrive
<1>9. CASE Foreign
  BY <1>9, <1>b DEF Foreign
<1>10. CASE Cancel \/ UNCHANGED vars
  BY <1>10, <1>a DEF Cancel, vars
<1>11. QED
  BY <1>1, <1>2, <1>3, <1>4, <1>5, <1>6, <1>7, <1>8, <1>9, <1>10
  DEF Next, TraceStep, Terminated

\* Until an answer is lost, too, each hop is answered, and the destination at
\* its distance.
LEMMA ExactKept ==
  ASSUME TypeInv, LoopInv, QuietInv, ExactInv, [Next]_vars
  PROVE  ExactInv'
<1> USE DEF ExactInv, setting, hop, result, network
<1>b. /\ ttl \in Nat /\ distance \in Nat /\ noise \in Nat /\ probe \in Nat /\ probes > 0
      /\ lost \in BOOLEAN /\ distance > 0 /\ ttl > 0 /\ heard \in BOOLEAN
      /\ reachedDst \in BOOLEAN /\ probes \in Nat
  BY DEF TypeInv
<1>1. CASE OpenOk \/ SeeCancel \/ Fails
  BY <1>1 DEF OpenOk, SeeCancel, Fails
<1>2. CASE BeginHop \/ HopsEnd
  BY <1>2 DEF BeginHop, HopsEnd
<1>3. CASE WriteFails
  BY <1>3 DEF WriteFails
<1>4. CASE Send
  <2>1. /\ UNCHANGED <<ttl, distance, probe, heard, reachedDst, reached, fields>>
        /\ pc = "probe" /\ pc' = "await"
    BY <1>4 DEF Send
  <2>2. ASSUME noise' = 0, ~lost'
        PROVE  noise = 0 /\ ~lost /\ queue' = Append(queue, Answer)
    BY <1>4, <1>b, <2>2 DEF Send
  <2>3. queue \in Seq(Senders) /\ Append(queue, Answer) # <<>>
    BY AnswerIsSender, OneMore DEF TypeInv
  <2>4. QED
    BY <2>1, <2>2, <2>3
<1>5. CASE ReadAnswer
  <2>1. /\ UNCHANGED <<ttl, distance, noise, lost, reached, fields>>
        /\ pc = "await" /\ pc' = "probe" /\ queue # <<>> /\ heard' = TRUE
        /\ reachedDst' = (reachedDst \/ Head(queue) = "dst")
    BY <1>5 DEF ReadAnswer
  <2>2. ASSUME noise = 0
        PROVE  Head(queue) = Answer /\ (reachedDst => ttl >= distance)
    BY <2>1, <2>2, Only DEF QuietInv
  <2>3. ttl <= distance => (Answer = "dst" <=> ttl = distance)
    BY <1>b DEF Answer
  <2>4. ttl <= distance /\ ttl >= distance => ttl = distance
    BY <1>b
  <2>5. QED
    BY <2>1, <2>2, <2>3, <2>4
<1>6. CASE ReadTimeout
  BY <1>6 DEF ReadTimeout
<1>7. CASE Record
  <2> DEFINE n == Len(fields)
  <2>1. /\ UNCHANGED <<noise, lost, distance, heard, reachedDst>> /\ pc = "probe"
        /\ probe > 0 /\ pc' \in {"hop", "done"} /\ ttl = n + 1 /\ n \in Nat
        /\ fields' = Append(fields, heard)
        /\ reached' = (IF heard THEN ttl ELSE reached)
        /\ ttl' = (IF reachedDst THEN ttl ELSE ttl + 1)
    BY <1>7, <1>b, LenProperties DEF Record, LoopInv, TypeInv
  <2>2. /\ Len(fields') = n + 1 /\ fields'[n + 1] = heard
        /\ \A i \in 1 .. n : fields'[i] = fields[i]
    BY <1>b, <2>1, OneMore DEF TypeInv
  <2>3. ASSUME noise = 0, ~lost
        PROVE  /\ ttl <= distance /\ heard /\ (reachedDst <=> ttl = distance)
               /\ \A i \in 1 .. n : fields[i]
    BY <2>1, <2>3
  <2> HIDE DEF n
  <2>4. ASSUME noise = 0, ~lost
        PROVE  ttl' <= distance /\ reached' = Len(fields')
    BY <1>b, <2>1, <2>2, <2>3, <2>4
  <2>5. ASSUME noise = 0, ~lost, NEW i \in 1 .. n + 1
        PROVE  fields'[i]
    <3>1. i = n + 1 \/ i \in 1 .. n
      BY <2>1
    <3>2. QED
      BY <2>2, <2>3, <2>5, <3>1
  <2>6. QED
    BY <2>1, <2>2, <2>4, <2>5
<1>8. CASE Arrive
  <2>1. noise # 0
    BY <1>8 DEF Arrive, QuietInv
  <2>2. QED
    BY <1>8, <2>1 DEF Arrive
<1>9. CASE Foreign
  BY <1>9, <1>b DEF Foreign
<1>10. CASE Cancel \/ UNCHANGED vars
  BY <1>10 DEF Cancel, vars
<1>11. QED
  BY <1>1, <1>2, <1>3, <1>4, <1>5, <1>6, <1>7, <1>8, <1>9, <1>10
  DEF Next, TraceStep, Terminated

\* The invariant holds when a trace begins.
LEMMA InvInit == Init => Inv
<1> SUFFICES ASSUME Init PROVE Inv
  OBVIOUS
<1>1. /\ <<>> \in Seq(BOOLEAN) /\ <<>> \in Seq(Senders) /\ Len(<<>>) = 0
      /\ \A d \in Distances : d \in Nat /\ d > 0
  BY TraceAssumption, EmptySeq
<1>2. /\ maxHops \in Nat /\ maxHops > 0 /\ probes \in Nat /\ probes > 0
      /\ distance \in Nat /\ distance > 0
  BY <1>1, TraceAssumption DEF Init
<1>3. TypeInv
  <2>1. fields \in Seq(BOOLEAN)
    BY <1>1 DEF Init
  <2>2. queue \in Seq(Senders) /\ late \in Seq(Senders)
    BY <1>1 DEF Init
  <2>3. /\ heard \in BOOLEAN /\ reachedDst \in BOOLEAN /\ lost \in BOOLEAN
        /\ cancelled \in BOOLEAN /\ complete \in {"unset", "yes", "no"}
        /\ pc \in {"open", "hop", "probe", "await", "done", "skipped"}
    BY DEF Init
  <2>4. ttl \in Nat /\ ttl > 0 /\ probe \in Nat /\ reached \in Nat /\ noise \in Nat
    BY DEF Init
  <2>5. QED
    BY <1>2, <2>1, <2>2, <2>3, <2>4 DEF TypeInv
<1>4. LoopInv
  BY <1>1, <1>2 DEF Init, LoopInv
<1>5. HopsRecorded /\ QuietInv /\ ExactInv
  BY <1>1, <1>2 DEF Init, HopsRecorded, QuietInv, ExactInv
<1>6. QED
  BY <1>3, <1>4, <1>5 DEF Inv

\* Every step keeps it.
LEMMA InvKept == Inv /\ [Next]_vars => Inv'
BY TypeKept, LoopKept, HopsKept, QuietKept, ExactKept DEF Inv

\* A trace is complete when its last hop, which is the one recorded as reached,
\* was answered by the destination.
LEMMA Verdicts == Inv => CompleteWhenQuiet /\ ExactWhenQuiet
<1> SUFFICES ASSUME Inv PROVE CompleteWhenQuiet /\ ExactWhenQuiet
  OBVIOUS
<1>1. /\ ttl \in Nat /\ distance \in Nat /\ maxHops \in Nat /\ reached \in Nat
      /\ complete \in {"unset", "yes", "no"} /\ cancelled \in BOOLEAN
  BY DEF Inv, TypeInv
<1>2. ASSUME noise = 0, complete = "yes"
      PROVE  reached >= distance /\ (~lost => reached = distance)
  <2>1. reached = ttl /\ reachedDst /\ pc = "done"
    BY <1>2 DEF Inv, LoopInv
  <2>2. ttl >= distance
    BY <1>2, <2>1 DEF Inv, QuietInv
  <2>3. ~lost => ttl <= distance
    BY <1>2, <2>1 DEF Inv, ExactInv
  <2>4. QED
    BY <1>1, <2>1, <2>2, <2>3
<1>3. ASSUME pc = "done", noise = 0, ~lost, ~cancelled
      PROVE  /\ complete = (IF distance <= maxHops THEN "yes" ELSE "no")
             /\ reached = (IF distance <= maxHops THEN distance ELSE maxHops)
             /\ \A i \in 1 .. reached : fields[i]
  <2>1. ttl <= distance /\ reached = Len(fields) /\ \A i \in 1 .. Len(fields) : fields[i]
    BY <1>3 DEF Inv, ExactInv
  <2>2. CASE complete = "yes"
    <3>1. reached = distance /\ reached = ttl /\ ttl <= maxHops
      BY <1>2, <1>3, <2>2 DEF Inv, LoopInv
    <3>2. QED
      BY <2>1, <2>2, <3>1
  <2>3. CASE complete = "no"
    <3>1. ttl = maxHops + 1 /\ reached = maxHops
      BY <2>1, <2>3 DEF Inv, LoopInv
    <3>2. ~(distance <= maxHops)
      BY <1>1, <2>1, <3>1
    <3>3. QED
      BY <2>1, <2>3, <3>1, <3>2
  <2>4. complete # "unset"
    BY <1>3 DEF Inv, LoopInv
  <2>5. QED
    BY <1>1, <2>2, <2>3, <2>4
<1>4. QED
  BY <1>2, <1>3 DEF CompleteWhenQuiet, ExactWhenQuiet

-----------------------------------------------------------------------------
\* Whatever the socket delivers and loses, trace_hops is the last of the hops
\* with an RTT (trace.go 132-139), so what the command line prints up to it
\* misses none (main.go 1116-1120).
THEOREM TraceRecorded == Spec => []HopsRecorded
<1>1. Inv => HopsRecorded
  BY DEF Inv
<1>2. QED
  BY <1>1, InvInit, InvKept, PTL DEF Spec

\* A trace that was not disturbed and calls itself complete has come as far as
\* the destination, and no further unless answers were lost
\* (trace.go 106-144).
THEOREM CompleteTrace == Spec => []CompleteWhenQuiet
<1>1. Inv => CompleteWhenQuiet
  BY Verdicts
<1>2. QED
  BY <1>1, InvInit, InvKept, PTL DEF Spec

\* A trace that was neither disturbed nor cut short, and lost nothing, is
\* complete just when the destination is within the hops it may make
\* (trace.go 41-144).
THEOREM ExactTrace == Spec => []ExactWhenQuiet
<1>1. Inv => ExactWhenQuiet
  BY Verdicts
<1>2. QED
  BY <1>1, InvInit, InvKept, PTL DEF Spec

=============================================================================
