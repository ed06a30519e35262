--------------------------- MODULE ReflectorProofs ---------------------------
(***************************************************************************)
(* What Reflector promises for any sockets, sources, rate and capacity.    *)
(*                                                                         *)
(* Two arguments.  The counters: slots, running, seqNumber and reflected   *)
(* are the sizes of sets of packets, because a packet belongs to one serve *)
(* loop until it has a handler, and to that handler until it is done.  The *)
(* rate: what a source was let in since any moment, and the tokens it has  *)
(* left, never exceed what its bucket held and has earned since.           *)
(***************************************************************************)
EXTENDS Reflector, FiniteSetTheorems, SequenceTheorems, TLAPS

\* A packet is in the hands of one loop, or of its handler.
OwnerInv ==
  /\ \A p \in Packets : p > read => hPc[p] = "none"
  /\ \A c \in Conns :
        lPc[c] = "enter" => lPkt[c] \in 1 .. read /\ hPc[lPkt[c]] = "none"
  /\ \A c, d \in Conns :
        lPc[c] = "enter" /\ lPc[d] = "enter" /\ lPkt[c] = lPkt[d] => c = d
  /\ \A p \in Packets : hPc[p] \in {"none", "start"} => hSeq[p] = 0
  /\ \A p \in Packets : hPc[p] \in {"write", "count"} => hSeq[p] # 0

Active == {p \in Packets : hPc[p] \in {"start", "write", "count"}}
Counting == {p \in Packets : hPc[p] = "count"}
Done == {p \in Packets : hPc[p] = "done"}
Numbered == {p \in Packets : hSeq[p] # 0}

\* The counters count packets.
CountInv ==
  /\ slots = Cardinality(Active) /\ running = slots
  /\ seqNumber = Cardinality(Numbered)
  /\ \A p \in Packets : hSeq[p] <= seqNumber
  /\ \A p, q \in Packets : hSeq[p] # 0 /\ hSeq[p] = hSeq[q] => p = q
  /\ reflected + Cardinality(Counting) = Cardinality(replies)
  /\ reflected <= Cardinality(Done)
  /\ \A p, n \in Packets :
        <<p, n>> \in replies => hPc[p] \in {"count", "done"} /\ n = hSeq[p]

Admissions == [src : Sources, at : 0 .. MaxTime]

\* The packets of a source let in since the i-th.
Since(s, i) == {k \in i .. Len(admitted) : admitted[k].src = s}

\* The tokens spent since the i-th packet was let in, and those that are left,
\* are no more than the bucket held then and has earned since.
BucketInv ==
  /\ admitted \in Seq(Admissions)
  /\ \A s \in Sources : bucket[s].lastFill <= now
  /\ Rate > 0 =>
       \A i \in 1 .. Len(admitted) :
         LET s == admitted[i].src
         IN  Cardinality(Since(s, i)) + bucket[s].tokens
               <= Rate + (bucket[s].lastFill - admitted[i].at)

-----------------------------------------------------------------------------

\* The size of a set of packets, and what one packet more or less does to it.
LEMMA PacketSets ==
  ASSUME NEW S \in SUBSET Packets, NEW p \in Packets
  PROVE  /\ Cardinality(S) \in Nat /\ Cardinality(S) <= MaxPackets
         /\ p \in S => Cardinality(S) >= 1 /\ Cardinality(S \ {p}) = Cardinality(S) - 1
         /\ p \notin S => /\ Cardinality(S \cup {p}) = Cardinality(S) + 1
                         /\ Cardinality(S) < MaxPackets
<1>1. IsFiniteSet(Packets) /\ Cardinality(Packets) = MaxPackets
  BY FS_Interval, ReflectorAssumption DEF Packets
<1>2. \A T \in SUBSET Packets :
        IsFiniteSet(T) /\ Cardinality(T) \in Nat /\ Cardinality(T) <= MaxPackets
  BY <1>1, FS_Subset, FS_CardinalityType
<1>3. p \in S => Cardinality(S \ {p}) = Cardinality(S) - 1
  BY <1>2, FS_RemoveElement
<1>4. p \notin S => Cardinality(S \cup {p}) = Cardinality(S) + 1
  BY <1>2, FS_AddElement
<1>5. Cardinality(S \ {p}) \in Nat /\ Cardinality(S \cup {p}) <= MaxPackets
  BY <1>2
<1>6. Cardinality(S) \in Nat /\ Cardinality(S) <= MaxPackets /\ MaxPackets \in Nat
  BY <1>2, ReflectorAssumption
<1>7. QED
  BY <1>3, <1>4, <1>5, <1>6

\* The counters that no step of a handler moves stay true.
LEMMA CountStays ==
  ASSUME CountInv, UNCHANGED <<slots, running, hPc, hSeq, seqNumber, reflected, replies>>
  PROVE  CountInv'
BY DEF CountInv, Active, Counting, Done, Numbered

\* How the sets of packets change when a handler moves on.
LEMMA HandlerMoves ==
  ASSUME TypeOK, NEW p \in Packets, NEW where, Step(p, where),
         where \in {"start", "write", "count", "done"}
  PROVE  /\ Active' = IF where = "done" THEN Active \ {p} ELSE Active \cup {p}
         /\ Counting' = IF where = "count" THEN Counting \cup {p} ELSE Counting \ {p}
         /\ Done' = IF where = "done" THEN Done \cup {p} ELSE Done \ {p}
         /\ hPc'[p] = where
         /\ \A q \in Packets : q # p => hPc'[q] = hPc[q]
<1>1. hPc'[p] = where /\ \A q \in Packets : q # p => hPc'[q] = hPc[q]
  BY DEF Step, TypeOK
<1>2. QED
  BY <1>1 DEF Active, Counting, Done

\* The deferred calls of a handler that has sent no reply, or has counted it.
LEMMA ReleaseCounts ==
  ASSUME TypeOK, CountInv, NEW p \in Packets, hPc[p] \in {"start", "write"},
         Release(p), UNCHANGED <<hSeq, seqNumber, reflected, replies>>
  PROVE  CountInv' /\ slots' \in 0 .. MaxConcurrent /\ running' \in 0 .. MaxConcurrent
<1>1. /\ Active' = Active \ {p} /\ Counting' = Counting \ {p} /\ Done' = Done \cup {p}
      /\ hPc'[p] = "done" /\ \A q \in Packets : q # p => hPc'[q] = hPc[q]
  BY HandlerMoves DEF Release
<1>2. p \in Active /\ p \notin Counting /\ p \notin Done
  BY DEF Active, Counting, Done
<1>3. Active \in SUBSET Packets /\ Done \in SUBSET Packets
  BY DEF Active, Done
<1>4. /\ Cardinality(Active') = Cardinality(Active) - 1
      /\ Cardinality(Active) >= 1
      /\ Cardinality(Done') = Cardinality(Done) + 1
      /\ Cardinality(Done) \in Nat
      /\ Counting' = Counting
  <2>1. /\ Cardinality(Active \ {p}) = Cardinality(Active) - 1
        /\ Cardinality(Active) >= 1
    BY <1>2, <1>3, PacketSets
  <2>2. /\ Cardinality(Done \cup {p}) = Cardinality(Done) + 1
        /\ Cardinality(Done) \in Nat
    BY <1>2, <1>3, PacketSets
  <2>3. QED
    BY <1>1, <1>2, <2>1, <2>2
<1>5. slots' = slots - 1 /\ running' = running - 1 /\ slots = Cardinality(Active) /\ running = slots
  BY DEF Release, CountInv
<1>6. slots' \in 0 .. MaxConcurrent /\ running' \in 0 .. MaxConcurrent
  BY <1>4, <1>5, ReflectorAssumption DEF TypeOK
<1>7. slots' = Cardinality(Active)' /\ running' = slots'
  BY <1>4, <1>5
<1>8. (seqNumber = Cardinality(Numbered))'
  BY DEF CountInv, Numbered
<1>9. (reflected <= Cardinality(Done))'
  BY <1>4 DEF CountInv, TypeOK
<1>10. \A q, n \in Packets :
         <<q, n>> \in replies' => hPc'[q] \in {"count", "done"} /\ n = hSeq'[q]
  BY <1>1, <1>2 DEF CountInv
<1>11. QED
  BY <1>4, <1>6, <1>7, <1>8, <1>9, <1>10 DEF CountInv

\* A step of a handler keeps the counters.
LEMMA HandlerCounts ==
  ASSUME TypeOK, OwnerInv, CountInv, NEW p \in Packets, HandlerStep(p)
  PROVE  /\ CountInv'
         /\ slots' \in 0 .. MaxConcurrent /\ running' \in 0 .. MaxConcurrent
         /\ seqNumber' \in 0 .. MaxPackets /\ reflected' \in 0 .. MaxPackets
         /\ hSeq' \in [Packets -> 0 .. MaxPackets]
         /\ replies' \subseteq Packets \X Packets
<1>a. /\ Active \in SUBSET Packets /\ Counting \in SUBSET Packets
      /\ Done \in SUBSET Packets /\ Numbered \in SUBSET Packets
  BY DEF Active, Counting, Done, Numbered
<1>b. IsFiniteSet(replies)
  <2>1. IsFiniteSet(Packets)
    BY FS_Interval, ReflectorAssumption DEF Packets
  <2>2. IsFiniteSet(Packets \X Packets)
    BY <2>1, FS_Product
  <2>3. QED
    BY <2>2, FS_Subset DEF TypeOK
<1>c. Cardinality(replies) \in Nat
  BY <1>b, FS_CardinalityType
<1>1. CASE Invalid(p)
  BY <1>1, ReleaseCounts DEF Invalid, TypeOK
<1>2. CASE TakeSeq(p)
  <2>1. /\ Active' = Active \cup {p} /\ Counting' = Counting \ {p} /\ Done' = Done \ {p}
        /\ hPc'[p] = "write" /\ \A q \in Packets : q # p => hPc'[q] = hPc[q]
    BY <1>2, HandlerMoves DEF TakeSeq
  <2>2. hPc[p] = "start" /\ hSeq[p] = 0
    BY <1>2 DEF TakeSeq, OwnerInv
  <2>3. Active' = Active /\ Counting' = Counting /\ Done' = Done /\ p \notin Numbered
    BY <2>1, <2>2 DEF Active, Counting, Done, Numbered
  <2>4. Cardinality(Numbered) < MaxPackets /\ Cardinality(Numbered) \in Nat
        /\ Cardinality(Numbered \cup {p}) = Cardinality(Numbered) + 1
    BY <1>a, <2>3, PacketSets
  <2>5. seqNumber' = seqNumber + 1 /\ hSeq' = [hSeq EXCEPT ![p] = seqNumber + 1]
    BY <1>2 DEF TakeSeq
  <2>6. seqNumber \in Nat /\ seqNumber' \in 1 .. MaxPackets
    BY <2>4, <2>5, ReflectorAssumption DEF CountInv
  <2>7. hSeq' \in [Packets -> 0 .. MaxPackets]
    BY <2>5, <2>6 DEF TypeOK
  <2>8. hSeq'[p] = seqNumber + 1 /\ \A q \in Packets : q # p => hSeq'[q] = hSeq[q]
    BY <2>5 DEF TypeOK
  <2>9. Numbered' = Numbered \cup {p}
    BY <2>6, <2>8 DEF Numbered
  <2>10. (seqNumber = Cardinality(Numbered))'
    BY <2>4, <2>5, <2>9 DEF CountInv
  <2>11. \A q \in Packets : hSeq[q] <= seqNumber /\ hSeq[q] \in Nat
    BY DEF CountInv, TypeOK
  <2>12. (\A q \in Packets : hSeq[q] <= seqNumber)'
    BY <2>5, <2>6, <2>8, <2>11
  <2>13. (\A q, r \in Packets : hSeq[q] # 0 /\ hSeq[q] = hSeq[r] => q = r)'
    BY <2>6, <2>8, <2>11 DEF CountInv
  <2>14. UNCHANGED <<slots, running, reflected, replies>>
    BY <1>2 DEF TakeSeq
  <2>15. \A q, n \in Packets :
           <<q, n>> \in replies' => hPc'[q] \in {"count", "done"} /\ n = hSeq'[q]
    BY <2>1, <2>2, <2>8, <2>14 DEF CountInv
  <2>16. slots' = Cardinality(Active)' /\ running' = slots'
    BY <2>3, <2>14 DEF CountInv
  <2>17. /\ reflected' + Cardinality(Counting)' = Cardinality(replies')
         /\ reflected' <= Cardinality(Done)'
    BY <2>3, <2>14 DEF CountInv
  <2>18. CountInv'
    BY <2>10, <2>12, <2>13, <2>15, <2>16, <2>17 DEF CountInv
  <2>19. /\ slots' \in 0 .. MaxConcurrent /\ running' \in 0 .. MaxConcurrent
         /\ reflected' \in 0 .. MaxPackets /\ replies' \subseteq Packets \X Packets
    BY <2>14 DEF TypeOK
  <2>20. seqNumber' \in 0 .. MaxPackets
    BY <2>6
  <2>21. QED
    BY <2>7, <2>18, <2>19, <2>20
<1>3. CASE WriteOk(p)
  <2>1. /\ Active' = Active \cup {p} /\ Counting' = Counting \cup {p} /\ Done' = Done \ {p}
        /\ hPc'[p] = "count" /\ \A q \in Packets : q # p => hPc'[q] = hPc[q]
    BY <1>3, HandlerMoves DEF WriteOk
  <2>2. hPc[p] = "write" /\ hSeq[p] \in Packets
    BY <1>3 DEF WriteOk, OwnerInv, TypeOK, Packets
  <2>3. Active' = Active /\ Done' = Done /\ p \notin Counting
    BY <2>1, <2>2 DEF Active, Counting, Done
  <2>4. Cardinality(Counting \cup {p}) = Cardinality(Counting) + 1
        /\ Cardinality(Counting) \in Nat
    <3>1. p \notin Counting /\ Counting \in SUBSET Packets
      BY <1>a, <2>3
    <3>2. QED
      BY <3>1, PacketSets
  <2>5. replies' = replies \cup {<<p, hSeq[p]>>} /\ <<p, hSeq[p]>> \notin replies
    BY <1>3, <2>2 DEF WriteOk, CountInv
  <2>6. Cardinality(replies') = Cardinality(replies) + 1
    BY <1>b, <2>5, FS_AddElement
  <2>7. UNCHANGED <<slots, running, hSeq, seqNumber, reflected>>
    BY <1>3 DEF WriteOk
  <2>8. Numbered' = Numbered
    BY <2>7 DEF Numbered
  <2>9. (reflected + Cardinality(Counting) = Cardinality(replies))'
    BY <1>c, <2>1, <2>4, <2>6, <2>7 DEF CountInv, TypeOK
  <2>10. \A q, n \in Packets :
           <<q, n>> \in replies' => hPc'[q] \in {"count", "done"} /\ n = hSeq'[q]
    BY <2>1, <2>5, <2>7 DEF CountInv
  <2>11. replies' \subseteq Packets \X Packets
    BY <2>2, <2>5 DEF TypeOK
  <2>12. QED
    BY <2>3, <2>7, <2>8, <2>9, <2>10, <2>11 DEF CountInv, TypeOK
<1>4. CASE WriteFail(p)
  BY <1>4, ReleaseCounts DEF WriteFail, TypeOK
<1>5. CASE Count(p)
  <2>1. /\ Active' = Active \ {p} /\ Counting' = Counting \ {p} /\ Done' = Done \cup {p}
        /\ hPc'[p] = "done" /\ \A q \in Packets : q # p => hPc'[q] = hPc[q]
    BY <1>5, HandlerMoves DEF Count, Release
  <2>2. p \in Active /\ p \in Counting /\ p \notin Done
    BY <1>5 DEF Count, Active, Counting, Done
  <2>3. Cardinality(Active') = Cardinality(Active) - 1 /\ Cardinality(Active) >= 1
    BY <1>a, <2>1, <2>2, PacketSets
  <2>4. /\ Cardinality(Counting') = Cardinality(Counting) - 1
        /\ Cardinality(Counting) \in Nat
    BY <1>a, <2>1, <2>2, PacketSets
  <2>5. /\ Cardinality(Done') = Cardinality(Done) + 1
        /\ Cardinality(Done) \in Nat /\ Cardinality(Done) < MaxPackets
    BY <1>a, <2>1, <2>2, PacketSets
  <2>6. /\ slots' = slots - 1 /\ running' = running - 1 /\ reflected' = reflected + 1
        /\ UNCHANGED <<hSeq, seqNumber, replies>>
    BY <1>5 DEF Count, Release
  <2>7. Numbered' = Numbered
    BY <2>6 DEF Numbered
  <2>8. slots' = Cardinality(Active)' /\ running' = slots'
    BY <2>3, <2>6 DEF CountInv
  <2>9. slots' \in 0 .. MaxConcurrent
    BY <2>3, <2>6, ReflectorAssumption DEF CountInv, TypeOK
  <2>10. (reflected + Cardinality(Counting) = Cardinality(replies))'
    BY <1>c, <2>4, <2>6 DEF CountInv, TypeOK
  <2>11. (reflected <= Cardinality(Done))' /\ reflected' \in 0 .. MaxPackets
    BY <2>5, <2>6, ReflectorAssumption DEF CountInv, TypeOK
  <2>12. \A q, n \in Packets :
           <<q, n>> \in replies' => hPc'[q] \in {"count", "done"} /\ n = hSeq'[q]
    BY <2>1, <2>6 DEF CountInv
  <2>13. QED
    BY <2>6, <2>7, <2>8, <2>9, <2>10, <2>11, <2>12 DEF CountInv, TypeOK
<1>6. QED
  BY <1>1, <1>2, <1>3, <1>4, <1>5 DEF HandlerStep

\* A packet that enters takes a slot, and is counted with the packets at work.
LEMMA EnterCounts ==
  ASSUME TypeOK, OwnerInv, CountInv, NEW c \in Conns, Enter(c)
  PROVE  /\ CountInv'
         /\ slots' \in 0 .. MaxConcurrent /\ running' \in 0 .. MaxConcurrent
<1> DEFINE p == lPkt[c]
<1>1. p \in Packets /\ hPc[p] = "none"
  BY DEF Enter, OwnerInv, TypeOK, Packets
<1>2. Step(p, "start")
  BY DEF Enter, Step
<1>3. /\ Active' = Active \cup {p} /\ Counting' = Counting \ {p} /\ Done' = Done \ {p}
      /\ hPc'[p] = "start" /\ \A q \in Packets : q # p => hPc'[q] = hPc[q]
  <2> HIDE DEF p
  <2> QED
    BY <1>1, <1>2, HandlerMoves
<1> HIDE DEF p
<1>4. p \notin Active /\ Counting' = Counting /\ Done' = Done /\ Active \in SUBSET Packets
  BY <1>1, <1>3 DEF Active, Counting, Done
<1>5. Cardinality(Active \cup {p}) = Cardinality(Active) + 1 /\ Cardinality(Active) \in Nat
  BY <1>1, <1>4, PacketSets
<1>6. /\ slots' = slots + 1 /\ running' = running + 1 /\ slots < MaxConcurrent
      /\ UNCHANGED <<hSeq, seqNumber, reflected, replies>>
  BY DEF Enter
<1>7. slots' = Cardinality(Active)' /\ running' = slots'
  BY <1>3, <1>5, <1>6 DEF CountInv
<1>8. slots' \in 0 .. MaxConcurrent
  BY <1>6, ReflectorAssumption DEF TypeOK
<1>9. Numbered' = Numbered
  BY <1>6 DEF Numbered
<1>10. \A q, n \in Packets :
         <<q, n>> \in replies' => hPc'[q] \in {"count", "done"} /\ n = hSeq'[q]
  BY <1>1, <1>3, <1>6 DEF CountInv
<1>11. QED
  BY <1>4, <1>6, <1>7, <1>8, <1>9, <1>10 DEF CountInv

\* No step gives a packet a second owner.
LEMMA OwnerStep ==
  ASSUME TypeOK, OwnerInv, CountInv, Next
  PROVE  OwnerInv'
<1>1. ASSUME NEW c \in Conns, NEW s \in Sources, Read(c, s) PROVE OwnerInv'
  <2>1. /\ read' = read + 1 /\ read < MaxPackets /\ UNCHANGED <<hPc, hSeq>>
    BY <1>1 DEF Read, handlers
  <2>2. \/ lPc' = [lPc EXCEPT ![c] = "select"] /\ UNCHANGED lPkt
        \/ lPc' = [lPc EXCEPT ![c] = "enter"] /\ lPkt' = [lPkt EXCEPT ![c] = read + 1]
    BY <1>1 DEF Read, Goto
  <2>3. read \in Nat /\ read + 1 \in Packets
    BY <2>1, ReflectorAssumption DEF TypeOK, Packets
  <2>4. \A p \in Packets : p > read' => hPc'[p] = "none"
    BY <2>1, <2>3 DEF OwnerInv, Packets
  <2>5. hPc[read + 1] = "none"
    BY <2>3 DEF OwnerInv
  <2>6. \A d \in Conns : lPc[d] = "enter" => lPkt[d] \in 1 .. read /\ lPkt[d] # read + 1
    BY <2>3 DEF OwnerInv
  <2>7. \A d \in Conns : lPc'[d] = "enter" => lPkt'[d] \in 1 .. read' /\ hPc'[lPkt'[d]] = "none"
    <3> SUFFICES ASSUME NEW d \in Conns, lPc'[d] = "enter"
                 PROVE  lPkt'[d] \in 1 .. read' /\ hPc'[lPkt'[d]] = "none"
      OBVIOUS
    <3>1. CASE d = c
      BY <2>1, <2>2, <2>3, <2>5, <3>1 DEF TypeOK
    <3>2. CASE d # c
      <4>1. lPc[d] = "enter" /\ lPkt'[d] = lPkt[d]
        BY <2>2, <3>2 DEF TypeOK
      <4>2. QED
        BY <2>1, <2>3, <4>1 DEF OwnerInv
    <3>3. QED
      BY <3>1, <3>2
  <2>8. \A d, e \in Conns :
          lPc'[d] = "enter" /\ lPc'[e] = "enter" /\ lPkt'[d] = lPkt'[e] => d = e
    <3>1. /\ lPc'[c] = "enter" => lPkt'[c] = read + 1
          /\ \A d \in Conns : d # c => lPc'[d] = lPc[d] /\ lPkt'[d] = lPkt[d]
      BY <2>2 DEF TypeOK
    <3>2. QED
      BY <2>6, <3>1 DEF OwnerInv
  <2>9. QED
    BY <2>1, <2>4, <2>7, <2>8 DEF OwnerInv
<1>2. ASSUME NEW c \in Conns, Enter(c) PROVE OwnerInv'
  <2>1. /\ lPc[c] = "enter" /\ lPc' = [lPc EXCEPT ![c] = "select"]
        /\ hPc' = [hPc EXCEPT ![lPkt[c]] = "start"]
        /\ UNCHANGED <<lPkt, read, hSeq>>
    BY <1>2 DEF Enter, Goto
  <2>2. PICK p \in Packets : p = lPkt[c] /\ p \in 1 .. read /\ hPc[p] = "none"
    BY <2>1 DEF OwnerInv, TypeOK, Packets
  <2>3. hPc'[p] = "start" /\ \A q \in Packets : q # p => hPc'[q] = hPc[q]
    BY <2>1, <2>2 DEF TypeOK
  <2>4. \A d \in Conns : lPc'[d] = "enter" => d # c /\ lPc[d] = "enter"
    BY <2>1 DEF TypeOK
  <2>5. \A d \in Conns : lPc'[d] = "enter" => lPkt[d] # p
    BY <2>1, <2>2, <2>4 DEF OwnerInv
  <2>6. \A d \in Conns : lPc'[d] = "enter" => lPkt[d] \in 1 .. read /\ hPc'[lPkt[d]] = "none"
    <3> SUFFICES ASSUME NEW d \in Conns, lPc'[d] = "enter"
                 PROVE  lPkt[d] \in 1 .. read /\ hPc'[lPkt[d]] = "none"
      OBVIOUS
    <3>1. lPkt[d] \in 1 .. read /\ hPc[lPkt[d]] = "none" /\ lPkt[d] # p
      BY <2>4, <2>5 DEF OwnerInv
    <3>2. lPkt[d] \in Packets
      BY <3>1, ReflectorAssumption DEF TypeOK, Packets
    <3>3. QED
      BY <2>3, <3>1, <3>2
  <2>7. \A q \in Packets : q > read => hPc'[q] = "none"
    BY <2>2, <2>3 DEF OwnerInv, TypeOK, Packets
  <2>8. hSeq[p] = 0
    BY <2>2 DEF OwnerInv
  <2>9. /\ \A q \in Packets : hPc'[q] \in {"none", "start"} => hSeq[q] = 0
        /\ \A q \in Packets : hPc'[q] \in {"write", "count"} => hSeq[q] # 0
    BY <2>3, <2>8 DEF OwnerInv
  <2>10. QED
    BY <2>1, <2>4, <2>6, <2>7, <2>9 DEF OwnerInv
<1>3. ASSUME NEW c \in Conns, LoopStep(c) PROVE OwnerInv'
  <2>1. UNCHANGED <<lPkt, read, hPc, hSeq>>
    BY <1>3 DEF LoopStep, Select, ReadTimeout, WaitDone, ReadClosed, handlers
  <2>2. \E where \in {"wait", "read", "select", "exited"} : lPc' = [lPc EXCEPT ![c] = where]
    BY <1>3 DEF LoopStep, Select, ReadTimeout, WaitDone, ReadClosed, Goto
  <2>3. \A d \in Conns : lPc'[d] = "enter" => lPc[d] = "enter"
    BY <2>2 DEF TypeOK
  <2>4. QED
    BY <2>1, <2>3 DEF OwnerInv
<1>4. ASSUME NEW p \in Packets, HandlerStep(p) PROVE OwnerInv'
  <2>1. /\ hPc[p] # "none" /\ UNCHANGED <<lPc, lPkt, read>>
        /\ \/ Step(p, "done") /\ UNCHANGED hSeq
           \/ Step(p, "count") /\ hPc[p] = "write" /\ UNCHANGED hSeq
           \/ Step(p, "write") /\ hSeq' = [hSeq EXCEPT ![p] = seqNumber + 1]
    BY <1>4 DEF HandlerStep, Invalid, TakeSeq, WriteOk, WriteFail, Count, Release, loops
  <2>2. /\ hPc'[p] \in {"done", "count", "write"}
        /\ \A q \in Packets : q # p => hPc'[q] = hPc[q] /\ hSeq'[q] = hSeq[q]
    BY <2>1 DEF Step, TypeOK
  <2>3. hPc'[p] \in {"write", "count"} => hSeq'[p] # 0
    <3>1. seqNumber + 1 # 0
      BY ReflectorAssumption DEF TypeOK
    <3>2. QED
      BY <2>1, <3>1 DEF Step, OwnerInv, TypeOK
  <2>4. \A q \in Packets : hPc[q] = "none" => hPc'[q] = "none"
    BY <2>1, <2>2
  <2>5. \A c \in Conns : lPc[c] = "enter" => lPkt[c] \in Packets
    BY ReflectorAssumption DEF OwnerInv, TypeOK, Packets
  <2>6. QED
    BY <2>1, <2>2, <2>3, <2>4, <2>5 DEF OwnerInv
<1>5. ASSUME Tick \/ Signal \/ ShutdownStep \/ Terminated \/ \E c \in Conns : Notify(c)
      PROVE  OwnerInv'
  <2>1. UNCHANGED <<loops, handlers>>
    BY <1>5 DEF Tick, Signal, ShutdownStep, CancelServer, CloseConn, Terminated, Notify, vars
  <2>2. QED
    BY <2>1 DEF OwnerInv, loops, handlers
<1>6. QED
  BY <1>1, <1>2, <1>3, <1>4, <1>5 DEF Next

\* No step loses count.
LEMMA CountStep ==
  ASSUME TypeOK, OwnerInv, CountInv, Next
  PROVE  /\ CountInv'
         /\ slots' \in 0 .. MaxConcurrent /\ running' \in 0 .. MaxConcurrent
         /\ seqNumber' \in 0 .. MaxPackets /\ reflected' \in 0 .. MaxPackets
         /\ hSeq' \in [Packets -> 0 .. MaxPackets]
         /\ replies' \subseteq Packets \X Packets
<1>1. ASSUME NEW c \in Conns, Enter(c)
      PROVE  /\ CountInv'
             /\ slots' \in 0 .. MaxConcurrent /\ running' \in 0 .. MaxConcurrent
             /\ UNCHANGED <<seqNumber, reflected, hSeq, replies>>
  BY <1>1, EnterCounts DEF Enter
<1>2. ASSUME UNCHANGED handlers PROVE CountInv' /\ UNCHANGED handlers
  BY <1>2, CountStays DEF handlers
<1>3. ASSUME NEW c \in Conns, NEW s \in Sources, Read(c, s) PROVE UNCHANGED handlers
  BY <1>3 DEF Read
<1>4. ASSUME NEW c \in Conns, LoopStep(c) \/ Notify(c) PROVE UNCHANGED handlers
  BY <1>4 DEF LoopStep, Select, ReadTimeout, WaitDone, ReadClosed, Notify
<1>5. Tick \/ Signal \/ ShutdownStep \/ Terminated => UNCHANGED handlers
  BY DEF Tick, Signal, ShutdownStep, CancelServer, CloseConn, Terminated, vars
<1>6. CASE UNCHANGED handlers
  BY <1>2, <1>6 DEF handlers, TypeOK
<1>7. CASE \E c \in Conns : Enter(c)
  BY <1>1, <1>7 DEF TypeOK
<1>8. CASE \E p \in Packets : HandlerStep(p)
  BY <1>8, HandlerCounts
<1>9. QED
  BY <1>3, <1>4, <1>5, <1>6, <1>7, <1>8 DEF Next

\* What a bucket has after a refill, and what one packet spends of it.
LEMMA RefillBucket ==
  ASSUME TypeOK, BucketInv, Rate > 0, NEW s \in Sources, Refill(s)
  PROVE  /\ Filled(s) \in 0 .. Rate
         /\ Filled(s) <= bucket[s].tokens + (now - bucket[s].lastFill)
         /\ bucket'[s].tokens = IF Filled(s) >= 1 THEN Filled(s) - 1 ELSE Filled(s)
         /\ bucket'[s].lastFill = now
         /\ \A t \in Sources : t # s => bucket'[t] = bucket[t]
         /\ bucket' \in [Sources -> [tokens : 0 .. Rate, lastFill : 0 .. MaxTime]]
<1>1. /\ bucket[s].tokens \in 0 .. Rate /\ bucket[s].lastFill \in 0 .. MaxTime
      /\ now \in 0 .. MaxTime /\ bucket[s].lastFill <= now /\ Rate \in Nat /\ MaxTime \in Nat
  BY ReflectorAssumption DEF TypeOK, BucketInv
<1>2. Filled(s) \in 0 .. Rate /\ Filled(s) <= bucket[s].tokens + (now - bucket[s].lastFill)
  <2> DEFINE a == bucket[s].tokens + (now - bucket[s].lastFill)
  <2>1. a \in Nat
    BY <1>1
  <2> HIDE DEF a
  <2>2. \E x \in {a, Rate} : \A y \in {a, Rate} : x <= y
    BY <1>1, <2>1
  <2>3. Min({a, Rate}) \in {a, Rate} /\ Min({a, Rate}) <= a /\ Min({a, Rate}) <= Rate
    BY <2>2 DEF Min
  <2>4. Filled(s) = Min({a, Rate})
    BY DEF Filled, a
  <2>5. QED
    BY <1>1, <2>1, <2>3, <2>4 DEF a
<1>3. bucket' = [bucket EXCEPT ![s] =
                   [tokens |-> IF Filled(s) >= 1 THEN Filled(s) - 1 ELSE Filled(s),
                    lastFill |-> now]]
  BY <1>1 DEF Refill
<1>4. (IF Filled(s) >= 1 THEN Filled(s) - 1 ELSE Filled(s)) \in 0 .. Rate
  BY <1>1, <1>2
<1>5. QED
  BY <1>1, <1>2, <1>3, <1>4 DEF TypeOK

\* Only a packet that is read changes a bucket.
LEMMA BucketStays ==
  ASSUME TypeOK, BucketInv, UNCHANGED <<bucket, admitted>>, now' \in Nat, now <= now'
  PROVE  BucketInv'
<1>1. \A s \in Sources : bucket[s].lastFill \in Nat /\ now \in Nat
  BY ReflectorAssumption DEF TypeOK
<1>2. \A s \in Sources : bucket'[s].lastFill <= now'
  BY <1>1 DEF BucketInv
<1>3. QED
  BY <1>2 DEF BucketInv, Since

\* The set Since is finite.
LEMMA SinceFinite ==
  ASSUME NEW s, NEW i \in Nat, Len(admitted) \in Nat
  PROVE  IsFiniteSet(Since(s, i)) /\ Cardinality(Since(s, i)) \in Nat
<1>1. IsFiniteSet(i .. Len(admitted))
  BY FS_Interval
<1>2. QED
  BY <1>1, FS_Subset, FS_CardinalityType DEF Since

\* What the list of the packets let in consists of.
LEMMA AdmittedTyped ==
  ASSUME BucketInv
  PROVE  /\ Len(admitted) \in Nat
         /\ \A i \in 1 .. Len(admitted) :
              /\ admitted[i].src \in Sources /\ admitted[i].at \in 0 .. MaxTime
              /\ admitted[i].at \in Nat
              /\ Cardinality(Since(admitted[i].src, i)) \in Nat
<1>1. admitted \in Seq(Admissions)
  BY DEF BucketInv
<1>2. Len(admitted) \in Nat /\ \A i \in 1 .. Len(admitted) : admitted[i] \in Admissions
  BY <1>1, LenProperties, ElementOfSeq
<1>3. QED
  BY <1>2, SinceFinite, ReflectorAssumption DEF Admissions

\* A refused packet spends nothing, and earns no more than the time gave.
LEMMA RefusedKeepsBucket ==
  ASSUME TypeOK, BucketInv, NEW s \in Sources, Rate > 0, ~(Filled(s) >= 1), Refill(s),
         UNCHANGED <<now, admitted>>
  PROVE  BucketInv'
<1>1. /\ Filled(s) \in 0 .. Rate
      /\ Filled(s) <= bucket[s].tokens + (now - bucket[s].lastFill)
      /\ bucket'[s].tokens = Filled(s) /\ bucket'[s].lastFill = now
      /\ \A t \in Sources : t # s => bucket'[t] = bucket[t]
  BY RefillBucket
<1>2. \A i \in 1 .. Len(admitted) :
        admitted[i].src \in Sources /\ admitted[i].at \in Nat
        /\ Cardinality(Since(admitted[i].src, i)) \in Nat
  BY AdmittedTyped
<1>3. /\ \A t \in Sources : bucket[t].lastFill \in Nat /\ bucket[t].tokens \in Nat
      /\ now \in Nat /\ Rate \in Nat
  BY ReflectorAssumption DEF TypeOK
<1>4. ASSUME NEW i \in 1 .. Len(admitted)
      PROVE  Cardinality(Since(admitted[i].src, i)) + bucket'[admitted[i].src].tokens
               <= Rate + (bucket'[admitted[i].src].lastFill - admitted[i].at)
  <2>1. PICK t \in Sources : t = admitted[i].src
    BY <1>2
  <2>2. Cardinality(Since(t, i)) + bucket[t].tokens
          <= Rate + (bucket[t].lastFill - admitted[i].at)
    BY <2>1 DEF BucketInv
  <2>3. Cardinality(Since(t, i)) \in Nat /\ admitted[i].at \in Nat
    BY <1>2, <2>1
  <2>4. Cardinality(Since(t, i)) + bucket'[t].tokens
          <= Rate + (bucket'[t].lastFill - admitted[i].at)
    <3>1. CASE t # s
      BY <1>1, <2>2, <3>1
    <3>2. CASE t = s
      <4> DEFINE n == Cardinality(Since(t, i))
                 a == admitted[i].at
                 tokens == bucket[s].tokens
                 last == bucket[s].lastFill
                 filled == Filled(s)
      <4>1. n \in Nat /\ a \in Nat
        BY <2>3
      <4>2. tokens \in Int /\ last \in Int /\ now \in Int /\ Rate \in Int
        BY <1>3
      <4>3. filled \in Int
        BY <1>1, <1>3
      <4>4. n + tokens <= Rate + (last - a)
        BY <2>2, <3>2
      <4>5. filled <= tokens + (now - last)
        BY <1>1
      <4> HIDE DEF n, a, tokens, last, filled
      <4>6. n + filled <= Rate + (now - a)
        BY <4>1, <4>2, <4>3, <4>4, <4>5
      <4>7. QED
        BY <1>1, <3>2, <4>6 DEF n, a, filled
    <3>3. QED
      BY <3>1, <3>2
  <2>5. QED
    BY <2>1, <2>4
<1>5. \A t \in Sources : bucket'[t].lastFill <= now'
  BY <1>1, <1>3 DEF BucketInv
<1>6. \A t, i : Since(t, i)' = Since(t, i)
  BY DEF Since
<1>7. QED
  BY <1>4, <1>5, <1>6 DEF BucketInv

\* The list of the packets let in grows at its end.
LEMMA AdmittedGrows ==
  ASSUME TypeOK, BucketInv, NEW s \in Sources,
         admitted' = Append(admitted, [src |-> s, at |-> now])
  PROVE  /\ admitted' \in Seq(Admissions)
         /\ Len(admitted') = Len(admitted) + 1
         /\ \A k \in 1 .. Len(admitted) : admitted'[k] = admitted[k]
         /\ admitted'[Len(admitted) + 1] = [src |-> s, at |-> now]
<1>1. admitted \in Seq(Admissions) /\ [src |-> s, at |-> now] \in Admissions
  BY DEF BucketInv, TypeOK, Admissions
<1>2. QED
  BY <1>1, AppendProperties

\* How the packets let in since the i-th change when one more is.
LEMMA SinceGrows ==
  ASSUME TypeOK, BucketInv, NEW s \in Sources, NEW t, NEW i \in 1 .. Len(admitted),
         admitted' = Append(admitted, [src |-> s, at |-> now])
  PROVE  Since(t, i)' = IF t = s THEN Since(t, i) \cup {Len(admitted) + 1} ELSE Since(t, i)
<1>1. Len(admitted) \in Nat
  BY AdmittedTyped
<1>2. i .. Len(admitted) + 1 = (i .. Len(admitted)) \cup {Len(admitted) + 1}
  BY <1>1
<1>3. \A k \in i .. Len(admitted) : admitted'[k] = admitted[k]
  BY <1>1, AdmittedGrows
<1>4. admitted'[Len(admitted) + 1].src = s /\ Len(admitted') = Len(admitted) + 1
  BY AdmittedGrows
<1>5. QED
  BY <1>2, <1>3, <1>4 DEF Since

\* A packet that is let in spends one token.
LEMMA AdmittedSpends ==
  ASSUME TypeOK, BucketInv, NEW s \in Sources, Rate > 0, Filled(s) >= 1, Refill(s),
         admitted' = Append(admitted, [src |-> s, at |-> now]), UNCHANGED now
  PROVE  BucketInv'
<1>1. /\ Filled(s) \in 0 .. Rate
      /\ Filled(s) <= bucket[s].tokens + (now - bucket[s].lastFill)
      /\ bucket'[s].tokens = Filled(s) - 1 /\ bucket'[s].lastFill = now
      /\ \A t \in Sources : t # s => bucket'[t] = bucket[t]
  BY RefillBucket
<1>2. /\ Len(admitted) \in Nat
      /\ \A i \in 1 .. Len(admitted) :
           admitted[i].src \in Sources /\ admitted[i].at \in Nat
           /\ Cardinality(Since(admitted[i].src, i)) \in Nat
  BY AdmittedTyped
<1>3. /\ \A t \in Sources : bucket[t].lastFill \in Nat /\ bucket[t].tokens \in Nat
      /\ now \in Nat /\ Rate \in Nat
  BY ReflectorAssumption DEF TypeOK
<1>4. /\ admitted' \in Seq(Admissions)
      /\ Len(admitted') = Len(admitted) + 1
      /\ \A k \in 1 .. Len(admitted) : admitted'[k] = admitted[k]
      /\ admitted'[Len(admitted) + 1] = [src |-> s, at |-> now]
  BY AdmittedGrows
<1>5. ASSUME NEW i \in 1 .. Len(admitted), NEW t \in Sources, t = admitted[i].src
      PROVE  Cardinality(Since(t, i)') + bucket'[t].tokens
               <= Rate + (bucket'[t].lastFill - admitted'[i].at)
  <2>1. Cardinality(Since(t, i)) + bucket[t].tokens
          <= Rate + (bucket[t].lastFill - admitted[i].at)
    BY <1>5 DEF BucketInv
  <2>2. Cardinality(Since(t, i)) \in Nat /\ admitted[i].at \in Nat /\ admitted'[i] = admitted[i]
    BY <1>2, <1>4, <1>5
  <2>3. CASE t # s
    <3>1. Since(t, i)' = Since(t, i)
      BY <2>3, SinceGrows
    <3>2. QED
      BY <1>1, <2>1, <2>2, <2>3, <3>1
  <2>4. CASE t = s
    <3> DEFINE n == Cardinality(Since(t, i))
               a == admitted[i].at
               tokens == bucket[s].tokens
               last == bucket[s].lastFill
               filled == Filled(s)
    <3>1. n \in Nat /\ a \in Nat
      BY <2>2
    <3>2. tokens \in Int /\ last \in Int /\ now \in Int /\ Rate \in Int
      BY <1>3
    <3>3. filled \in Int
      BY <1>1, <1>3
    <3>4. n + tokens <= Rate + (last - a)
      BY <2>1, <2>4
    <3>5. filled <= tokens + (now - last)
      BY <1>1
    <3>6. Cardinality(Since(t, i)') = n + 1
      <4>1. Since(t, i)' = Since(t, i) \cup {Len(admitted) + 1}
        BY <2>4, SinceGrows
      <4>2. IsFiniteSet(Since(t, i))
        BY <1>2, SinceFinite
      <4>3. Len(admitted) + 1 \notin Since(t, i)
        BY <1>2 DEF Since
      <4>4. QED
        BY <4>1, <4>2, <4>3, FS_AddElement
    <3> HIDE DEF n, a, tokens, last, filled
    <3>7. (n + 1) + (filled - 1) <= Rate + (now - a)
      BY <3>1, <3>2, <3>3, <3>4, <3>5
    <3>8. QED
      BY <1>1, <2>2, <2>4, <3>6, <3>7 DEF a, filled
  <2>5. QED
    BY <2>3, <2>4
<1> DEFINE S(t, i) == {k \in i .. Len(admitted') : admitted'[k].src = t}
<1>6. \A t, i : Since(t, i)' = S(t, i)
  BY DEF Since
<1>7. ASSUME NEW t \in Sources, NEW i \in 1 .. Len(admitted'), t = admitted'[i].src
      PROVE  Cardinality(S(t, i)) + bucket'[t].tokens
               <= Rate + (bucket'[t].lastFill - admitted'[i].at)
  <2>1. CASE i = Len(admitted) + 1
    <3>1. S(t, i) = {i} /\ t = s
      BY <1>2, <1>4, <1>7, <2>1
    <3>2. Cardinality(S(t, i)) = 1
      BY <3>1, FS_Singleton
    <3>3. bucket'[t].lastFill = now /\ admitted'[i].at = now /\ bucket'[t].tokens = Filled(s) - 1
      BY <1>1, <1>4, <2>1, <3>1
    <3> HIDE DEF S
    <3> DEFINE filled == Filled(s)
    <3>4. filled \in 0 .. Rate
      BY <1>1
    <3> HIDE DEF filled
    <3>5. 1 + (filled - 1) <= Rate + (now - now)
      BY <1>3, <3>4
    <3>6. QED
      BY <3>2, <3>3, <3>5 DEF filled
  <2>2. CASE i # Len(admitted) + 1
    <3>1. i \in 1 .. Len(admitted)
      BY <1>2, <1>4, <2>2
    <3>2. t = admitted[i].src
      BY <1>4, <1>7, <3>1
    <3>3. Since(t, i)' = S(t, i)
      BY <1>6
    <3>4. QED
      BY <1>5, <3>1, <3>2, <3>3
  <2>3. QED
    BY <2>1, <2>2
<1>8. \A t \in Sources : bucket'[t].lastFill <= now'
  BY <1>1, <1>3 DEF BucketInv
<1>9. \A i \in 1 .. Len(admitted') : admitted'[i].src \in Sources
  <2>1. \A i \in 1 .. Len(admitted') : admitted'[i] \in Admissions
    BY <1>4, LenProperties, ElementOfSeq
  <2>2. QED
    BY <2>1 DEF Admissions
<1>10. \A i \in 1 .. Len(admitted') :
         Cardinality(S(admitted'[i].src, i)) + bucket'[admitted'[i].src].tokens
           <= Rate + (bucket'[admitted'[i].src].lastFill - admitted'[i].at)
  <2> HIDE DEF S
  <2> QED
    BY <1>7, <1>9
<1>11. QED
  BY <1>4, <1>8, <1>10 DEF BucketInv, Since

\* A step reads a packet, or moves no bucket.
LEMMA ReadOrNot ==
  ASSUME TypeOK, Next
  PROVE  \/ /\ UNCHANGED <<bucket, admitted>> /\ now' \in 0 .. MaxTime /\ now <= now'
            /\ read' \in 0 .. MaxPackets /\ read <= read'
         \/ /\ \E s \in Sources :
                 /\ Refill(s)
                 /\ \/ ~Allowed(s) /\ UNCHANGED admitted
                    \/ /\ Allowed(s)
                       /\ admitted' = Append(admitted, [src |-> s, at |-> now])
            /\ UNCHANGED now /\ read' = read + 1 /\ read' \in 0 .. MaxPackets
<1>a. now \in 0 .. MaxTime /\ MaxTime \in Nat /\ read \in 0 .. MaxPackets /\ MaxPackets \in Nat
  BY ReflectorAssumption DEF TypeOK
<1>1. CASE UNCHANGED <<limiter, read>>
  BY <1>1, <1>a DEF limiter
<1>2. ASSUME NEW c \in Conns, NEW s \in Sources, Read(c, s)
      PROVE  /\ UNCHANGED now /\ read' = read + 1 /\ read' \in 0 .. MaxPackets
             /\ \/ UNCHANGED <<bucket, admitted>>
                \/ Refill(s) /\ ~Allowed(s) /\ UNCHANGED admitted
                \/ /\ Refill(s) /\ Allowed(s)
                   /\ admitted' = Append(admitted, [src |-> s, at |-> now])
  BY <1>2, <1>a DEF Read
<1>3. CASE \E c \in Conns, s \in Sources : Read(c, s)
  <2>1. PICK c \in Conns, s \in Sources : Read(c, s)
    BY <1>3
  <2>2. /\ UNCHANGED now /\ read' = read + 1 /\ read' \in 0 .. MaxPackets
        /\ \/ UNCHANGED <<bucket, admitted>>
           \/ Refill(s) /\ ~Allowed(s) /\ UNCHANGED admitted
           \/ /\ Refill(s) /\ Allowed(s)
              /\ admitted' = Append(admitted, [src |-> s, at |-> now])
    BY <1>2, <2>1
  <2>3. read' = read + 1 /\ UNCHANGED now
    BY <2>2
  <2>4. now' \in 0 .. MaxTime /\ now <= now' /\ read <= read'
    BY <1>a, <2>3
  <2>5. QED
    BY <2>1, <2>2, <2>4
<1>4. CASE Tick
  BY <1>4, <1>a DEF Tick, loops
<1>5. ASSUME NEW c \in Conns, Enter(c) \/ LoopStep(c) \/ Notify(c)
      PROVE  UNCHANGED <<limiter, read>>
  BY <1>5 DEF Enter, LoopStep, Select, ReadTimeout, WaitDone, ReadClosed, Notify, loops
<1>6. ASSUME NEW p \in Packets, HandlerStep(p)
      PROVE  UNCHANGED <<limiter, read>>
  BY <1>6 DEF HandlerStep, Invalid, TakeSeq, WriteOk, WriteFail, Count, loops
<1>7. Signal \/ ShutdownStep \/ Terminated => UNCHANGED <<limiter, read>>
  BY DEF Signal, ShutdownStep, CancelServer, CloseConn, Terminated, vars, loops
<1>8. QED
  BY <1>1, <1>3, <1>4, <1>5, <1>6, <1>7 DEF Next

\* A list of packets let in grows with the packets read, and only at its end.
LEMMA AdmittedStep ==
  ASSUME TypeOK, BucketInv, Next
  PROVE  Len(admitted') <= read' /\ admitted' \in Seq(Admissions)
<1>1. Len(admitted) \in Nat /\ Len(admitted) <= read /\ read \in Nat
      /\ admitted \in Seq(Admissions)
  BY AdmittedTyped, ReflectorAssumption DEF TypeOK, BucketInv
<1>2. CASE UNCHANGED admitted /\ read' \in Nat /\ read <= read'
  BY <1>1, <1>2
<1>3. CASE /\ \E s \in Sources : admitted' = Append(admitted, [src |-> s, at |-> now])
           /\ read' = read + 1
  <2>1. Len(admitted') = Len(admitted) + 1 /\ admitted' \in Seq(Admissions)
    BY <1>3, AdmittedGrows
  <2>2. QED
    BY <1>1, <1>3, <2>1
<1>4. MaxPackets \in Nat
  BY ReflectorAssumption
<1>5. /\ read' \in Nat /\ read <= read'
      /\ \/ UNCHANGED admitted
         \/ /\ \E s \in Sources : admitted' = Append(admitted, [src |-> s, at |-> now])
            /\ read' = read + 1
  <2>1. CASE read' \in 0 .. MaxPackets /\ read <= read' /\ UNCHANGED admitted
    BY <1>4, <2>1
  <2>2. CASE /\ read' = read + 1
             /\ \/ UNCHANGED admitted
                \/ \E s \in Sources : admitted' = Append(admitted, [src |-> s, at |-> now])
    <3>1. read' = read + 1
      BY <2>2
    <3>2. read' \in Nat /\ read <= read'
      BY <1>1, <3>1
    <3>3. QED
      BY <2>2, <3>2
  <2>3. QED
    BY <2>1, <2>2, ReadOrNot
<1>6. QED
  BY <1>2, <1>3, <1>5

\* No step overdraws a bucket.
LEMMA BucketStep ==
  ASSUME TypeOK, BucketInv, Next
  PROVE  /\ BucketInv'
         /\ bucket' \in [Sources -> [tokens : 0 .. Rate, lastFill : 0 .. MaxTime]]
<1>a. Rate \in Nat /\ MaxTime \in Nat /\ now \in Nat
  BY ReflectorAssumption DEF TypeOK
<1>1. CASE UNCHANGED <<bucket, admitted>> /\ now' \in 0 .. MaxTime /\ now <= now'
  <2>1. now' \in Nat
    BY <1>1, <1>a
  <2>2. QED
    BY <1>1, <2>1, BucketStays DEF TypeOK
<1>2. ASSUME NEW s \in Sources, Refill(s), UNCHANGED now, Rate > 0,
             \/ ~Allowed(s) /\ UNCHANGED admitted
             \/ Allowed(s) /\ admitted' = Append(admitted, [src |-> s, at |-> now])
      PROVE  /\ BucketInv'
             /\ bucket' \in [Sources -> [tokens : 0 .. Rate, lastFill : 0 .. MaxTime]]
  <2>1. bucket' \in [Sources -> [tokens : 0 .. Rate, lastFill : 0 .. MaxTime]]
    BY <1>2, RefillBucket
  <2>2. Allowed(s) <=> Filled(s) >= 1
    BY <1>2, <1>a DEF Allowed
  <2>3. CASE ~Allowed(s)
    BY <1>2, <2>1, <2>2, <2>3, RefusedKeepsBucket
  <2>4. CASE Allowed(s)
    BY <1>2, <2>1, <2>2, <2>4, AdmittedSpends
  <2>5. QED
    BY <2>3, <2>4
<1>3. ASSUME NEW s \in Sources, Refill(s), UNCHANGED now, ~(Rate > 0)
      PROVE  /\ BucketInv'
             /\ bucket' \in [Sources -> [tokens : 0 .. Rate, lastFill : 0 .. MaxTime]]
  <2>1. UNCHANGED bucket
    BY <1>3, <1>a DEF Refill
  <2>2. admitted' \in Seq(Admissions)
    BY AdmittedStep
  <2>3. \A t \in Sources : bucket'[t].lastFill <= now'
    BY <1>3, <2>1 DEF BucketInv
  <2>4. QED
    BY <1>3, <2>1, <2>2, <2>3 DEF BucketInv, TypeOK
<1>4. QED
  BY <1>1, <1>2, <1>3, ReadOrNot

\* Every window of the list conforms, the ones that end with the new packet
\* because the tokens that are left are never less than none.
LEMMA RateStep ==
  ASSUME TypeOK, BucketInv, RateConforms, Next, Rate > 0
  PROVE  RateConforms'
<1>1. /\ BucketInv'
      /\ bucket' \in [Sources -> [tokens : 0 .. Rate, lastFill : 0 .. MaxTime]]
  BY BucketStep
<1>2. Len(admitted) \in Nat /\ Rate \in Nat /\ MaxTime \in Nat /\ now \in Nat
  BY AdmittedTyped, ReflectorAssumption DEF TypeOK
<1>3. CASE UNCHANGED admitted
  BY <1>3 DEF RateConforms, Between
<1>4. ASSUME NEW s \in Sources, UNCHANGED now,
             admitted' = Append(admitted, [src |-> s, at |-> now])
      PROVE  RateConforms'
  <2> DEFINE B(i, j) == {k \in i .. j : admitted'[k].src = admitted'[i].src}
  <2>1. \A i, j : Between(i, j)' = B(i, j)
    BY DEF Between
  <2>2. /\ admitted' \in Seq(Admissions)
        /\ Len(admitted') = Len(admitted) + 1
        /\ \A k \in 1 .. Len(admitted) : admitted'[k] = admitted[k]
        /\ admitted'[Len(admitted) + 1] = [src |-> s, at |-> now]
    BY <1>4, AdmittedGrows
  <2>3. ASSUME NEW i \in 1 .. Len(admitted'), NEW j \in 1 .. Len(admitted'), i <= j
        PROVE  Cardinality(B(i, j)) <= Rate + (admitted'[j].at - admitted'[i].at)
    <3>1. CASE j \in 1 .. Len(admitted)
      <4>1. i \in 1 .. Len(admitted) /\ i \in Nat /\ j \in Nat
        BY <1>2, <2>2, <2>3, <3>1
      <4>2. \A k \in i .. j : admitted'[k] = admitted[k]
        BY <1>2, <2>2, <3>1, <4>1
      <4>3. B(i, j) = Between(i, j)
        BY <2>2, <2>3, <4>1, <4>2 DEF Between
      <4>4. Cardinality(Between(i, j)) <= Rate + (admitted[j].at - admitted[i].at)
        BY <1>2, <2>3, <3>1, <4>1 DEF RateConforms
      <4>5. QED
        BY <2>2, <3>1, <4>1, <4>3, <4>4
    <3>2. CASE j \notin 1 .. Len(admitted)
      <4>1. j = Len(admitted) + 1 /\ j = Len(admitted') /\ admitted'[j].at = now
        BY <1>2, <2>2, <3>2
      <4>2. admitted'[i] \in Admissions
        BY <2>2, ElementOfSeq
      <4>3. PICK t \in Sources : t = admitted'[i].src
        BY <4>2 DEF Admissions
      <4>4. Since(t, i)' = B(i, j)
        BY <4>1, <4>3 DEF Since
      <4>5. Cardinality(Since(t, i)') + bucket'[t].tokens
              <= Rate + (bucket'[t].lastFill - admitted'[i].at)
        BY <1>1, <1>2, <4>3 DEF BucketInv
      <4>6. IsFiniteSet(B(i, j)) /\ Cardinality(B(i, j)) \in Nat
        <5>1. IsFiniteSet(i .. j)
          BY <1>2, <2>2, FS_Interval
        <5>2. QED
          BY <5>1, FS_Subset, FS_CardinalityType
      <4>7. /\ bucket'[t].tokens \in Nat /\ bucket'[t].lastFill \in Nat
            /\ bucket'[t].lastFill <= now /\ admitted'[i].at \in Nat
        <5>1. bucket'[t].tokens \in 0 .. Rate /\ bucket'[t].lastFill \in 0 .. MaxTime
          BY <1>1
        <5>2. bucket'[t].lastFill <= now
          BY <1>1, <1>4 DEF BucketInv
        <5>3. admitted'[i].at \in 0 .. MaxTime
          BY <4>2 DEF Admissions
        <5>4. QED
          BY <1>2, <5>1, <5>2, <5>3
      <4> DEFINE n == Cardinality(B(i, j))
                 a == admitted'[i].at
                 tokens == bucket'[t].tokens
                 last == bucket'[t].lastFill
      <4>8. n \in Nat /\ a \in Nat /\ tokens \in Nat /\ last \in Nat /\ last <= now
            /\ n + tokens <= Rate + (last - a)
        BY <4>4, <4>5, <4>6, <4>7
      <4> HIDE DEF n, a, tokens, last
      <4>9. n <= Rate + (now - a)
        BY <1>2, <4>8
      <4>10. QED
        BY <4>1, <4>9 DEF n, a
    <3>3. QED
      BY <3>1, <3>2
  <2>4. \A i, j \in 1 .. Len(admitted') :
          i <= j => Cardinality(Between(i, j)') <= Rate + (admitted'[j].at - admitted'[i].at)
    <3> HIDE DEF B
    <3> QED
      BY <2>1, <2>3
  <2>5. QED
    BY <2>4 DEF RateConforms, Between
<1>5. QED
  BY <1>3, <1>4, ReadOrNot

\* The loops, the handlers' places and the shutdown keep their types.
LEMMA PlacesTyped ==
  ASSUME TypeOK, OwnerInv, Next
  PROVE  /\ lPc' \in [Conns -> {"select", "read", "enter", "wait", "exited"}]
         /\ lPkt' \in [Conns -> 0 .. MaxPackets] /\ from' \in [Packets -> Conns]
         /\ hPc' \in [Packets -> {"none", "start", "write", "count", "done"}]
         /\ notified' \subseteq Conns /\ signalled' \subseteq notified'
         /\ signals' \in 0 .. MaxSignals /\ cancelled' \in BOOLEAN /\ open' \subseteq Conns
<1> DEFINE P == /\ lPc' \in [Conns -> {"select", "read", "enter", "wait", "exited"}]
                /\ lPkt' \in [Conns -> 0 .. MaxPackets] /\ from' \in [Packets -> Conns]
                /\ hPc' \in [Packets -> {"none", "start", "write", "count", "done"}]
                /\ notified' \subseteq Conns /\ signalled' \subseteq notified'
                /\ signals' \in 0 .. MaxSignals /\ cancelled' \in BOOLEAN
                /\ open' \subseteq Conns
<1>1. ASSUME NEW c \in Conns, NEW s \in Sources, Read(c, s) PROVE P
  <2>1. read' \in 0 .. MaxPackets
    BY <1>1, ReflectorAssumption DEF Read, TypeOK
  <2>2. lPkt' \in [Conns -> 0 .. MaxPackets] /\ from' \in [Packets -> Conns]
    <3>1. /\ lPkt' = lPkt \/ lPkt' = [lPkt EXCEPT ![c] = read']
          /\ from' = [from EXCEPT ![read'] = c]
      BY <1>1 DEF Read
    <3>2. lPkt \in [Conns -> 0 .. MaxPackets] /\ from \in [Packets -> Conns]
      BY DEF TypeOK
    <3>3. QED
      BY <2>1, <3>1, <3>2
  <2>3. lPc' \in [Conns -> {"select", "read", "enter", "wait", "exited"}]
    BY <1>1 DEF Read, Goto, TypeOK
  <2>4. QED
    BY <1>1, <2>2, <2>3 DEF Read, handlers, shutdown, TypeOK
<1>2. ASSUME NEW c \in Conns, Enter(c) PROVE P
  BY <1>2 DEF Enter, Goto, shutdown, TypeOK
<1>3. ASSUME NEW c \in Conns, LoopStep(c) PROVE P
  <2>1. UNCHANGED <<lPkt, from, handlers, shutdown>>
    BY <1>3 DEF LoopStep, Select, ReadTimeout, WaitDone, ReadClosed
  <2>2. \E where \in {"wait", "read", "select", "exited"} : lPc' = [lPc EXCEPT ![c] = where]
    BY <1>3 DEF LoopStep, Select, ReadTimeout, WaitDone, ReadClosed, Goto
  <2>3. QED
    BY <2>1, <2>2 DEF handlers, shutdown, TypeOK
<1>4. ASSUME NEW p \in Packets, HandlerStep(p) PROVE P
  <2>1. hPc' \in [Packets -> {"none", "start", "write", "count", "done"}]
    BY <1>4 DEF HandlerStep, Invalid, TakeSeq, WriteOk, WriteFail, Count, Release, Step, TypeOK
  <2>2. UNCHANGED <<loops, shutdown>>
    BY <1>4 DEF HandlerStep, Invalid, TakeSeq, WriteOk, WriteFail, Count
  <2>3. QED
    BY <2>1, <2>2 DEF loops, shutdown, TypeOK
<1>5. ASSUME NEW c \in Conns, Notify(c) PROVE P
  BY <1>5 DEF Notify, loops, handlers, TypeOK
<1>6. CASE Tick
  BY <1>6 DEF Tick, loops, handlers, shutdown, TypeOK
<1>7. CASE Signal
  <2>1. signals' \in 0 .. MaxSignals
    BY <1>7, ReflectorAssumption DEF Signal, TypeOK
  <2>2. QED
    BY <1>7, <2>1 DEF Signal, loops, handlers, TypeOK
<1>8. CASE ShutdownStep
  BY <1>8 DEF ShutdownStep, CancelServer, CloseConn, loops, handlers, TypeOK
<1>9. CASE Terminated
  BY <1>9 DEF Terminated, vars, loops, handlers, shutdown, TypeOK
<1>10. QED
  BY <1>1, <1>2, <1>3, <1>4, <1>5, <1>6, <1>7, <1>8, <1>9 DEF Next

Inv == TypeOK /\ OwnerInv /\ CountInv /\ BucketInv /\ RateConforms

\* At the start no packet was read and every bucket is full.
LEMMA InitInv == Init => Inv
<1> SUFFICES ASSUME Init PROVE Inv
  OBVIOUS
<1>a. /\ MaxTime \in Nat /\ MaxPackets \in Nat /\ MaxConcurrent \in Nat /\ MaxSignals \in Nat
      /\ Rate \in Nat
  BY ReflectorAssumption
<1>1. Len(admitted) = 0 /\ admitted \in Seq(Admissions)
  BY EmptySeq DEF Init
<1>2. (CHOOSE c \in Conns : TRUE) \in Conns
  BY ReflectorAssumption
<1>3. TypeOK
  <2>1. /\ now \in 0 .. MaxTime /\ read \in 0 .. MaxPackets /\ Len(admitted) <= read
        /\ slots \in 0 .. MaxConcurrent /\ running \in 0 .. MaxConcurrent
        /\ seqNumber \in 0 .. MaxPackets /\ reflected \in 0 .. MaxPackets
        /\ signals \in 0 .. MaxSignals
    BY <1>1, <1>a DEF Init
  <2>2. /\ lPc \in [Conns -> {"select", "read", "enter", "wait", "exited"}]
        /\ lPkt \in [Conns -> 0 .. MaxPackets]
        /\ hPc \in [Packets -> {"none", "start", "write", "count", "done"}]
        /\ hSeq \in [Packets -> 0 .. MaxPackets]
    BY <1>a DEF Init
  <2>3. from \in [Packets -> Conns]
    BY <1>2 DEF Init
  <2>4. bucket \in [Sources -> [tokens : 0 .. Rate, lastFill : 0 .. MaxTime]]
    BY <1>a DEF Init
  <2>5. QED
    BY <2>1, <2>2, <2>3, <2>4 DEF Init, TypeOK
<1>4. OwnerInv
  BY DEF Init, OwnerInv
<1>5. CountInv
  <2>1. Active = {} /\ Counting = {} /\ Done = {} /\ Numbered = {} /\ replies = {}
    BY DEF Init, Active, Counting, Done, Numbered
  <2>2. Cardinality({}) = 0
    BY FS_EmptySet
  <2>3. QED
    BY <2>1, <2>2 DEF Init, CountInv
<1>6. BucketInv /\ RateConforms
  BY <1>1, <1>a DEF Init, BucketInv, RateConforms
<1>7. QED
  BY <1>3, <1>4, <1>5, <1>6 DEF Inv

\* The invariant is inductive.
LEMMA InvStep == Inv /\ [Next]_vars => Inv'
<1>1. ASSUME Inv, Next PROVE Inv'
  <2> USE <1>1 DEF Inv
  <2>1. OwnerInv'
    BY OwnerStep
  <2>2. /\ CountInv'
        /\ slots' \in 0 .. MaxConcurrent /\ running' \in 0 .. MaxConcurrent
        /\ seqNumber' \in 0 .. MaxPackets /\ reflected' \in 0 .. MaxPackets
        /\ hSeq' \in [Packets -> 0 .. MaxPackets]
        /\ replies' \subseteq Packets \X Packets
    BY CountStep
  <2>3. /\ BucketInv'
        /\ bucket' \in [Sources -> [tokens : 0 .. Rate, lastFill : 0 .. MaxTime]]
    BY BucketStep
  <2>4. now' \in 0 .. MaxTime /\ read' \in 0 .. MaxPackets
    BY ReadOrNot DEF TypeOK
  <2>5. Len(admitted') <= read'
    BY AdmittedStep
  <2>6. TypeOK'
    <3>1. /\ lPc' \in [Conns -> {"select", "read", "enter", "wait", "exited"}]
          /\ lPkt' \in [Conns -> 0 .. MaxPackets] /\ from' \in [Packets -> Conns]
          /\ hPc' \in [Packets -> {"none", "start", "write", "count", "done"}]
          /\ notified' \subseteq Conns /\ signalled' \subseteq notified'
          /\ signals' \in 0 .. MaxSignals /\ cancelled' \in BOOLEAN /\ open' \subseteq Conns
      BY PlacesTyped
    <3>2. QED
      BY <2>2, <2>3, <2>4, <2>5, <3>1 DEF TypeOK
  <2>7. RateConforms'
    <3>1. CASE Rate > 0
      BY <3>1, RateStep
    <3>2. CASE ~(Rate > 0)
      BY <3>2 DEF RateConforms
    <3>3. QED
      BY <3>1, <3>2
  <2>8. QED
    BY <2>1, <2>2, <2>3, <2>6, <2>7
<1>2. ASSUME Inv, UNCHANGED vars PROVE Inv'
  BY <1>2 DEF Inv, vars, loops, limiter, handlers, shutdown, TypeOK, OwnerInv, CountInv,
              Active, Counting, Done, Numbered, BucketInv, Since, RateConforms, Between
<1>3. QED
  BY <1>1, <1>2

\* In every behaviour the places, the counters and the buckets agree.
LEMMA SpecInv == Spec => []Inv
BY InitInv, InvStep, PTL DEF Spec

\* Every variable has its type: in particular never more than MaxConcurrent
\* handlers run, and the WaitGroup never falls below zero (main.go 415-425).
THEOREM ReflectorTyped == Spec => []TypeOK
<1>1. Inv => TypeOK
  BY DEF Inv
<1>2. QED
  BY <1>1, SpecInv, PTL

\* The counter that is exported is the number of replies, but for those a
\* handler has sent and not yet counted, whatever the interleaving of the
\* handlers (main.go 451-458).
THEOREM RepliesCounted == Spec => []ReflectedCounted
<1>1. Inv => ReflectedCounted
  BY DEF Inv, CountInv, Counting, ReflectedCounted
<1>2. QED
  BY <1>1, SpecInv, PTL

\* No source gets more than Rate + t packets in during a time t, whatever the
\* rate, the number of sockets and the order in which packets come (main.go
\* 233-259).
THEOREM RateBound == Spec => []RateConforms
<1>1. Inv => RateConforms
  BY DEF Inv
<1>2. QED
  BY <1>1, SpecInv, PTL

\* A reply bears the sequence number its handler took, and no two packets get
\* the same one (main.go 435-438).
RepliesNumbered ==
  \A p, q \in Packets : \A m, n \in Packets :
    <<p, m>> \in replies /\ <<q, n>> \in replies =>
      m \in 1 .. seqNumber /\ (m = n <=> p = q)

\* The sequence numbers of the replies are distinct, and none is one the
\* server has not reached.
THEOREM DistinctNumbers == Spec => []RepliesNumbered
<1>1. Inv => RepliesNumbered
  <2> SUFFICES ASSUME Inv, NEW p \in Packets, NEW q \in Packets,
                      NEW m \in Packets, NEW n \in Packets,
                      <<p, m>> \in replies, <<q, n>> \in replies
               PROVE  m \in 1 .. seqNumber /\ (m = n <=> p = q)
    BY DEF RepliesNumbered
  <2>1. m = hSeq[p] /\ n = hSeq[q]
    BY DEF Inv, CountInv, Packets
  <2>2. m \in Nat /\ m >= 1 /\ m <= seqNumber /\ seqNumber \in Nat
    BY <2>1, ReflectorAssumption DEF Inv, CountInv, TypeOK, Packets
  <2>3. QED
    BY <2>1, <2>2 DEF Inv, CountInv
<1>2. QED
  BY <1>1, SpecInv, PTL

=============================================================================
