---------------------------- MODULE TwampProofs ----------------------------
(***************************************************************************)
(* What TwampBurst promises for every burst size, interval and timeout,    *)
(* and Exchange for every pair of clocks.  The theorems of each use the    *)
(* assumptions of their own module only.                                   *)
(*                                                                         *)
(* The first argument rests on who may still own a packet.  A packet that  *)
(* was not sent is nowhere; one whose write is under way is pending,       *)
(* because no reply to it exists and, the write being shorter than twice   *)
(* the timeout, it cannot expire; one whose reply or failure is about to   *)
(* be reported is neither pending nor reported.                            *)
(*                                                                         *)
(* The second, at the end, is arithmetic: what a time loses in the NTP     *)
(* format, and that the error is the same, or an era, for both times of    *)
(* the reflector.                                                          *)
(***************************************************************************)
EXTENDS TwampBurst, Exchange, FiniteSetTheorems, TLAPS

\* A write never blocks for longer than the age at which packets expire.
WriteBound == MaxWrite <= 2 * Timeout

\* The reply the receiver holds between its read and its report.
Held(s) == rPc \in {"match", "push"} /\ reply = s

\* No trace of the packet, nor of an answer to it.
Untouched(s) == s \notin Resolved /\ ~Held(s) /\ inFlight[s] = 0

OwnershipInv ==
  /\ \A s \in Seqs :
        (s > seq \/ (s = seq /\ sPc \in {"setup", "register"}))
          => s \notin pending /\ Untouched(s)
  /\ sPc \in {"write", "drop"} =>
        seq \in pending /\ age[seq] <= MaxWrite /\ Untouched(seq)
  /\ sPc = "report" => seq \notin pending /\ Untouched(seq)
  /\ rPc = "push" => reply \notin pending /\ reply \notin Resolved

\* The loop sleeps only between packets and waits only after the last one.
LoopInv == (sPc = "sleep" => seq < Count) /\ (sPc = "wait" => seq = Count)

\* Every variable of the burst keeps its type.
THEOREM TypeCorrect == Spec => [](TypeOK /\ LoopInv)
<1>1. Init => TypeOK /\ LoopInv
  BY BurstAssumption DEF Init, TypeOK, LoopInv, Seqs, Expired, Kinds
<1>2. TypeOK /\ LoopInv /\ [Next]_vars => TypeOK' /\ LoopInv'
  <2> SUFFICES ASSUME TypeOK, LoopInv, [Next]_vars PROVE TypeOK' /\ LoopInv'
    OBVIOUS
  <2> USE BurstAssumption DEF TypeOK, LoopInv, Seqs, Expired, Kinds
  <2>1. CASE SetupFail BY <2>1 DEF SetupFail, receiver, network
  <2>2. CASE Setup BY <2>2 DEF Setup, network
  <2>3. CASE Register BY <2>3 DEF Register, receiver, network
  <2>4. CASE WriteOk
    <3>1. PICK copies \in 0 .. MaxCopies :
             inFlight' = [inFlight EXCEPT ![seq] = copies]
      BY <2>4 DEF WriteOk
    <3>2. inFlight' \in [Seqs -> 0 .. MaxCopies]
      BY <3>1
    <3>3. /\ sPc' \in {"sleep", "wait"} /\ sleep' \in 0 .. Interval
          /\ sPc' = "sleep" => seq < Count
          /\ sPc' = "wait" => seq = Count
      BY <2>4 DEF WriteOk, NextPacket
    <3>4. UNCHANGED <<seq, receiver, pending, age, junk, results>>
      BY <2>4 DEF WriteOk
    <3>5. QED
      BY <3>2, <3>3, <3>4 DEF receiver
  <2>5. CASE WriteFail BY <2>5 DEF WriteFail, receiver, network
  <2>6. CASE DropPending BY <2>6 DEF DropPending, receiver, network
  <2>7. CASE ReportFail
    <3>1. results' \subseteq Seqs \X Kinds
      BY <2>7 DEF ReportFail
    <3>2. /\ sPc' \in {"sleep", "wait"} /\ sleep' \in 0 .. Interval
          /\ sPc' = "sleep" => seq < Count
          /\ sPc' = "wait" => seq = Count
      BY <2>7 DEF ReportFail, NextPacket
    <3>3. UNCHANGED <<seq, receiver, pending, age, network>>
      BY <2>7 DEF ReportFail
    <3>4. QED
      BY <3>1, <3>2, <3>3 DEF receiver, network
  <2>8. CASE Wake BY <2>8 DEF Wake, receiver, network
  <2>9. CASE Return BY <2>9 DEF Return, receiver, network
  <2>10. CASE RecvReply
    <3>1. PICK s \in Seqs : /\ inFlight[s] > 0
                            /\ inFlight' = [inFlight EXCEPT ![s] = @ - 1]
                            /\ reply' = s
      BY <2>10 DEF RecvReply
    <3>2. inFlight' \in [Seqs -> 0 .. MaxCopies] /\ reply' \in Seqs
      <4>1. inFlight \in [Seqs -> 0 .. MaxCopies] /\ MaxCopies \in Nat
        OBVIOUS
      <4>2. inFlight[s] - 1 \in 0 .. MaxCopies
        <5>1. inFlight[s] \in 0 .. MaxCopies
          BY <4>1
        <5>2. QED
          BY <3>1, <4>1, <5>1
      <4>3. QED
        BY <3>1, <4>1, <4>2
    <3>3. rPc' = "match" /\ UNCHANGED <<sender, deadline, pending, age, junk, results>>
      BY <2>10 DEF RecvReply
    <3>4. QED
      BY <3>2, <3>3 DEF sender
  <2>11. CASE RecvJunk BY <2>11 DEF RecvJunk, ReadAgain, sender
  <2>12. CASE Match
    <3>1. pending' \subseteq Seqs
      BY <2>12 DEF Match
    <3>2. deadline' \in 0 .. Timeout /\ rPc' \in {"push", "read"}
      BY <2>12 DEF Match, ReadAgain
    <3>3. UNCHANGED <<sender, reply, age, network, results>>
      BY <2>12 DEF Match
    <3>4. QED
      BY <3>1, <3>2, <3>3 DEF sender, network
  <2>13. CASE Push BY <2>13 DEF Push, ReadAgain, sender, network
  <2>14. CASE RecvTimeout BY <2>14 DEF RecvTimeout, sender, network
  <2>15. CASE Relock BY <2>15 DEF Relock, sender, network
  <2>16. CASE ExpireOne BY <2>16 DEF ExpireOne, Stale, sender, receiver, network
  <2>17. CASE ExpireEnd
    <3>1. deadline' \in 0 .. Timeout /\ rPc' \in {"done", "read"}
      BY <2>17 DEF ExpireEnd, ReadAgain
    <3>2. QED
      BY <2>17, <3>1 DEF ExpireEnd, sender, network
  <2>18. CASE ReadError BY <2>18 DEF ReadError, sender, network
  <2>19. CASE Tick BY <2>19 DEF Tick, network
  <2>20. CASE UNCHANGED vars BY <2>20 DEF vars
  <2>21. QED
    BY <2>1, <2>2, <2>3, <2>4, <2>5, <2>6, <2>7, <2>8, <2>9, <2>10, <2>11,
       <2>12, <2>13, <2>14, <2>15, <2>16, <2>17, <2>18, <2>19, <2>20
       DEF Next, SenderStep, ReceiverStep, Terminated
<1>3. QED
  BY <1>1, <1>2, PTL DEF Spec

-----------------------------------------------------------------------------

(***************************************************************************)
(* One outcome per packet.                                                 *)
(***************************************************************************)

BurstTyped == TypeOK /\ LoopInv

\* How the reported packets change when one outcome is added.
LEMMA ResolvedAdd ==
  ASSUME NEW s \in Seqs, NEW k \in Kinds, results' = results \cup {<<s, k>>}
  PROVE  Resolved' = Resolved \cup {s}
BY DEF Resolved

LEMMA OutcomeAdd ==
  ASSUME NEW s \in Seqs, NEW k \in Kinds, results' = results \cup {<<s, k>>},
         OneOutcomePerPacket, s \notin Resolved,
         pending' \subseteq pending, s \notin pending'
  PROVE  OneOutcomePerPacket'
<1>1. ASSUME NEW t \in Seqs, NEW k1 \in Kinds, NEW k2 \in Kinds,
             <<t, k1>> \in results', <<t, k2>> \in results'
      PROVE  k1 = k2
  <2>1. CASE t = s
    BY <1>1, <2>1 DEF Resolved
  <2>2. CASE t # s
    BY <1>1, <2>2 DEF OneOutcomePerPacket
  <2>3. QED
    BY <2>1, <2>2
<1>2. Resolved' \cap pending' = {}
  BY ResolvedAdd DEF OneOutcomePerPacket
<1>3. QED
  BY <1>1, <1>2 DEF OneOutcomePerPacket

\* A step that reports nothing and registers nothing keeps one outcome.
LEMMA OutcomeStays ==
  ASSUME OneOutcomePerPacket, results' = results, pending' \subseteq pending
  PROVE  OneOutcomePerPacket' /\ Resolved' = Resolved
BY DEF OneOutcomePerPacket, Resolved

LEMMA OwnershipStep ==
  ASSUME WriteBound, BurstTyped, BurstTyped', OneOutcomePerPacket,
         OwnershipInv, [Next]_vars
  PROVE  OneOutcomePerPacket' /\ OwnershipInv'
<1> USE BurstAssumption DEF BurstTyped, TypeOK, LoopInv, Seqs, Expired
<1>1. CASE SetupFail
  <2>1. OneOutcomePerPacket' /\ Resolved' = Resolved
    BY <1>1, OutcomeStays DEF SetupFail
  <2>2. QED
    BY <1>1, <2>1 DEF SetupFail, OwnershipInv, Untouched, Held, receiver, network
<1>2. CASE Setup
  <2>1. OneOutcomePerPacket' /\ Resolved' = Resolved
    BY <1>2, OutcomeStays DEF Setup
  <2>2. QED
    BY <1>2, <2>1 DEF Setup, OwnershipInv, Untouched, Held, network
<1>3. CASE Register
  <2>1. Resolved' = Resolved
    BY <1>3 DEF Register, Resolved
  <2>2. OneOutcomePerPacket'
    BY <1>3, <2>1 DEF Register, OneOutcomePerPacket, OwnershipInv, Untouched
  <2>3. age'[seq] = 0
    BY <1>3 DEF Register
  <2>4. QED
    BY <1>3, <2>1, <2>2, <2>3
       DEF Register, OwnershipInv, Untouched, Held, receiver, network
<1>4. CASE WriteOk
  <2>1. OneOutcomePerPacket' /\ Resolved' = Resolved
    BY <1>4, OutcomeStays DEF WriteOk
  <2>2. /\ sPc' \in {"sleep", "wait"}
        /\ UNCHANGED <<seq, receiver, pending>>
    BY <1>4 DEF WriteOk, NextPacket
  <2>3. \A s \in Seqs : s > seq => inFlight'[s] = inFlight[s]
    BY <1>4 DEF WriteOk
  <2>4. QED
    BY <1>4, <2>1, <2>2, <2>3 DEF OwnershipInv, Untouched, Held, receiver
<1>5. CASE WriteFail
  <2>1. OneOutcomePerPacket' /\ Resolved' = Resolved
    BY <1>5, OutcomeStays DEF WriteFail
  <2>2. QED
    BY <1>5, <2>1 DEF WriteFail, OwnershipInv, Untouched, Held, receiver, network
<1>6. CASE DropPending
  <2>1. OneOutcomePerPacket' /\ Resolved' = Resolved
    BY <1>6, OutcomeStays DEF DropPending
  <2>2. QED
    BY <1>6, <2>1 DEF DropPending, OwnershipInv, Untouched, Held, receiver, network
<1>7. CASE ReportFail
  <2>1. Resolved' = Resolved \cup {seq}
    BY <1>7, ResolvedAdd DEF ReportFail, Kinds
  <2>2. OneOutcomePerPacket'
    BY <1>7, OutcomeAdd DEF ReportFail, Kinds, OwnershipInv, Untouched
  <2>3. /\ sPc' \in {"sleep", "wait"}
        /\ UNCHANGED <<seq, receiver, pending, network>>
    BY <1>7 DEF ReportFail, NextPacket
  <2>4. rPc = "push" => reply # seq
    BY <1>7 DEF ReportFail, OwnershipInv, Untouched, Held
  <2>5. QED
    BY <1>7, <2>1, <2>2, <2>3, <2>4
       DEF OwnershipInv, Untouched, Held, receiver, network
<1>8. CASE Wake
  <2>1. OneOutcomePerPacket' /\ Resolved' = Resolved
    BY <1>8, OutcomeStays DEF Wake
  <2>2. QED
    BY <1>8, <2>1 DEF Wake, OwnershipInv, Untouched, Held, receiver, network
<1>9. CASE Return
  <2>1. OneOutcomePerPacket' /\ Resolved' = Resolved
    BY <1>9, OutcomeStays DEF Return
  <2>2. QED
    BY <1>9, <2>1 DEF Return, OwnershipInv, Untouched, Held, receiver, network
<1>10. CASE RecvReply
  <2>1. OneOutcomePerPacket' /\ Resolved' = Resolved
    BY <1>10, OutcomeStays DEF RecvReply
  <2>2. PICK r \in Seqs : /\ inFlight[r] > 0
                          /\ inFlight' = [inFlight EXCEPT ![r] = @ - 1]
                          /\ reply' = r
    BY <1>10 DEF RecvReply
  <2>3. ASSUME NEW s \in Seqs, Untouched(s) PROVE Untouched(s)'
    <3>1. s # r
      BY <2>2, <2>3 DEF Untouched
    <3>2. inFlight'[s] = inFlight[s]
      BY <2>2, <3>1
    <3>3. QED
      BY <2>1, <2>2, <2>3, <3>1, <3>2 DEF Untouched, Held
  <2>4. rPc' = "match" /\ UNCHANGED <<sender, pending, age>>
    BY <1>10 DEF RecvReply
  <2>5. UNCHANGED <<sPc, seq>>
    BY <2>4 DEF sender
  <2>6. QED
    BY <2>1, <2>3, <2>4, <2>5 DEF OwnershipInv
<1>11. CASE RecvJunk
  <2>1. OneOutcomePerPacket' /\ Resolved' = Resolved
    BY <1>11, OutcomeStays DEF RecvJunk
  <2>2. QED
    BY <1>11, <2>1 DEF RecvJunk, ReadAgain, OwnershipInv, Untouched, Held, sender
<1>12. CASE Match
  <2>1. pending' \subseteq pending /\ results' = results
    BY <1>12 DEF Match
  <2>2. OneOutcomePerPacket' /\ Resolved' = Resolved
    BY <2>1, OutcomeStays
  <2>3. \A s \in Seqs : Untouched(s) => Untouched(s)' /\ reply # s
    BY <1>12, <2>2 DEF Match, ReadAgain, Untouched, Held, network
  <2>4. rPc' = "push" => reply' \in pending /\ reply' \notin pending'
    BY <1>12 DEF Match, ReadAgain
  <2>5. \A s \in Seqs : s \in pending /\ reply # s => s \in pending'
    BY <1>12 DEF Match
  <2>6. UNCHANGED <<sender, reply, age>>
    BY <1>12 DEF Match
  <2>7. QED
    BY <2>1, <2>2, <2>3, <2>4, <2>5, <2>6
       DEF OwnershipInv, OneOutcomePerPacket, sender
<1>13. CASE Push
  <2>1. Resolved' = Resolved \cup {reply}
    BY <1>13, ResolvedAdd DEF Push, Kinds
  <2>2. OneOutcomePerPacket'
    BY <1>13, OutcomeAdd DEF Push, Kinds, OwnershipInv
  <2>3. \A s \in Seqs : Untouched(s) => Untouched(s)'
    BY <1>13, <2>1 DEF Push, ReadAgain, Untouched, Held, network
  <2>4. rPc' = "read" /\ UNCHANGED <<sender, pending, age>>
    BY <1>13 DEF Push, ReadAgain
  <2>5. QED
    BY <2>2, <2>3, <2>4 DEF OwnershipInv, sender
<1>14. CASE RecvTimeout
  <2>1. OneOutcomePerPacket' /\ Resolved' = Resolved
    BY <1>14, OutcomeStays DEF RecvTimeout
  <2>2. QED
    BY <1>14, <2>1 DEF RecvTimeout, OwnershipInv, Untouched, Held, sender, network
<1>15. CASE Relock
  <2>1. OneOutcomePerPacket' /\ Resolved' = Resolved
    BY <1>15, OutcomeStays DEF Relock
  <2>2. QED
    BY <1>15, <2>1 DEF Relock, OwnershipInv, Untouched, Held, sender, network
<1>16. CASE ExpireOne
  <2>1. PICK e \in Stale : /\ pending' = pending \ {e}
                           /\ results' = results \cup {<<e, "timeout">>}
    BY <1>16 DEF ExpireOne
  <2>2. e \in Seqs /\ e \in pending /\ age[e] > 2 * Timeout
    BY <2>1 DEF Stale
  <2>3. Resolved' = Resolved \cup {e}
    BY <2>1, <2>2, ResolvedAdd DEF Kinds
  <2>4. OneOutcomePerPacket'
    BY <2>1, <2>2, OutcomeAdd DEF Kinds, OneOutcomePerPacket
  <2>5. UNCHANGED <<sender, receiver, age, network>> /\ rPc = "expire"
    BY <1>16 DEF ExpireOne
  <2>6. \A s \in Seqs : Untouched(s) /\ s # e => Untouched(s)'
    BY <2>3, <2>5 DEF Untouched, Held, receiver, network
  <2>7. sPc \in {"write", "drop"} => seq # e
    <3>1. sPc \in {"write", "drop"} => age[seq] <= MaxWrite
      BY DEF OwnershipInv
    <3>2. age[e] \in Int /\ MaxWrite \in Int /\ Timeout \in Int
      BY <2>2
    <3>3. QED
      BY <2>2, <3>1, <3>2 DEF WriteBound
  <2>8. UNCHANGED <<sPc, seq, rPc, age>> /\ rPc # "push"
    BY <2>5 DEF sender, receiver
  <2>9. \A s \in Seqs : s \in pending' <=> s \in pending /\ s # e
    BY <2>1
  <2>10. \A s \in Seqs :
            (s > seq' \/ (s = seq' /\ sPc' \in {"setup", "register"}))
              => s \notin pending' /\ Untouched(s)'
    BY <2>2, <2>6, <2>8, <2>9 DEF OwnershipInv
  <2>11. sPc' \in {"write", "drop"} =>
            seq' \in pending' /\ age'[seq'] <= MaxWrite /\ Untouched(seq)'
    BY <2>6, <2>7, <2>8, <2>9 DEF OwnershipInv
  <2>12. sPc' = "report" => seq' \notin pending' /\ Untouched(seq)'
    BY <2>2, <2>6, <2>8, <2>9 DEF OwnershipInv
  <2>13. QED
    BY <2>4, <2>8, <2>10, <2>11, <2>12 DEF OwnershipInv
<1>17. CASE ExpireEnd
  <2>1. OneOutcomePerPacket' /\ Resolved' = Resolved
    BY <1>17, OutcomeStays DEF ExpireEnd
  <2>2. QED
    BY <1>17, <2>1
       DEF ExpireEnd, ReadAgain, OwnershipInv, Untouched, Held, sender, network
<1>18. CASE ReadError
  <2>1. OneOutcomePerPacket' /\ Resolved' = Resolved
    BY <1>18, OutcomeStays DEF ReadError
  <2>2. QED
    BY <1>18, <2>1 DEF ReadError, OwnershipInv, Untouched, Held, sender, network
<1>19. CASE Tick
  <2>1. OneOutcomePerPacket' /\ Resolved' = Resolved
    BY <1>19, OutcomeStays DEF Tick
  <2>2. sPc # "drop"
    BY <1>19 DEF Tick, SenderWaits, ReceiverWaits, ClockRuns, LockFree
  <2>3. sPc = "write" => age'[seq] <= MaxWrite
    BY <1>19 DEF Tick, SenderWaits
  <2>4. UNCHANGED <<sPc, seq, rPc, reply, pending, network>>
    BY <1>19 DEF Tick
  <2>5. QED
    BY <2>1, <2>2, <2>3, <2>4 DEF OwnershipInv, Untouched, Held, network
<1>20. CASE UNCHANGED vars
  <2>1. OneOutcomePerPacket' /\ Resolved' = Resolved
    BY <1>20, OutcomeStays DEF vars
  <2>2. UNCHANGED <<sPc, seq, rPc, reply, pending, age, inFlight>>
    BY <1>20 DEF vars
  <2>3. QED
    BY <2>1, <2>2 DEF OwnershipInv, Untouched, Held
<1>21. QED
  BY <1>1, <1>2, <1>3, <1>4, <1>5, <1>6, <1>7, <1>8, <1>9, <1>10, <1>11,
     <1>12, <1>13, <1>14, <1>15, <1>16, <1>17, <1>18, <1>19, <1>20
     DEF Next, SenderStep, ReceiverStep, Terminated

LEMMA OwnershipInvariant ==
  ASSUME WriteBound
  PROVE  Spec => [](OneOutcomePerPacket /\ OwnershipInv)
<1>1. Init => OneOutcomePerPacket /\ OwnershipInv
  BY BurstAssumption
     DEF Init, OneOutcomePerPacket, OwnershipInv, Untouched, Held, Resolved, Seqs
<1>2. /\ OneOutcomePerPacket /\ OwnershipInv
      /\ BurstTyped /\ BurstTyped' /\ [Next]_vars
      => (OneOutcomePerPacket /\ OwnershipInv)'
  BY OwnershipStep
<1>3. Spec => []BurstTyped
  BY TypeCorrect, PTL DEF BurstTyped
<1>4. QED
  BY <1>1, <1>2, <1>3, PTL DEF Spec

\* A packet is never counted twice, for any number of packets and any
\* timeouts, provided no single write blocks past the expiry age.
THEOREM PacketsCountedOnce ==
  ASSUME WriteBound
  PROVE  Spec => []OneOutcomePerPacket
BY OwnershipInvariant, PTL

-----------------------------------------------------------------------------

(***************************************************************************)
(* Room in the channel.                                                    *)
(***************************************************************************)

\* While a packet has no outcome, the channel is not full.
LEMMA RoomForUnresolved ==
  ASSUME TypeOK, OneOutcomePerPacket, NEW s \in Seqs, s \notin Resolved
  PROVE  ~Full
<1> DEFINE packetOf == [r \in results |-> r[1]]
<1>1. packetOf \in Injection(results, Seqs \ {s})
  <2>1. \A r \in results : r[1] \in Seqs \ {s}
    BY DEF TypeOK, Resolved
  <2>2. \A r, q \in results : r[1] = q[1] => r = q
    BY DEF TypeOK, OneOutcomePerPacket
  <2>3. QED
    BY <2>1, <2>2 DEF Injection, IsInjective
<1>2. IsFiniteSet(Seqs) /\ Cardinality(Seqs) = Count
  BY BurstAssumption, FS_Interval DEF Seqs
<1>3. IsFiniteSet(Seqs \ {s}) /\ Cardinality(Seqs \ {s}) = Count - 1
  BY <1>2, FS_RemoveElement
<1>4. IsFiniteSet(results) /\ Cardinality(results) <= Count - 1
  BY <1>1, <1>3, FS_Injection
<1>5. Cardinality(results) \in Nat
  BY <1>4, FS_CardinalityType
<1>6. QED
  BY <1>4, <1>5, BurstAssumption DEF Full

\* No goroutine of the burst is ever stopped by a full channel.
THEOREM ChannelNeverFull ==
  ASSUME WriteBound
  PROVE  Spec => []NoBlockedSend
<1>1. BurstTyped /\ OneOutcomePerPacket /\ OwnershipInv => NoBlockedSend
  <2> SUFFICES ASSUME BurstTyped, OneOutcomePerPacket, OwnershipInv
               PROVE  NoBlockedSend
    OBVIOUS
  <2>1. TypeOK
    BY DEF BurstTyped
  <2>2. sPc = "report" => seq \in Seqs /\ seq \notin Resolved
    BY <2>1 DEF OwnershipInv, Untouched, TypeOK
  <2>3. rPc = "push" => reply \in Seqs /\ reply \notin Resolved
    BY <2>1 DEF OwnershipInv, TypeOK
  <2>4. Stale # {} => \E s \in Seqs : s \notin Resolved
    BY <2>1 DEF Stale, OneOutcomePerPacket, TypeOK
  <2>5. QED
    BY <2>1, <2>2, <2>3, <2>4, RoomForUnresolved DEF NoBlockedSend
<1>2. Spec => []BurstTyped
  BY TypeCorrect, PTL DEF BurstTyped
<1>3. QED
  BY <1>1, <1>2, OwnershipInvariant, PTL

-----------------------------------------------------------------------------

(***************************************************************************)
(* The receiver outlives the sender.                                       *)
(***************************************************************************)

\* What a caller has to respect: the sends succeed, the packets follow one
\* another faster than the timeout, and a packet is younger than its expiry
\* age when the next one is registered.
Paced ==
  /\ Interval < Timeout
  /\ MaxWrite + Interval <= 2 * Timeout
  /\ ~SocketErrors

\* Until the last packet is out, something keeps the receiver from ending:
\* the last packet registered is pending and too young to expire, or its
\* reply has just re-armed the deadline, which outlasts the sleep.
WatchInv ==
  /\ sPc \notin {"drop", "report"}
  /\ sPc = "setup" => rPc = "idle" /\ seq = 1
  /\ sPc \in {"register", "write", "sleep"} => rPc \notin {"idle", "done"}
  /\ sPc = "returned" => rPc \in {"idle", "done"}
  /\ sPc = "sleep" =>
        \/ seq \in pending /\ age[seq] + sleep <= 2 * Timeout
        \/ rPc \in {"match", "push"}
        \/ rPc = "read" /\ deadline > sleep
  /\ sPc = "register" =>
        \/ seq > 1 /\ seq - 1 \in pending /\ age[seq - 1] <= 2 * Timeout
        \/ rPc \in {"match", "push"}
        \/ rPc = "read" /\ deadline > 0

LEMMA Numbers ==
  ASSUME TypeOK
  PROVE  /\ seq \in Seqs /\ seq \in Nat /\ sleep \in Nat /\ deadline \in Nat
         /\ Timeout \in Nat /\ Interval \in Nat /\ MaxWrite \in Nat
         /\ sleep <= Interval /\ Timeout > 0
         /\ \A s \in Seqs : s \in Nat /\ age[s] \in Nat
BY BurstAssumption DEF TypeOK, Seqs, Expired

LEMMA WatchStep ==
  ASSUME Paced, WriteBound, BurstTyped, BurstTyped', OwnershipInv, WatchInv,
         [Next]_vars
  PROVE  WatchInv'
<1>0. TypeOK /\ TypeOK'
  BY DEF BurstTyped
<1>n. /\ seq \in Seqs /\ seq \in Nat /\ sleep \in Nat /\ deadline \in Nat
      /\ Timeout \in Nat /\ Interval \in Nat /\ MaxWrite \in Nat
      /\ sleep <= Interval /\ Timeout > 0
      /\ \A s \in Seqs : s \in Nat /\ age[s] \in Nat
  BY <1>0, Numbers
<1> USE <1>0, <1>n DEF Paced
<1>1. CASE SetupFail BY <1>1 DEF SetupFail, WatchInv, receiver
<1>2. CASE Setup BY <1>2 DEF Setup, WatchInv
<1>3. CASE Register BY <1>3 DEF Register, WatchInv, receiver
<1>4. CASE WriteOk
  <2>1. seq \in pending /\ age[seq] + Interval <= 2 * Timeout
    BY <1>4 DEF WriteOk, OwnershipInv
  <2>2. /\ sPc' = "wait" \/ (sPc' = "sleep" /\ sleep' = Interval)
        /\ UNCHANGED <<seq, rPc, pending, age>>
    BY <1>4 DEF WriteOk, NextPacket, receiver
  <2>3. rPc \notin {"idle", "done"}
    BY <1>4 DEF WriteOk, WatchInv
  <2>4. QED
    BY <2>1, <2>2, <2>3 DEF WatchInv
<1>5. CASE WriteFail BY <1>5 DEF WriteFail
<1>6. CASE DropPending BY <1>6 DEF DropPending, WatchInv
<1>7. CASE ReportFail BY <1>7 DEF ReportFail, WatchInv
<1>8. CASE Wake
  <2>1. /\ sPc = "sleep" /\ sleep = 0 /\ sPc' = "register" /\ seq' = seq + 1
        /\ UNCHANGED <<rPc, deadline, pending, age>>
    BY <1>8 DEF Wake, receiver
  <2>2. seq \in Nat /\ seq >= 1 /\ seq' > 1 /\ seq' - 1 = seq
    BY <2>1 DEF Seqs
  <2>3. QED
    BY <2>1, <2>2 DEF WatchInv
<1>9. CASE Return BY <1>9 DEF Return, WatchInv, receiver
<1>10. CASE RecvReply
  <2>1. rPc = "read" /\ rPc' = "match" /\ UNCHANGED sender
    BY <1>10 DEF RecvReply
  <2>2. QED
    BY <2>1 DEF WatchInv, sender
<1>11. CASE RecvJunk
  <2>1. /\ rPc = "read" /\ rPc' = "read" /\ deadline' = Timeout
        /\ UNCHANGED <<sPc, seq, sleep, pending, age>>
    BY <1>11 DEF RecvJunk, ReadAgain, sender
  <2>2. QED
    BY <2>1 DEF WatchInv
<1>12. CASE Match
  <2>1. /\ rPc = "match"
        /\ rPc' = "push" \/ (rPc' = "read" /\ deadline' = Timeout)
        /\ UNCHANGED <<sPc, seq, sleep>>
    BY <1>12 DEF Match, ReadAgain, sender
  <2>2. QED
    BY <2>1 DEF WatchInv
<1>13. CASE Push
  <2>1. /\ rPc = "push" /\ rPc' = "read" /\ deadline' = Timeout
        /\ UNCHANGED <<sPc, seq, sleep>>
    BY <1>13 DEF Push, ReadAgain, sender
  <2>2. QED
    BY <2>1 DEF WatchInv
<1>14. CASE RecvTimeout
  <2>1. /\ rPc = "read" /\ deadline = 0
        /\ rPc' \in {"expire", "done", "relock"}
        /\ rPc' = "done" => pending = {}
        /\ UNCHANGED <<sPc, seq, sleep, pending, age>>
    BY <1>14 DEF RecvTimeout, sender
  <2>2. sPc = "write" => seq \in pending
    BY DEF OwnershipInv
  <2>3. sPc = "sleep" => seq \in pending /\ age[seq] + sleep <= 2 * Timeout
    BY <2>1 DEF WatchInv
  <2>4. sPc = "register" =>
          seq > 1 /\ seq - 1 \in pending /\ age[seq - 1] <= 2 * Timeout
    BY <2>1 DEF WatchInv
  <2>5. sPc \in {"register", "write", "sleep"} => rPc' # "done"
    BY <2>1, <2>2, <2>3, <2>4
  <2>6. QED
    <3>1. /\ sPc' \notin {"drop", "report"} /\ sPc' # "setup"
          /\ sPc' \in {"register", "write", "sleep"} => rPc' \notin {"idle", "done"}
          /\ sPc' # "returned"
      BY <2>1, <2>5 DEF WatchInv
    <3>2. sPc' = "sleep" => seq' \in pending' /\ age'[seq'] + sleep' <= 2 * Timeout
      BY <2>1, <2>3
    <3>3. sPc' = "register" =>
            seq' > 1 /\ seq' - 1 \in pending' /\ age'[seq' - 1] <= 2 * Timeout
      BY <2>1, <2>4
    <3>4. QED
      BY <3>1, <3>2, <3>3 DEF WatchInv
<1>15. CASE Relock BY <1>15 DEF Relock, WatchInv, sender
<1>16. CASE ExpireOne
  <2>1. PICK e \in Stale : pending' = pending \ {e}
    BY <1>16 DEF ExpireOne
  <2>2. e \in Seqs /\ age[e] > 2 * Timeout
    BY <2>1 DEF Stale, TypeOK
  <2>3. rPc = "expire" /\ UNCHANGED <<sPc, seq, sleep, rPc, age>>
    BY <1>16 DEF ExpireOne, sender, receiver
  <2>4. sPc = "sleep" => seq # e
    <3>1. sPc = "sleep" => age[seq] + sleep <= 2 * Timeout
      BY <2>3 DEF WatchInv
    <3>2. age[seq] \in Nat /\ sleep \in Nat /\ age[e] \in Nat
      BY <2>2
    <3>3. QED
      BY <2>2, <3>1, <3>2
  <2>5. sPc = "register" => seq > 1 /\ seq - 1 # e
    <3>1. sPc = "register" => seq > 1 /\ age[seq - 1] <= 2 * Timeout
      BY <2>3 DEF WatchInv
    <3>2. age[e] \in Nat
      BY <2>2
    <3>3. QED
      BY <2>2, <3>1, <3>2
  <2>6. QED
    BY <2>1, <2>3, <2>4, <2>5 DEF WatchInv
<1>17. CASE ExpireEnd
  <2>1. /\ rPc = "expire"
        /\ \/ rPc' = "done" /\ pending = {}
           \/ rPc' = "read" /\ deadline' = Timeout
        /\ UNCHANGED <<sPc, seq, sleep, pending, age>>
    BY <1>17 DEF ExpireEnd, ReadAgain, sender
  <2>2. sPc = "write" => seq \in pending
    BY DEF OwnershipInv
  <2>3. QED
    BY <2>1, <2>2 DEF WatchInv
<1>18. CASE ReadError BY <1>18 DEF ReadError
<1>19. CASE Tick
  <2>1. /\ sPc \in {"write", "sleep", "wait"}
        /\ rPc \in {"read", "done"} \/ rPc \in {"push", "expire"}
        /\ UNCHANGED <<sPc, seq, rPc, pending>>
    BY <1>19 DEF Tick, SenderWaits, ReceiverWaits, ClockRuns, LockFree, WatchInv
  <2>2. QED
    <3>1. CASE sPc # "sleep"
      BY <2>1, <3>1 DEF WatchInv
    <3>2. CASE sPc = "sleep"
      <4>1. sleep > 0 /\ sleep' = sleep - 1
        BY <1>19, <3>2 DEF Tick, SenderWaits
      <4>2. seq \in pending => age'[seq] <= age[seq] + 1
        BY <1>19 DEF Tick
      <4>3. rPc = "read" => deadline > 0 /\ deadline' = deadline - 1
        BY <1>19 DEF Tick, ReceiverWaits
      <4>4. age[seq] \in Nat /\ age'[seq] \in Nat /\ sleep \in Nat /\ deadline \in Nat
        BY DEF TypeOK, Expired
      <4>5. QED
        BY <2>1, <3>2, <4>1, <4>2, <4>3, <4>4 DEF WatchInv
    <3>3. QED
      BY <3>1, <3>2
<1>20. CASE UNCHANGED vars BY <1>20 DEF vars, WatchInv
<1>21. QED
  BY <1>1, <1>2, <1>3, <1>4, <1>5, <1>6, <1>7, <1>8, <1>9, <1>10, <1>11,
     <1>12, <1>13, <1>14, <1>15, <1>16, <1>17, <1>18, <1>19, <1>20
     DEF Next, SenderStep, ReceiverStep, Terminated

LEMMA WatchInvariant ==
  ASSUME Paced, WriteBound
  PROVE  Spec => []WatchInv
<1>1. Init => WatchInv
  BY DEF Init, WatchInv
<1>2. WatchInv /\ OwnershipInv /\ BurstTyped /\ BurstTyped' /\ [Next]_vars
      => WatchInv'
  BY WatchStep
<1>3. Spec => []BurstTyped
  BY TypeCorrect, PTL DEF BurstTyped
<1>4. QED
  BY <1>1, <1>2, <1>3, OwnershipInvariant, PTL DEF Spec

\* In a paced burst the receiver never ends before the last packet is sent.
THEOREM ReceiverOutlives ==
  ASSUME Paced, WriteBound
  PROVE  Spec => []ReceiverOutlivesSender
<1>1. BurstTyped /\ WatchInv => ReceiverOutlivesSender
  BY DEF BurstTyped, TypeOK, WatchInv, ReceiverOutlivesSender
<1>2. Spec => []BurstTyped
  BY TypeCorrect, PTL DEF BurstTyped
<1>3. QED
  BY <1>1, <1>2, WatchInvariant, PTL

-----------------------------------------------------------------------------

(***************************************************************************)
(* Every packet is accounted for.                                          *)
(***************************************************************************)

\* A packet that was sent is pending, held by the receiver, or reported;
\* nothing is pending once the receiver has ended.
AccountInv ==
  /\ rPc # "idle" =>
       \A s \in Seqs :
          (s < seq \/ (s = seq /\ sPc \notin {"setup", "register"}))
            => s \in pending \/ s \in Resolved \/ (rPc = "push" /\ reply = s)
  /\ rPc = "done" => pending = {}
  /\ rPc = "done" /\ sPc = "returned" => seq = Count

LEMMA AccountStep ==
  ASSUME Paced, BurstTyped, BurstTyped', WatchInv, AccountInv, [Next]_vars
  PROVE  AccountInv'
<1>0. TypeOK /\ LoopInv
  BY DEF BurstTyped
<1>n. seq \in Nat /\ seq \in Seqs /\ \A s \in Seqs : s \in Nat /\ s >= 1
  BY <1>0, Numbers DEF Seqs
<1> USE <1>0, <1>n DEF Paced
<1>1. CASE SetupFail
  <2>1. rPc' = "idle"
    BY <1>1 DEF SetupFail, WatchInv, receiver
  <2>2. QED
    BY <2>1 DEF AccountInv
<1>2. CASE Setup
  <2>1. rPc' = "read" /\ sPc' = "register" /\ seq' = 1
    BY <1>2 DEF Setup, WatchInv
  <2>2. QED
    BY <2>1 DEF AccountInv
<1>3. CASE Register
  <2>1. /\ pending' = pending \cup {seq} /\ Resolved' = Resolved
        /\ sPc' = "write" /\ rPc # "done" /\ sPc = "register"
        /\ UNCHANGED <<seq, rPc, reply>>
    BY <1>3 DEF Register, WatchInv, receiver, Resolved
  <2>2. QED
    BY <2>1 DEF AccountInv
<1>4. CASE WriteOk
  <2>1. /\ sPc = "write" /\ sPc' \in {"sleep", "wait"} /\ Resolved' = Resolved
        /\ UNCHANGED <<seq, rPc, reply, pending>>
    BY <1>4 DEF WriteOk, NextPacket, receiver, Resolved
  <2>2. QED
    BY <2>1 DEF AccountInv
<1>5. CASE WriteFail BY <1>5 DEF WriteFail
<1>6. CASE DropPending BY <1>6 DEF DropPending, WatchInv
<1>7. CASE ReportFail BY <1>7 DEF ReportFail, WatchInv
<1>8. CASE Wake
  <2>1. /\ sPc = "sleep" /\ sPc' = "register" /\ seq' = seq + 1
        /\ Resolved' = Resolved /\ UNCHANGED <<rPc, reply, pending>>
    BY <1>8 DEF Wake, receiver, Resolved
  <2>2. QED
    BY <2>1 DEF AccountInv
<1>9. CASE Return
  <2>1. /\ sPc = "wait" /\ sPc' = "returned" /\ seq = Count
        /\ Resolved' = Resolved /\ UNCHANGED <<seq, rPc, reply, pending>>
    BY <1>9 DEF Return, receiver, LoopInv, Resolved
  <2>2. QED
    BY <2>1 DEF AccountInv
<1>10. CASE RecvReply
  <2>1. /\ rPc = "read" /\ rPc' = "match" /\ Resolved' = Resolved
        /\ UNCHANGED <<sPc, seq, pending>>
    BY <1>10 DEF RecvReply, sender, Resolved
  <2>2. QED
    BY <2>1 DEF AccountInv
<1>11. CASE RecvJunk
  <2>1. /\ rPc = "read" /\ rPc' = "read" /\ Resolved' = Resolved
        /\ UNCHANGED <<sPc, seq, pending>>
    BY <1>11 DEF RecvJunk, ReadAgain, sender, Resolved
  <2>2. QED
    BY <2>1 DEF AccountInv
<1>12. CASE Match
  <2>1. /\ rPc = "match" /\ Resolved' = Resolved /\ UNCHANGED <<sPc, seq, reply>>
        /\ \/ pending' = pending \ {reply} /\ rPc' = "push"
           \/ pending' = pending /\ rPc' = "read"
    BY <1>12 DEF Match, ReadAgain, sender, Resolved
  <2>2. QED
    BY <2>1 DEF AccountInv
<1>13. CASE Push
  <2>1. Resolved' = Resolved \cup {reply}
    BY <1>13, ResolvedAdd DEF Push, Kinds, TypeOK
  <2>2. rPc = "push" /\ rPc' = "read" /\ UNCHANGED <<sPc, seq, pending>>
    BY <1>13 DEF Push, ReadAgain, sender
  <2>3. QED
    BY <2>1, <2>2 DEF AccountInv
<1>14. CASE RecvTimeout
  <2>1. /\ rPc = "read" /\ rPc' \in {"expire", "relock", "done"}
        /\ rPc' = "done" => pending = {} /\ sPc # "returned"
        /\ Resolved' = Resolved /\ UNCHANGED <<sPc, seq, pending>>
    BY <1>14 DEF RecvTimeout, sender, Resolved, WatchInv
  <2>2. QED
    BY <2>1 DEF AccountInv
<1>15. CASE Relock
  <2>1. /\ rPc = "relock" /\ rPc' = "expire" /\ Resolved' = Resolved
        /\ UNCHANGED <<sPc, seq, pending>>
    BY <1>15 DEF Relock, sender, Resolved
  <2>2. QED
    BY <2>1 DEF AccountInv
<1>16. CASE ExpireOne
  <2>1. PICK e \in Stale : /\ pending' = pending \ {e}
                           /\ results' = results \cup {<<e, "timeout">>}
    BY <1>16 DEF ExpireOne
  <2>2. Resolved' = Resolved \cup {e}
    BY <2>1, ResolvedAdd DEF Stale, Kinds, TypeOK
  <2>3. rPc = "expire" /\ UNCHANGED <<sPc, seq, rPc>>
    BY <1>16 DEF ExpireOne, sender, receiver
  <2>4. QED
    BY <2>1, <2>2, <2>3 DEF AccountInv
<1>17. CASE ExpireEnd
  <2>1. /\ rPc = "expire" /\ rPc' \in {"done", "read"}
        /\ rPc' = "done" => pending = {}
        /\ Resolved' = Resolved /\ UNCHANGED <<sPc, seq, pending>>
    BY <1>17 DEF ExpireEnd, ReadAgain, sender, Resolved
  <2>2. QED
    BY <2>1 DEF AccountInv, WatchInv
<1>18. CASE ReadError BY <1>18 DEF ReadError
<1>19. CASE Tick
  <2>1. Resolved' = Resolved /\ UNCHANGED <<sPc, seq, rPc, reply, pending>>
    BY <1>19 DEF Tick, Resolved
  <2>2. QED
    BY <2>1 DEF AccountInv
<1>20. CASE UNCHANGED vars
  <2>1. Resolved' = Resolved /\ UNCHANGED <<sPc, seq, rPc, reply, pending>>
    BY <1>20 DEF vars, Resolved
  <2>2. QED
    BY <2>1 DEF AccountInv
<1>21. QED
  BY <1>1, <1>2, <1>3, <1>4, <1>5, <1>6, <1>7, <1>8, <1>9, <1>10, <1>11,
     <1>12, <1>13, <1>14, <1>15, <1>16, <1>17, <1>18, <1>19, <1>20
     DEF Next, SenderStep, ReceiverStep, Terminated

\* In a paced burst no packet that was sent is forgotten.
LEMMA AccountInvariant ==
  ASSUME Paced, WriteBound
  PROVE  Spec => []AccountInv
<1>1. Init => AccountInv
  BY DEF Init, AccountInv
<1>2. AccountInv /\ WatchInv /\ BurstTyped /\ BurstTyped' /\ [Next]_vars
      => AccountInv'
  BY AccountStep
<1>3. Spec => []BurstTyped
  BY TypeCorrect, PTL DEF BurstTyped
<1>4. QED
  BY <1>1, <1>2, <1>3, WatchInvariant, PTL DEF Spec

\* In a paced burst every packet is received or reported lost when the burst
\* returns: nothing is silently missing from the loss figure.
THEOREM AllPacketsAccounted ==
  ASSUME Paced, WriteBound
  PROVE  Spec => []EveryPacketAccounted
<1>1. BurstTyped /\ AccountInv => EveryPacketAccounted
  <2> SUFFICES ASSUME AccountInv, sPc = "returned", rPc = "done"
               PROVE  Resolved = Seqs
    BY DEF EveryPacketAccounted
  <2>1. seq = Count /\ pending = {}
    BY DEF AccountInv
  <2>2. \A s \in Seqs : s \in Nat /\ (s < Count \/ s = Count)
    BY BurstAssumption DEF Seqs
  <2>3. \A s \in Seqs : s \in Resolved
    BY <2>1, <2>2 DEF AccountInv
  <2>4. QED
    BY <2>3 DEF Resolved
<1>2. Spec => []BurstTyped
  BY TypeCorrect, PTL DEF BurstTyped
<1>3. QED
  BY <1>1, <1>2, AccountInvariant, PTL

-----------------------------------------------------------------------------

(***************************************************************************)
(* The burst implements ProbeAccounting.  A packet is sent, for the        *)
(* accounting, when it is registered; the receiver's pushes and expiries   *)
(* resolve it; every other step is invisible.                              *)
(***************************************************************************)

\* The sender has not come to the packet, or will never do.
Unsent(s) == s > seq \/ (s = seq /\ sPc \in {"setup", "register", "returned"})

\* With one outcome for each packet, the cases of StatusOf exclude one another.
StatusByCases ==
  OneOutcomePerPacket =>
    \A s \in Seqs :
      /\ <<s, "rtt">> \in results => StatusOf(s) = "received"
      /\ s \in Resolved /\ <<s, "rtt">> \notin results => StatusOf(s) = "lost"
      /\ s \notin Resolved /\ Unsent(s) => StatusOf(s) = "unsent"
      /\ s \notin Resolved /\ ~Unsent(s) => StatusOf(s) = "inflight"

\* What StatusOf says of each packet.
LEMMA StatusCases == StatusByCases
<1> SUFFICES ASSUME OneOutcomePerPacket, NEW s \in Seqs
             PROVE  /\ <<s, "rtt">> \in results => StatusOf(s) = "received"
                    /\ s \in Resolved /\ <<s, "rtt">> \notin results
                         => StatusOf(s) = "lost"
                    /\ s \notin Resolved /\ Unsent(s) => StatusOf(s) = "unsent"
                    /\ s \notin Resolved /\ ~Unsent(s) => StatusOf(s) = "inflight"
  BY DEF StatusByCases
<1>1. ASSUME <<s, "rtt">> \in results PROVE StatusOf(s) = "received"
  <2>1. <<s, "timeout">> \notin results /\ <<s, "sendfail">> \notin results
    BY <1>1 DEF OneOutcomePerPacket, Kinds
  <2>2. s \in Resolved
    BY <1>1 DEF Resolved, Kinds
  <2>3. QED
    BY <1>1, <2>1, <2>2 DEF StatusOf
<1>2. ASSUME s \in Resolved, <<s, "rtt">> \notin results
      PROVE  StatusOf(s) = "lost"
  <2>1. <<s, "timeout">> \in results \/ <<s, "sendfail">> \in results
    BY <1>2 DEF Resolved, Kinds
  <2>2. QED
    BY <1>2, <2>1 DEF StatusOf
<1>3. ASSUME s \notin Resolved
      PROVE  StatusOf(s) = IF Unsent(s) THEN "unsent" ELSE "inflight"
  <2>1. \A k \in Kinds : <<s, k>> \notin results
    BY <1>3 DEF Resolved
  <2>2. QED
    BY <1>3, <2>1 DEF StatusOf, Kinds, Unsent
<1>4. QED
  BY <1>1, <1>2, <1>3

\* A packet's status depends on its results and on whether it was sent.
LEMMA StatusStays ==
  ASSUME OneOutcomePerPacket, OneOutcomePerPacket', NEW s \in Seqs,
         \A k \in Kinds : <<s, k>> \in results' <=> <<s, k>> \in results,
         s \notin Resolved => (Unsent(s)' <=> Unsent(s))
  PROVE  StatusOf(s)' = StatusOf(s)
<1>1. s \in Resolved' <=> s \in Resolved
  BY DEF Resolved
<1>2. StatusByCases /\ StatusByCases'
  BY StatusCases, PTL
<1>3. /\ <<s, "rtt">> \in results' => StatusOf(s)' = "received"
      /\ s \in Resolved' /\ <<s, "rtt">> \notin results' => StatusOf(s)' = "lost"
      /\ s \notin Resolved' /\ Unsent(s)' => StatusOf(s)' = "unsent"
      /\ s \notin Resolved' /\ ~Unsent(s)' => StatusOf(s)' = "inflight"
  BY <1>2 DEF StatusByCases
<1>4. /\ <<s, "rtt">> \in results => StatusOf(s) = "received"
      /\ s \in Resolved /\ <<s, "rtt">> \notin results => StatusOf(s) = "lost"
      /\ s \notin Resolved /\ Unsent(s) => StatusOf(s) = "unsent"
      /\ s \notin Resolved /\ ~Unsent(s) => StatusOf(s) = "inflight"
  BY <1>2 DEF StatusByCases
<1>5. QED
  BY <1>1, <1>3, <1>4 DEF Kinds

\* The status of every packet, as ProbeAccounting sees it.
Statuses == [s \in Seqs |-> StatusOf(s)]

\* A step after which every packet has the results it had, and is as unsent as
\* it was, changes no status.
LEMMA StatusesStay ==
  ASSUME OneOutcomePerPacket, OneOutcomePerPacket', results' = results,
         \A s \in Seqs : s \notin Resolved => (Unsent(s)' <=> Unsent(s))
  PROVE  Statuses' = Statuses
<1>1. \A s \in Seqs : StatusOf(s)' = StatusOf(s)
  BY StatusStays
<1>2. QED
  BY <1>1 DEF Statuses

\* A step that gives one packet a result resolves it.
LEMMA StatusResolved ==
  ASSUME OneOutcomePerPacket, OneOutcomePerPacket', NEW p \in Seqs,
         NEW kind \in Kinds, results' = results \cup {<<p, kind>>},
         p \notin Resolved, ~Unsent(p),
         \A s \in Seqs : Unsent(s)' <=> Unsent(s)
  PROVE  /\ Statuses[p] = "inflight"
         /\ Statuses' = [Statuses EXCEPT ![p] =
                            IF kind = "rtt" THEN "received" ELSE "lost"]
<1>1. StatusByCases /\ StatusByCases'
  BY StatusCases, PTL
<1>2. StatusOf(p) = "inflight"
  BY <1>1 DEF StatusByCases
<1>3. StatusOf(p)' = IF kind = "rtt" THEN "received" ELSE "lost"
  <2>1. p \in Resolved'
    BY DEF Resolved
  <2>2. <<p, "rtt">> \in results' <=> kind = "rtt"
    BY DEF OneOutcomePerPacket, Resolved, Kinds
  <2>3. /\ <<p, "rtt">> \in results' => StatusOf(p)' = "received"
        /\ p \in Resolved' /\ <<p, "rtt">> \notin results' => StatusOf(p)' = "lost"
    BY <1>1 DEF StatusByCases
  <2>4. QED
    BY <2>1, <2>2, <2>3
<1>4. ASSUME NEW s \in Seqs, s # p PROVE StatusOf(s)' = StatusOf(s)
  <2>1. \A k \in Kinds : <<s, k>> \in results' <=> <<s, k>> \in results
    BY <1>4
  <2>2. QED
    BY <2>1, StatusStays
<1>5. QED
  BY <1>2, <1>3, <1>4 DEF Statuses

\* A step after which nothing has been sent, resolved or returned.
LEMMA InvisibleStep ==
  ASSUME Statuses' = Statuses, sPc' = "returned" <=> sPc = "returned"
  PROVE  UNCHANGED Accounting!vars
BY DEF Statuses, Accounting!vars

\* Every step of a paced burst is a step of ProbeAccounting, or invisible.
LEMMA AccountingStep ==
  ASSUME Paced, BurstTyped, BurstTyped', OneOutcomePerPacket,
         OneOutcomePerPacket', OwnershipInv, WatchInv, WatchInv', AccountInv,
         [Next]_vars
  PROVE  [Accounting!Next]_(Accounting!vars)
<1>0. TypeOK /\ LoopInv
  BY DEF BurstTyped
<1>n. /\ seq \in Nat /\ seq \in Seqs
      /\ \A s \in Seqs : s \in Nat /\ s >= 1 /\ s <= Count
  BY <1>0, Numbers, BurstAssumption DEF Seqs
<1> USE <1>0, <1>n DEF Paced
<1>c. StatusByCases /\ StatusByCases'
  BY StatusCases, PTL
<1>1. CASE SetupFail
  <2>1. /\ sPc = "setup" /\ sPc' = "returned" /\ seq = 1
        /\ UNCHANGED <<seq, results>>
    BY <1>1 DEF SetupFail, WatchInv
  <2>2. \A s \in Seqs : Unsent(s) /\ s \notin Resolved
    BY <2>1 DEF Unsent, OwnershipInv, Untouched
  <2>3. \A s \in Seqs : Unsent(s)'
    BY <2>1 DEF Unsent
  <2>4. Statuses' = Statuses
    BY <2>1, <2>2, <2>3, StatusesStay
  <2>5. \A s \in Seqs : Statuses[s] = "unsent"
    BY <1>c, <2>2 DEF StatusByCases, Statuses
  <2>6. Accounting!Report
    BY <2>1, <2>4, <2>5 DEF Accounting!Report, Statuses, Seqs
  <2>7. QED
    BY <2>1, <2>6 DEF Accounting!Next
<1>2. CASE Setup
  <2>1. /\ sPc = "setup" /\ sPc' = "register" /\ UNCHANGED <<seq, results>>
    BY <1>2 DEF Setup
  <2>2. Statuses' = Statuses
    BY <2>1, StatusesStay DEF Unsent
  <2>3. QED
    BY <2>1, <2>2, InvisibleStep
<1>3. CASE Register
  <2>1. sPc = "register" /\ sPc' = "write" /\ UNCHANGED <<seq, results>>
    BY <1>3 DEF Register
  <2>2. PICK p \in Seqs : p = seq
    OBVIOUS
  <2>3. /\ p \notin Resolved /\ Resolved' = Resolved
        /\ Unsent(p) /\ ~Unsent(p)'
    BY <2>1, <2>2 DEF Unsent, Resolved, OwnershipInv, Untouched
  <2>4. StatusOf(p) = "unsent" /\ StatusOf(p)' = "inflight"
    BY <1>c, <2>3 DEF StatusByCases
  <2>5. ASSUME NEW s \in Seqs, s # p PROVE StatusOf(s)' = StatusOf(s)
    BY <2>1, <2>2, <2>5, StatusStays DEF Unsent
  <2>6. Statuses' = [Statuses EXCEPT ![p] = "inflight"]
    BY <2>4, <2>5 DEF Statuses
  <2>7. ASSUME NEW s \in Seqs, s < p PROVE Statuses[s] # "unsent"
    <3>1. ~Unsent(s)
      BY <2>1, <2>2, <2>7 DEF Unsent
    <3>2. StatusOf(s) \in {"received", "lost", "inflight"}
      BY <1>c, <3>1 DEF StatusByCases
    <3>3. QED
      BY <3>2 DEF Statuses
  <2>8. \A s \in 1 .. p - 1 : s \in Seqs /\ s < p
    BY BurstAssumption DEF Seqs
  <2>9. Accounting!Send(p)
    BY <2>1, <2>4, <2>6, <2>7, <2>8 DEF Accounting!Send, Statuses
  <2>10. QED
    BY <2>1, <2>9 DEF Accounting!Next, Seqs
<1>4. CASE WriteOk
  <2>1. /\ sPc = "write" /\ sPc' \in {"sleep", "wait"} /\ UNCHANGED <<seq, results>>
    BY <1>4 DEF WriteOk, NextPacket
  <2>2. Statuses' = Statuses
    BY <2>1, StatusesStay DEF Unsent
  <2>3. QED
    BY <2>1, <2>2, InvisibleStep
<1>5. CASE WriteFail BY <1>5 DEF WriteFail
<1>6. CASE DropPending BY <1>6 DEF DropPending, WatchInv
<1>7. CASE ReportFail BY <1>7 DEF ReportFail, WatchInv
<1>8. CASE Wake
  <2>1. /\ sPc = "sleep" /\ sPc' = "register" /\ seq' = seq + 1
        /\ UNCHANGED results
    BY <1>8 DEF Wake
  <2>2. Statuses' = Statuses
    BY <2>1, StatusesStay DEF Unsent
  <2>3. QED
    BY <2>1, <2>2, InvisibleStep
<1>9. CASE Return
  <2>1. /\ sPc = "wait" /\ sPc' = "returned" /\ rPc = "done" /\ seq = Count
        /\ UNCHANGED <<seq, results>>
    BY <1>9 DEF Return, LoopInv
  <2>2. \A s \in Seqs : s \in Resolved
    BY <2>1 DEF AccountInv
  <2>3. Statuses' = Statuses
    BY <2>1, <2>2, StatusesStay
  <2>4. \A s \in Seqs : Statuses[s] \in {"received", "lost"}
    BY <1>c, <2>2 DEF StatusByCases, Statuses
  <2>5. Accounting!Report
    BY <2>1, <2>3, <2>4 DEF Accounting!Report, Statuses, Seqs
  <2>6. QED
    BY <2>1, <2>5 DEF Accounting!Next
<1>10. CASE RecvReply \/ RecvJunk \/ Match \/ RecvTimeout \/ Relock \/ ExpireEnd
              \/ ReadError \/ Tick \/ UNCHANGED vars
  <2>1. UNCHANGED <<sPc, seq, results>>
    BY <1>10 DEF RecvReply, RecvJunk, Match, RecvTimeout, Relock, ExpireEnd,
                 ReadError, Tick, vars, sender
  <2>2. Statuses' = Statuses
    BY <2>1, StatusesStay DEF Unsent
  <2>3. QED
    BY <2>1, <2>2, InvisibleStep
<1>11. CASE Push
  <2>1. /\ rPc = "push" /\ reply \in Seqs /\ "rtt" \in Kinds
        /\ results' = results \cup {<<reply, "rtt">>}
        /\ UNCHANGED <<sPc, seq>>
    BY <1>11 DEF Push, sender, TypeOK, Kinds
  <2>2. sPc # "returned" /\ reply \notin Resolved
    BY <2>1 DEF WatchInv, OwnershipInv
  <2>3. ~Unsent(reply)
    BY <2>1, <2>2 DEF Unsent, OwnershipInv, Untouched, Held
  <2>4. \A s \in Seqs : Unsent(s)' <=> Unsent(s)
    BY <2>1 DEF Unsent
  <2>5. /\ Statuses[reply] = "inflight"
        /\ Statuses' = [Statuses EXCEPT ![reply] = "received"]
    BY <2>1, <2>2, <2>3, <2>4, StatusResolved
  <2>6. Accounting!Resolve(reply, "received")
    BY <2>1, <2>5 DEF Accounting!Resolve, Statuses
  <2>7. QED
    BY <2>1, <2>2, <2>6 DEF Accounting!Next, Seqs
<1>12. CASE ExpireOne
  <2>1. PICK e \in Stale : /\ pending' = pending \ {e}
                           /\ results' = results \cup {<<e, "timeout">>}
    BY <1>12 DEF ExpireOne
  <2>2. rPc = "expire" /\ UNCHANGED <<sPc, seq>>
    BY <1>12 DEF ExpireOne, sender
  <2>3. e \in Seqs /\ e \in pending /\ e \notin Resolved
    BY <2>1 DEF Stale, TypeOK, OneOutcomePerPacket
  <2>4. sPc # "returned"
    BY <2>2 DEF WatchInv
  <2>5. ~Unsent(e)
    BY <2>3, <2>4 DEF Unsent, OwnershipInv
  <2>6. \A s \in Seqs : Unsent(s)' <=> Unsent(s)
    BY <2>2 DEF Unsent
  <2>7. "timeout" \in Kinds
    BY DEF Kinds
  <2>8. /\ Statuses[e] = "inflight"
        /\ Statuses' = [Statuses EXCEPT ![e] = "lost"]
    BY <2>1, <2>3, <2>5, <2>6, <2>7, StatusResolved
  <2>9. Accounting!Resolve(e, "lost")
    BY <2>2, <2>8 DEF Accounting!Resolve, Statuses
  <2>10. QED
    BY <2>3, <2>4, <2>9 DEF Accounting!Next, Seqs
<1>13. QED
  BY <1>1, <1>2, <1>3, <1>4, <1>5, <1>6, <1>7, <1>8, <1>9, <1>10, <1>11, <1>12
     DEF Next, SenderStep, ReceiverStep, Terminated

\* A paced burst keeps the promise of ProbeAccounting: the packets are sent in
\* order, each is received or lost once and never both, and the burst returns
\* when all of them are, or at once when there is no socket.
THEOREM AccountingRefined ==
  ASSUME Paced, WriteBound
  PROVE  Spec => AccountingSpec
<1>1. Init => Accounting!Init
  <2> SUFFICES ASSUME Init PROVE Accounting!Init
    OBVIOUS
  <2>1. seq = 1 /\ sPc = "setup" /\ results = {}
    BY DEF Init
  <2>2. OneOutcomePerPacket
    BY DEF Init, OneOutcomePerPacket, Resolved
  <2>3. \A s \in Seqs : s \notin Resolved /\ Unsent(s)
    BY <2>1, BurstAssumption DEF Resolved, Unsent, Seqs
  <2>4. \A s \in Seqs : StatusOf(s) = "unsent"
    BY <2>2, <2>3, StatusCases DEF StatusByCases
  <2>5. QED
    BY <2>1, <2>4 DEF Accounting!Init, Seqs
<1>2. BurstTyped /\ BurstTyped' /\ OneOutcomePerPacket /\ OneOutcomePerPacket'
        /\ OwnershipInv /\ WatchInv /\ WatchInv' /\ AccountInv /\ [Next]_vars
      => [Accounting!Next]_(Accounting!vars)
  BY AccountingStep
<1>3. Spec => []BurstTyped
  BY TypeCorrect, PTL DEF BurstTyped
<1>4. QED
  BY <1>1, <1>2, <1>3, OwnershipInvariant, WatchInvariant, AccountInvariant, PTL
     DEF Spec, AccountingSpec, Accounting!Spec

-----------------------------------------------------------------------------
(***************************************************************************)
(* The arithmetic of a test packet.                                        *)
(***************************************************************************)

\* Quotient and remainder.
LEMMA DivMod ==
  ASSUME NEW a \in Int, NEW b \in Nat \ {0}
  PROVE  /\ a \div b \in Int /\ a % b \in 0 .. b - 1
         /\ a = b * (a \div b) + (a % b)
         /\ a >= 0 => a \div b >= 0
OBVIOUS

\* Of a larger number the quotient is not smaller.
LEMMA DivMonotone ==
  ASSUME NEW a \in Int, NEW c \in Int, NEW b \in Nat \ {0}, a <= c
  PROVE  a \div b <= c \div b
<1> DEFINE p == a \div b
           q == c \div b
<1>1. PICK x \in 0 .. b - 1 : a = b * p + x
  BY DivMod
<1>2. PICK y \in 0 .. b - 1 : c = b * q + y
  BY DivMod
<1>3. p \in Int /\ q \in Int
  BY DivMod
<1> HIDE DEF p, q
<1>4. SUFFICES ASSUME q + 1 <= p PROVE FALSE
  BY <1>3 DEF p, q
<1>5. b * (q + 1) <= b * p
  BY <1>3, <1>4
<1>6. b * (q + 1) = b * q + b
  BY <1>3
<1>7. PICK u \in Int, v \in Int : u = b * p /\ v = b * q
  BY <1>3
<1>8. QED
  BY <1>1, <1>2, <1>5, <1>6, <1>7

\* Nanoseconds that are turned into fractions, of which there are more, and back
\* lose at most one.
LEMMA FractionLosesOne ==
  ASSUME NEW r \in 0 .. Nanos - 1
  PROVE  r - ((((r * Fractions) \div Nanos) * Nanos) \div Fractions) \in 0 .. 1
<1> DEFINE f == (r * Fractions) \div Nanos
           g == (f * Nanos) \div Fractions
<1>1. Nanos \in Nat \ {0} /\ Fractions \in Nat \ {0} /\ Nanos <= Fractions /\ r \in Nat
  BY ExchangeAssumption
<1>2. r * Fractions \in Int
  BY <1>1
<1>3. f \in Int /\ \E d \in 0 .. Nanos - 1 : r * Fractions = Nanos * f + d
  BY <1>1, <1>2, DivMod
<1>4. PICK d \in 0 .. Nanos - 1 : r * Fractions = Nanos * f + d
  BY <1>3
<1> HIDE DEF f
<1>5. f * Nanos \in Int /\ f * Nanos = Nanos * f
  BY <1>1, <1>3
<1>6. g \in Int /\ \E z \in 0 .. Fractions - 1 : f * Nanos = Fractions * g + z
  BY <1>1, <1>5, DivMod
<1>7. PICK z \in 0 .. Fractions - 1 : f * Nanos = Fractions * g + z
  BY <1>6
<1> HIDE DEF g
<1>8. Fractions * (r - g) = r * Fractions - Fractions * g
  BY <1>1, <1>6
<1>9. PICK x \in Int, y \in Int, w \in Int :
        x = r * Fractions /\ y = Fractions * g /\ w = Nanos * f
  BY <1>1, <1>3, <1>6
<1>10. PICK k \in Int : k = r - g
  BY <1>1, <1>6
<1>11. x = w + d /\ w = y + z /\ Fractions * k = x - y
  BY <1>4, <1>5, <1>7, <1>8, <1>9, <1>10
<1>12. Fractions * k >= 0 /\ Fractions * k <= 2 * Fractions - 2
  BY <1>1, <1>11
<1>13. k \in 0 .. 1
  <2>1. ~(k <= -1)
    BY <1>1, <1>12
  <2>2. ~(k >= 2)
    BY <1>1, <1>12
  <2>3. QED
    BY <2>1, <2>2
<1>14. QED
  BY <1>10, <1>13 DEF f, g

\* A time that travels in the NTP format comes back in the first era, one
\* nanosecond early at the most.
LEMMA RoundTrip ==
  ASSUME NEW t \in Nat
  PROVE  /\ EraOf(t) \in Nat
         /\ \E e \in 0 .. 1 : NtpToTime(TimeToNTP(t)) = t - e - EraOf(t) * Era * Nanos
<1> DEFINE q == t \div Nanos
           r == t % Nanos
           n == EraOf(t)
           m == (q + Epoch) % Era
           g == (((r * Fractions) \div Nanos) * Nanos) \div Fractions
<1>1. Nanos \in Nat \ {0} /\ Era \in Nat \ {0} /\ Epoch \in Nat
  BY ExchangeAssumption
<1>2. q \in Nat /\ r \in 0 .. Nanos - 1 /\ t = Nanos * q + r
  BY <1>1, DivMod
<1>3. NtpToTime(TimeToNTP(t)) = (m - Epoch) * Nanos + g
  BY DEF NtpToTime, TimeToNTP
<1>4. PICK e \in 0 .. 1 : r - g = e
  BY <1>2, FractionLosesOne
<1>5. g \in Int
  <2>1. Fractions \in Nat \ {0}
    BY ExchangeAssumption
  <2>2. r * Fractions \in Int
    BY <1>2, <2>1
  <2>3. (r * Fractions) \div Nanos \in Int
    BY <1>1, <2>2, DivMod
  <2>4. ((r * Fractions) \div Nanos) * Nanos \in Int
    BY <1>1, <2>3
  <2>5. QED
    BY <2>1, <2>4, DivMod
<1> HIDE DEF g, r, q
<1>6. n = (q + Epoch) \div Era
  BY DEF EraOf, q
<1>7. n \in Nat /\ m \in Int /\ q + Epoch = Era * n + m
  <2>1. PICK v \in Nat : v = q + Epoch
    BY <1>1, <1>2
  <2>2. v \div Era \in Nat /\ v % Era \in Int /\ v = Era * (v \div Era) + (v % Era)
    BY <1>1, DivMod
  <2>3. n = v \div Era /\ m = v % Era
    BY <1>6, <2>1
  <2>4. QED
    BY <2>1, <2>2, <2>3
<1> HIDE DEF n, m
<1>8. m - Epoch = q - Era * n
  BY <1>1, <1>2, <1>7
<1>9. (m - Epoch) * Nanos = q * Nanos - (n * Era) * Nanos
  <2>1. PICK k \in Int : k = Era * n
    BY <1>1, <1>7
  <2>2. n * Era = k
    BY <1>1, <1>7, <2>1
  <2>3. (q - k) * Nanos = q * Nanos - k * Nanos
    BY <1>1, <1>2
  <2>4. QED
    BY <1>8, <2>1, <2>2, <2>3
<1>10. q * Nanos = Nanos * q
  BY <1>1, <1>2
<1>11. PICK x \in Int, y \in Int : x = Nanos * q /\ y = (n * Era) * Nanos
  BY <1>1, <1>2, <1>7
<1>12. (m - Epoch) * Nanos + g = t - e - y
  BY <1>2, <1>4, <1>5, <1>9, <1>10, <1>11
<1>13. QED
  BY <1>3, <1>7, <1>11, <1>12 DEF n

\* A later time is in the same era or a later one.
LEMMA ErasFollow ==
  ASSUME NEW t \in Nat, NEW u \in Nat, t <= u
  PROVE  EraOf(t) <= EraOf(u)
<1>1. Nanos \in Nat \ {0} /\ Era \in Nat \ {0} /\ Epoch \in Nat
  BY ExchangeAssumption
<1>2. PICK p \in Int, q \in Int : p = t \div Nanos /\ q = u \div Nanos
  <2>1. t \in Int /\ u \in Int
    OBVIOUS
  <2>2. t \div Nanos \in Int /\ u \div Nanos \in Int
    BY <1>1, <2>1, DivMod
  <2>3. QED
    BY <2>2
<1>3. p <= q
  BY <1>1, <1>2, DivMonotone
<1>4. p + Epoch \in Int /\ q + Epoch \in Int /\ p + Epoch <= q + Epoch
  BY <1>1, <1>3
<1>5. QED
  BY <1>1, <1>2, <1>4, DivMonotone DEF EraOf

\* The larger of zero and a number.
LEMMA NotNegative ==
  ASSUME NEW x \in Int
  PROVE  Max({0, x}) = IF x >= 0 THEN x ELSE 0
<1> DEFINE P(y) == y \in {0, x} /\ \A z \in {0, x} : y >= z
<1>1. P(IF x >= 0 THEN x ELSE 0)
  OBVIOUS
<1>2. \A y : P(y) => y = IF x >= 0 THEN x ELSE 0
  OBVIOUS
<1>3. Max({0, x}) = CHOOSE y : P(y)
  BY DEF Max
<1> HIDE DEF P
<1>4. QED
  BY <1>1, <1>2, <1>3

-----------------------------------------------------------------------------
(***************************************************************************)
(* The exchange.                                                           *)
(***************************************************************************)

\* Where the clocks stand, and what was read from them.
ExchangeInv ==
  /\ now \in Nat /\ offset \in Int /\ now + offset >= 0 /\ wire \in Nat
  /\ pc \in {"send", "out", "held", "back", "done"}
  /\ pc = "send" => wire = 0
  /\ pc # "send" => t1 \in Nat /\ wire <= now - t1
  /\ pc = "out" => wire = now - t1
  /\ pc \in {"held", "back", "done"} => t2 \in Nat
  /\ pc = "held" => T3 = now + offset
  /\ pc \in {"back", "done"} =>
        response.receive = TimeToNTP(t2) /\ response.sender = TimeToNTP(T3)
  /\ pc = "done" =>
        rtt = CalculateRTT(t1, NtpToTime(TimeToNTP(t2)), NtpToTime(TimeToNTP(T3)), now)

\* The exchange starts at a time that both clocks can tell, and keeps to what it
\* has read.
LEMMA ExchangeInvStep ==
  /\ ExchangeInit => ExchangeInv
  /\ ExchangeInv /\ [ExchangeNext]_exchangeVars => ExchangeInv'
<1>1. ExchangeInit => ExchangeInv
  BY ExchangeAssumption DEF ExchangeInit, ExchangeInv
<1>2. ASSUME ExchangeInv, SendRequest PROVE ExchangeInv'
  BY <1>2 DEF ExchangeInv, SendRequest
<1>3. ASSUME ExchangeInv, Receive PROVE ExchangeInv'
  BY <1>3 DEF ExchangeInv, Receive, T3
<1>4. ASSUME ExchangeInv, Reply PROVE ExchangeInv'
  <2>1. T3' = now + offset
    BY <1>4 DEF ExchangeInv, Reply, T3
  <2>2. response'.receive = TimeToNTP(t2) /\ response'.sender = TimeToNTP(now + offset)
    BY <1>4 DEF Reply
  <2>3. TimeToNTP(T3') = TimeToNTP(now + offset) /\ TimeToNTP(t2') = TimeToNTP(t2)
    BY <1>4, <2>1 DEF Reply
  <2>4. QED
    BY <1>4, <2>2, <2>3 DEF ExchangeInv, Reply
<1>5. ASSUME ExchangeInv, TakeReply PROVE ExchangeInv'
  BY <1>5 DEF ExchangeInv, TakeReply, T3
<1>6. ASSUME ExchangeInv, TimePasses PROVE ExchangeInv'
  <2>1. /\ pc \in {"out", "held", "back"} /\ pc' = pc /\ now' = now + 1
        /\ UNCHANGED <<offset, t1, t2, response>>
        /\ wire' = IF pc = "held" THEN wire ELSE wire + 1
    BY <1>6 DEF TimePasses
  <2>2. pc = "held" => T3' = T3 + 1
    BY <1>6, <2>1 DEF ExchangeInv, T3
  <2>3. pc = "back" => T3' = T3
    BY <1>6, <2>1 DEF ExchangeInv, T3
  <2>4. pc = "held" => T3' = now' + offset'
    BY <1>6, <2>1, <2>2 DEF ExchangeInv
  <2>5. pc = "back" =>
          response'.receive = TimeToNTP(t2') /\ response'.sender = TimeToNTP(T3')
    BY <1>6, <2>1, <2>3 DEF ExchangeInv
  <2>6. QED
    BY <1>6, <2>1, <2>4, <2>5 DEF ExchangeInv
<1>7. ASSUME ExchangeInv, UNCHANGED exchangeVars PROVE ExchangeInv'
  BY <1>7 DEF ExchangeInv, exchangeVars, T3
<1>8. QED
  BY <1>1, <1>2, <1>3, <1>4, <1>5, <1>6, <1>7 DEF ExchangeNext, ExchangeEnded

\* The RTT is the time under way, to a nanosecond, for clocks that are any time
\* apart and in any era, and for any resolution and width of the NTP format; when
\* the era turns while the reflector has the packet it is an era too long
\* (main.go 48-58, 183-189, 427-447, 742).
THEOREM RttExact == ExchangeSpec => []RttIsTimeUnderWay
<1>1. ExchangeInv => RttIsTimeUnderWay
  <2> SUFFICES ASSUME ExchangeInv, pc = "done"
               PROVE  rtt - wire - (EraOf(T3) - EraOf(t2)) * Era * Nanos \in -1 .. 1
    BY DEF RttIsTimeUnderWay
  <2>1. /\ now \in Nat /\ t1 \in Nat /\ t2 \in Nat /\ wire \in Nat /\ wire <= now - t1
        /\ rtt = CalculateRTT(t1, NtpToTime(TimeToNTP(t2)), NtpToTime(TimeToNTP(T3)), now)
    BY DEF ExchangeInv
  <2>2. PICK u \in Nat : u = T3 /\ u = t2 + ((now - t1) - wire) /\ t2 <= u
    BY <2>1 DEF T3
  <2>3. PICK m \in Nat, d \in 0 .. 1 :
          m = EraOf(t2) /\ NtpToTime(TimeToNTP(t2)) = t2 - d - m * Era * Nanos
    BY <2>1, RoundTrip
  <2>4. PICK n \in Nat, e \in 0 .. 1 :
          n = EraOf(u) /\ NtpToTime(TimeToNTP(u)) = u - e - n * Era * Nanos
    BY RoundTrip
  <2>5. m <= n
    BY <2>1, <2>2, <2>3, <2>4, ErasFollow
  <2>6. Era \in Nat /\ Nanos \in Nat
    BY ExchangeAssumption
  <2>7. PICK k \in Nat : k = (n - m) * Era * Nanos /\ k = n * Era * Nanos - m * Era * Nanos
    <3>1. PICK w \in Nat : w = Era * Nanos
      BY <2>6
    <3>2. /\ (n - m) * Era * Nanos = (n - m) * w
          /\ n * Era * Nanos = n * w /\ m * Era * Nanos = m * w
      BY <2>6, <3>1
    <3>3. (n - m) * w = n * w - m * w /\ (n - m) * w \in Nat
      BY <2>5
    <3>4. QED
      BY <3>2, <3>3
  <2>8. PICK x \in Int, y \in Int : x = n * Era * Nanos /\ y = m * Era * Nanos
    BY <2>6
  <2>9. (now - t1) - ((u - e - x) - (t2 - d - y)) = wire + (e - d) + k
    BY <2>1, <2>2, <2>7, <2>8
  <2>10. rtt = Max({0, wire + (e - d) + k})
    BY <2>1, <2>2, <2>3, <2>4, <2>8, <2>9 DEF CalculateRTT
  <2>11. rtt - wire - k \in -1 .. 1
    <3>1. wire + (e - d) + k \in Int
      BY <2>1
    <3>2. rtt = IF wire + (e - d) + k >= 0 THEN wire + (e - d) + k ELSE 0
      BY <2>10, <3>1, NotNegative
    <3>3. QED
      BY <2>1, <3>2
  <2>12. QED
    BY <2>2, <2>3, <2>4, <2>7, <2>11
<1>2. QED
  BY <1>1, ExchangeInvStep, PTL DEF ExchangeSpec

=============================================================================
