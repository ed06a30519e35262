--------------------------- MODULE PipelineProofs ---------------------------
(***************************************************************************)
(* What AgentPipeline and DualPipeline promise for any results, capacity   *)
(* of the channels, size of the batches and number of attempts.  The       *)
(* theorems of each use the assumptions of their own module only.          *)
(*                                                                         *)
(* Both arguments follow the line of results from the channel to InfluxDB: *)
(* what write posts, then the batch, then the channel.  A producer adds a  *)
(* result at its end; the writer moves results along without touching the  *)
(* line, and takes off its front only what it has posted or given up.  In  *)
(* the dual mode the results are numbered, and the order they keep along   *)
(* the line and before the gauges is part of the invariant.                *)
(***************************************************************************)
EXTENDS AgentPipeline, DualPipeline, FiniteSetTheorems, SequenceTheorems, TLAPS

Line == body \o batch \o chan

NoDup(s) == \A i, j \in 1 .. Len(s) : s[i] = s[j] => i = j

Increasing(s) == \A i, j \in 1 .. Len(s) : i < j => s[i] < s[j]

\* The writer has lines to post only while it posts, and a batch only while it
\* gathers one.
WriterInv ==
  /\ chan \in Seq(Results) /\ batch \in Seq(Results) /\ body \in Seq(Results)
  /\ wPc \in {"loop", "drain", "post", "backoff", "exited"}
  /\ wPc \in {"post", "backoff", "exited"} => batch = <<>>
  /\ wPc \in {"loop", "drain", "exited"} => body = <<>>

\* The value of cur before a scheduler has measured anything.
NoResult == CHOOSE r \in Results : TRUE

\* A result is measured once, by its owner, and pushed once.
ScheduleInv ==
  /\ sPc \in [Schedulers -> {"select", "push", "store", "exited"}]
  /\ cur \in [Schedulers -> Results \cup {NoResult}]
  /\ measured \subseteq Results /\ pushed \subseteq measured
  /\ \A s \in Schedulers :
        sPc[s] = "push" => cur[s] \in measured \ pushed /\ Owner[cur[s]] = s

LineInv ==
  /\ Elems(Line) \subseteq pushed /\ NoDup(Line)
  /\ pushed \subseteq Elems(Line) \cup posted \cup dropped

\* The records are those of Append calls that were made.
StoreInv ==
  /\ appends \in Seq(Results \cup {NoResult})
  /\ kept \subseteq 1 .. Len(appends) /\ whole \subseteq kept
  /\ faultAt \in Nat /\ faultAt <= Len(appends)

Inv == WriterInv /\ ScheduleInv /\ LineInv /\ StoreInv /\ StoreBacksUp

-----------------------------------------------------------------------------
(***************************************************************************)
(* Sequences.                                                              *)
(***************************************************************************)

\* The elements of two sequences, one after the other, are those of both.
LEMMA ElemsConcat ==
  ASSUME NEW S, NEW s \in Seq(S), NEW t \in Seq(S)
  PROVE  Elems(s \o t) = Elems(s) \cup Elems(t)
<1>1. s \o t \in Seq(S)
  BY ConcatProperties
<1>2. Range(s \o t) = Range(s) \cup Range(t)
  BY RangeConcatenation
<1>3. \A u \in Seq(S) : Elems(u) = Range(u)
  BY RangeEquality DEF Elems
<1>4. QED
  BY <1>1, <1>2, <1>3

\* The head of a sequence may go to the end of the one before it.
LEMMA MoveHead ==
  ASSUME NEW S, NEW s \in Seq(S), NEW t \in Seq(S), t # <<>>
  PROVE  /\ Append(s, Head(t)) \in Seq(S) /\ Tail(t) \in Seq(S)
         /\ Append(s, Head(t)) \o Tail(t) = s \o t
<1>1. Head(t) \in S /\ Tail(t) \in Seq(S)
  BY HeadTailProperties
<1>2. t = <<Head(t)>> \o Tail(t)
  OBVIOUS
<1>3. Append(s, Head(t)) \in Seq(S) /\ Append(s, Head(t)) = s \o <<Head(t)>>
  BY <1>1, AppendProperties, AppendIsConcat
<1>4. (s \o <<Head(t)>>) \o Tail(t) = s \o (<<Head(t)>> \o Tail(t))
  <2>1. <<Head(t)>> \in Seq(S)
    BY <1>1
  <2>2. QED
    BY <1>1, <2>1, ConcatAssociative
<1>5. QED
  BY <1>1, <1>2, <1>3, <1>4

\* Where the elements of the second of two sequences are.
LEMMA RestOf ==
  ASSUME NEW S, NEW s \in Seq(S), NEW t \in Seq(S), NEW i \in 1 .. Len(t)
  PROVE  i + Len(s) \in 1 .. Len(s \o t) /\ (s \o t)[i + Len(s)] = t[i]
<1>1. /\ Len(s) \in Nat /\ Len(t) \in Nat /\ Len(s \o t) = Len(s) + Len(t)
      /\ \A k \in 1 .. Len(s) + Len(t) :
           (s \o t)[k] = IF k <= Len(s) THEN s[k] ELSE t[k - Len(s)]
  BY LenProperties, ConcatProperties
<1>2. i + Len(s) \in 1 .. Len(s) + Len(t) /\ ~(i + Len(s) <= Len(s))
      /\ (i + Len(s)) - Len(s) = i
  BY <1>1
<1>3. QED
  BY <1>1, <1>2

\* What follows a part of a sequence without duplicates has none either, and of
\* an increasing one it increases.
LEMMA RestKept ==
  ASSUME NEW S, NEW s \in Seq(S), NEW t \in Seq(S)
  PROVE  /\ NoDup(s \o t) => NoDup(t)
         /\ Increasing(s \o t) => Increasing(t)
<1>1. Len(s) \in Nat /\ Len(t) \in Nat
  BY LenProperties
<1>2. \A i \in 1 .. Len(t) : i + Len(s) \in 1 .. Len(s \o t) /\ (s \o t)[i + Len(s)] = t[i]
  BY RestOf
<1>3. \A i, j \in 1 .. Len(t) :
        /\ i + Len(s) = j + Len(s) => i = j
        /\ i < j => i + Len(s) < j + Len(s)
  BY <1>1
<1>4. NoDup(s \o t) => NoDup(t)
  BY <1>2, <1>3 DEF NoDup
<1>5. Increasing(s \o t) => Increasing(t)
  BY <1>2, <1>3 DEF Increasing
<1>6. QED
  BY <1>4, <1>5

\* A new element at the end makes no duplicate.
LEMMA NoDupAppend ==
  ASSUME NEW S, NEW s \in Seq(S), NEW x \in S, NoDup(s), x \notin Elems(s)
  PROVE  NoDup(Append(s, x)) /\ Elems(Append(s, x)) = Elems(s) \cup {x}
<1> DEFINE a == Append(s, x)
<1>1. /\ Len(s) \in Nat /\ Len(a) = Len(s) + 1 /\ a[Len(s) + 1] = x
      /\ \A i \in 1 .. Len(s) : a[i] = s[i]
  BY LenProperties, AppendProperties
<1> HIDE DEF a
<1>2. \A i \in 1 .. Len(a) : i \in 1 .. Len(s) \/ i = Len(s) + 1
  BY <1>1
<1>3. \A i \in 1 .. Len(s) : i \in 1 .. Len(a) /\ s[i] # x
  BY <1>1 DEF Elems
<1>4. Len(s) + 1 \in 1 .. Len(a)
  BY <1>1
<1>5. NoDup(a)
  BY <1>1, <1>2, <1>3 DEF NoDup
<1>6. Elems(a) = Elems(s) \cup {x}
  BY <1>1, <1>2, <1>3, <1>4 DEF Elems
<1>7. QED
  BY <1>5, <1>6 DEF a

\* A sequence without duplicates has as many elements as its length.
LEMMA NoDupSize ==
  ASSUME NEW S, NEW s \in Seq(S), NoDup(s)
  PROVE  Cardinality(Elems(s)) = Len(s)
<1>1. Len(s) \in Nat /\ s \in [1 .. Len(s) -> S]
  BY LenProperties
<1>2. s \in [1 .. Len(s) -> Elems(s)]
  BY <1>1 DEF Elems
<1>3. s \in Surjection(1 .. Len(s), Elems(s))
  BY <1>2 DEF Surjection, Elems
<1>4. s \in Injection(1 .. Len(s), Elems(s))
  BY <1>1, <1>2 DEF Injection, IsInjective, NoDup
<1>5. IsFiniteSet(1 .. Len(s)) /\ Cardinality(1 .. Len(s)) = Len(s)
  BY <1>1, FS_Interval
<1>6. Cardinality(Elems(s)) = Cardinality(1 .. Len(s))
  BY <1>3, <1>4, <1>5, FS_Surjection
<1>7. QED
  BY <1>5, <1>6

\* The parts of the line that are empty do not show.
LEMMA LineOf ==
  ASSUME NEW S, NEW b \in Seq(S), NEW c \in Seq(S), NEW d \in Seq(S)
  PROVE  /\ b \o c \o d \in Seq(S)
         /\ <<>> \o c \o d = c \o d
         /\ b \o <<>> \o d = b \o d
         /\ <<>> \o <<>> \o d = d
<1>1. b \o c \in Seq(S) /\ <<>> \o c = c /\ b \o <<>> = b /\ <<>> \o d = d
  BY ConcatProperties, ConcatEmptySeq
<1>2. <<>> \in Seq(S)
  BY EmptySeq
<1>3. <<>> \o <<>> = <<>>
  BY <1>2, ConcatEmptySeq
<1>4. b \o c \o d \in Seq(S)
  BY <1>1, ConcatProperties
<1>5. QED
  BY <1>1, <1>3, <1>4

-----------------------------------------------------------------------------
(***************************************************************************)
(* The writer.                                                             *)
(***************************************************************************)

\* A step of the writer leaves the line as it is, or takes off its front the
\* lines of a write that were posted or given up.
LEMMA WriterLine ==
  ASSUME WriterInv, WriterStep
  PROVE  /\ WriterInv'
         /\ posted \subseteq posted' /\ dropped \subseteq dropped'
         /\ \/ Line' = Line
            \/ Line = body \o Line' /\ Elems(body) \subseteq posted' \cup dropped'
<1> USE DEF WriterInv
<1>1. <<>> \in Seq(Results)
  BY EmptySeq
<1>2. /\ body = <<>> => Line = batch \o chan
      /\ batch = <<>> => Line = body \o chan
  <2>1. <<>> \o batch \o chan = batch \o chan /\ body \o <<>> \o chan = body \o chan
    BY LineOf
  <2>2. QED
    BY <2>1 DEF Line
<1>3. ASSUME chan # <<>>
      PROVE  /\ Append(batch, Head(chan)) \in Seq(Results) /\ Tail(chan) \in Seq(Results)
             /\ Append(batch, Head(chan)) \o Tail(chan) = batch \o chan
  BY <1>3, MoveHead
<1>4. ASSUME wPc = "loop" \/ wPc = "drain", chan # <<>>, UNCHANGED <<wPc, body, posted, dropped>>,
             batch' = Append(batch, Head(chan)), chan' = Tail(chan)
      PROVE  WriterInv' /\ Line' = Line
  <2>1. body = <<>> /\ body' = <<>>
    BY <1>4
  <2>2. batch' \in Seq(Results) /\ chan' \in Seq(Results)
    BY <1>3, <1>4
  <2>3. <<>> \o batch' \o chan' = batch' \o chan'
    BY <1>1, <2>2, LineOf
  <2>4. Line' = batch' \o chan'
    BY <2>1, <2>3 DEF Line
  <2>5. WriterInv'
    BY <1>4, <2>1, <2>2
  <2>6. QED
    BY <1>2, <1>3, <1>4, <2>1, <2>4, <2>5
<1>5. ASSUME wPc = "loop" \/ wPc = "drain", UNCHANGED <<chan, posted, dropped>>,
             body' = batch, batch' = <<>>, wPc' = "post"
      PROVE  WriterInv' /\ Line' = Line
  BY <1>1, <1>2, <1>5, LineOf DEF Line
<1>6. ASSUME wPc \in {"post", "backoff"}, UNCHANGED chan, Leave
      PROVE  WriterInv' /\ Line = body \o Line'
  <2>1. body' = <<>> /\ batch' = <<>> /\ wPc' \in {"loop", "exited"}
    BY <1>6 DEF Leave
  <2>2. Line' = chan
    BY <1>6, <2>1, LineOf DEF Line
  <2>3. QED
    BY <1>1, <1>2, <1>6, <2>1, <2>2
<1>7. CASE Receive
  <2>1. CASE batch' = Append(batch, Head(chan)) /\ UNCHANGED <<wPc, body>>
    BY <1>4, <1>7, <2>1 DEF Receive
  <2>2. CASE Flush(Append(batch, Head(chan)), "loop")
    <3>1. /\ body' = Append(batch, Head(chan)) /\ batch' = <<>> /\ chan' = Tail(chan)
          /\ chan # <<>> /\ wPc = "loop" /\ wPc' = "post" /\ UNCHANGED <<posted, dropped>>
      BY <1>7, <2>2 DEF Receive, Flush
    <3>2. Line' = body' \o chan' /\ WriterInv'
      BY <1>1, <1>3, <3>1, LineOf DEF Line
    <3>3. QED
      BY <1>2, <1>3, <3>1, <3>2
  <2>3. QED
    BY <1>7, <2>1, <2>2 DEF Receive
<1>8. CASE FlushTick
  BY <1>5, <1>8 DEF FlushTick, Flush, chvars
<1>9. CASE ReceiveClosed
  <2>1. CASE batch = <<>>
    BY <1>9, <2>1 DEF ReceiveClosed, Line, chvars
  <2>2. CASE batch # <<>>
    BY <1>5, <1>9, <2>2 DEF ReceiveClosed, Flush, chvars
  <2>3. QED
    BY <2>1, <2>2
<1>10. CASE SeeCancel
  BY <1>10 DEF SeeCancel, Line, chvars
<1>11. CASE DrainTake
  BY <1>4, <1>11 DEF DrainTake
<1>12. CASE DrainDone
  <2>1. CASE batch = <<>>
    BY <1>12, <2>1 DEF DrainDone, Line, chvars
  <2>2. CASE batch # <<>>
    BY <1>5, <1>12, <2>2 DEF DrainDone, chvars
  <2>3. QED
    BY <2>1, <2>2
<1>13. CASE PostOk
  BY <1>6, <1>13 DEF PostOk, chvars
<1>14. CASE PostFail
  <2>1. posted \subseteq posted' /\ wPc = "post" /\ UNCHANGED chan
    BY <1>14 DEF PostFail, chvars
  <2>2. CASE GiveUp
    BY <1>6, <2>1, <2>2 DEF GiveUp
  <2>3. CASE wPc' = "backoff" /\ UNCHANGED <<batch, body, dropped>>
    BY <2>1, <2>3 DEF Line
  <2>4. QED
    BY <1>14, <2>2, <2>3 DEF PostFail
<1>15. CASE Retry
  BY <1>15 DEF Retry, Line, chvars
<1>16. CASE BackoffCut
  BY <1>6, <1>16 DEF BackoffCut, GiveUp, chvars
<1>17. CASE PostUnbuilt
  BY <1>6, <1>17 DEF PostUnbuilt, GiveUp, chvars
<1>18. QED
  BY <1>7, <1>8, <1>9, <1>10, <1>11, <1>12, <1>13, <1>14, <1>15, <1>16, <1>17 DEF WriterStep

\* What is added to the channel is added to the line.
LEMMA LineAppend ==
  ASSUME WriterInv, NEW r \in Results, chan' = Append(chan, r), UNCHANGED <<batch, body>>
  PROVE  Line' = Append(Line, r)
<1>1. PICK front \in Seq(Results) : front = body \o batch
  <2>1. body \o batch \in Seq(Results)
    BY ConcatProperties DEF WriterInv
  <2>2. QED
    BY <2>1
<1>2. PICK c \in Seq(Results) : c = chan
  BY DEF WriterInv
<1>3. front \o Append(c, r) = Append(front \o c, r)
  OBVIOUS
<1>4. QED
  BY <1>1, <1>2, <1>3 DEF Line

\* The line is what the channel and the writer hold.
LEMMA LineInHand ==
  ASSUME WriterInv
  PROVE  /\ Line \in Seq(Results)
         /\ Elems(Line) \subseteq Elems(chan) \cup InHand
<1>1. Line \in Seq(Results) /\ body \o batch \in Seq(Results)
  BY LineOf, ConcatProperties DEF WriterInv, Line
<1>2. Elems(body \o batch) = Elems(body) \cup Elems(batch)
  BY ElemsConcat DEF WriterInv
<1>3. chan \in Seq(Results)
  BY DEF WriterInv
<1>4. \A s, t \in Seq(Results) : Elems(s \o t) = Elems(s) \cup Elems(t)
  BY ElemsConcat
<1>5. Elems((body \o batch) \o chan) = Elems(body \o batch) \cup Elems(chan)
  BY ONLY <1>1, <1>3, <1>4
<1>6. Elems(Line) = Elems(body) \cup Elems(batch) \cup Elems(chan)
  BY <1>2, <1>5 DEF Line
<1>7. wPc = "exited" => Elems(body) = {} /\ Elems(batch) = {}
  BY EmptySeq DEF WriterInv, Elems
<1>8. QED
  BY <1>1, <1>6, <1>7 DEF InHand

\* When the line only shrinks at its front, by what is posted or given up, no
\* result is lost, doubled or overtaken.
LEMMA LineShrinks ==
  ASSUME WriterInv, WriterInv',
         \/ Line' = Line
         \/ Line = body \o Line' /\ Elems(body) \subseteq posted' \cup dropped'
  PROVE  /\ Line \in Seq(Results) /\ Line' \in Seq(Results)
         /\ Elems(Line') \subseteq Elems(Line)
         /\ Elems(Line) \subseteq Elems(Line') \cup posted' \cup dropped'
         /\ NoDup(Line) => NoDup(Line')
         /\ Increasing(Line) => Increasing(Line')
<1>1. Line \in Seq(Results) /\ Line' \in Seq(Results)
  BY LineOf DEF WriterInv, Line
<1>2. CASE Line' = Line
  BY <1>1, <1>2
<1>3. CASE Line = body \o Line' /\ Elems(body) \subseteq posted' \cup dropped'
  <2>1. PICK l \in Seq(Results) : l = Line'
    BY <1>1
  <2>2. PICK c \in Seq(Results) : c = Line
    BY <1>1
  <2>3. c = body \o l /\ body \in Seq(Results)
    BY <1>3, <2>1, <2>2 DEF WriterInv
  <2>4. Elems(c) = Elems(body) \cup Elems(l)
    BY <2>3, ElemsConcat
  <2>5. (NoDup(c) => NoDup(l)) /\ (Increasing(c) => Increasing(l))
    BY <2>3, RestKept
  <2>6. QED
    BY <1>1, <1>3, <2>1, <2>2, <2>4, <2>5
<1>4. QED
  BY <1>2, <1>3

\* The line of the agent is kept by the writer.
LEMMA LineKept ==
  ASSUME WriterInv, LineInv, UNCHANGED pushed, WriterStep
  PROVE  WriterInv' /\ LineInv'
<1>1. /\ WriterInv' /\ posted \subseteq posted' /\ dropped \subseteq dropped'
      /\ \/ Line' = Line
         \/ Line = body \o Line' /\ Elems(body) \subseteq posted' \cup dropped'
  BY WriterLine
<1>2. /\ Elems(Line') \subseteq Elems(Line)
      /\ Elems(Line) \subseteq Elems(Line') \cup posted' \cup dropped'
      /\ NoDup(Line) => NoDup(Line')
  BY <1>1, LineShrinks
<1>3. QED
  BY <1>1, <1>2 DEF LineInv

-----------------------------------------------------------------------------
(***************************************************************************)
(* The schedulers and the store.                                           *)
(***************************************************************************)

\* The places and the results of the schedulers, after a step of one of them.
LEMMA ScheduleMoves ==
  ASSUME ScheduleInv, NEW s \in Schedulers, NEW where \in {"select", "store", "exited"},
         Go(s, where), UNCHANGED <<cur, measured>>,
         pushed' = pushed \/ (sPc[s] = "push" /\ pushed' = pushed \cup {cur[s]})
  PROVE  ScheduleInv'
<1>1. sPc' \in [Schedulers -> {"select", "push", "store", "exited"}]
  BY DEF ScheduleInv, Go
<1>2. pushed' \subseteq measured
  BY DEF ScheduleInv
<1>3. ASSUME NEW t \in Schedulers, sPc'[t] = "push"
      PROVE  cur[t] \in measured \ pushed' /\ Owner[cur[t]] = t
  <2>1. t # s /\ sPc[t] = "push"
    BY <1>3 DEF ScheduleInv, Go
  <2>2. cur[t] \in measured \ pushed /\ Owner[cur[t]] = t
    BY <2>1 DEF ScheduleInv
  <2>3. sPc[s] = "push" => cur[s] # cur[t]
    BY <2>1, <2>2 DEF ScheduleInv
  <2>4. QED
    BY <2>2, <2>3
<1>4. QED
  BY <1>1, <1>2, <1>3 DEF ScheduleInv

\* A result that is measured was not measured before.
LEMMA ProbeSchedules ==
  ASSUME ScheduleInv, NEW s \in Schedulers, Probe(s)
  PROVE  ScheduleInv'
<1>1. PICK r \in Results \ measured :
        /\ Owner[r] = s
        /\ measured' = measured \cup {r}
        /\ \/ UNCHANGED <<sPc, cur>>
           \/ cur' = [cur EXCEPT ![s] = r] /\ Go(s, "push")
  BY DEF Probe
<1>2. UNCHANGED pushed
  BY DEF Probe
<1>3. CASE UNCHANGED <<sPc, cur>>
  BY <1>1, <1>2, <1>3 DEF ScheduleInv
<1>4. CASE cur' = [cur EXCEPT ![s] = r] /\ Go(s, "push")
  <2>1. /\ sPc' \in [Schedulers -> {"select", "push", "store", "exited"}]
        /\ cur' \in [Schedulers -> Results \cup {NoResult}]
        /\ cur'[s] = r
        /\ \A t \in Schedulers \ {s} : cur'[t] = cur[t] /\ sPc'[t] = sPc[t]
    BY <1>4 DEF ScheduleInv, Go
  <2>2. r \in measured' \ pushed
    BY <1>1 DEF ScheduleInv
  <2>3. QED
    BY <1>1, <1>2, <2>1, <2>2 DEF ScheduleInv
<1>5. QED
  BY <1>1, <1>3, <1>4

\* The line grows by a result that was never in it.
LEMMA PushKeepsLine ==
  ASSUME WriterInv, ScheduleInv, LineInv, NEW s \in Schedulers, Push(s)
  PROVE  WriterInv' /\ LineInv'
<1>1. PICK r \in Results : r = cur[s]
  BY DEF Push, ScheduleInv
<1>2. /\ chan' = Append(chan, r) /\ pushed' = pushed \cup {r}
      /\ UNCHANGED <<body, batch, wPc, posted, dropped>>
  BY <1>1 DEF Push, Offer, wvars
<1>3. r \notin pushed
  BY <1>1 DEF Push, ScheduleInv
<1>4. chan' \in Seq(Results)
  BY <1>2, AppendProperties DEF WriterInv
<1>5. WriterInv'
  BY <1>2, <1>4 DEF WriterInv
<1>6. PICK l \in Seq(Results) : l = Line
  <2>1. Line \in Seq(Results)
    BY LineOf DEF WriterInv, Line
  <2>2. QED
    BY <2>1
<1>7. Line' = Append(l, r)
  BY <1>2, <1>6, LineAppend
<1>8. r \notin Elems(l) /\ NoDup(l)
  BY <1>3, <1>6 DEF LineInv
<1>9. NoDup(Append(l, r)) /\ Elems(Append(l, r)) = Elems(l) \cup {r}
  BY <1>8, NoDupAppend
<1>10. LineInv'
  BY <1>2, <1>6, <1>7, <1>9 DEF LineInv
<1>11. QED
  BY <1>5, <1>10

\* A step that touches neither the line nor what was pushed keeps them, though
\* InfluxDB may get more.
LEMMA LineUntouched ==
  ASSUME WriterInv, LineInv, UNCHANGED <<chan, wPc, batch, body, pushed, dropped>>,
         posted \subseteq posted'
  PROVE  WriterInv' /\ LineInv'
<1>1. Line' = Line
  BY DEF Line
<1>2. QED
  BY <1>1 DEF WriterInv, LineInv

\* At the start nothing was measured.
LEMMA InitInv == Init => Inv
<1> SUFFICES ASSUME Init PROVE Inv
  OBVIOUS
<1>1. <<>> \in Seq(Results) /\ Len(<<>>) = 0
  BY EmptySeq
<1>2. WriterInv
  BY <1>1 DEF Init, WriterInit, WriterInv
<1>3. ScheduleInv
  BY DEF Init, ScheduleInv, NoResult
<1>4. Line = <<>>
  BY <1>1, LineOf DEF Init, WriterInit, Line
<1>5. LineInv
  BY <1>1, <1>4 DEF Init, LineInv, Elems, NoDup
<1>6. StoreBacksUp
  BY DEF Init, StoreBacksUp
<1>7. StoreInv
  <2>1. appends = <<>> /\ kept = {} /\ whole = {} /\ faultAt = 0
    BY DEF Init
  <2>2. <<>> \in Seq(Results \cup {NoResult})
    BY EmptySeq
  <2>3. QED
    BY <1>1, <2>1, <2>2 DEF StoreInv
<1>8. QED
  BY <1>2, <1>3, <1>5, <1>6, <1>7 DEF Inv

\* The cap drops a line only when StoreCap of the numbers up to m are greater.
LEMMA PushedOut ==
  ASSUME NEW m \in Nat, NEW S \in SUBSET (1 .. m), NEW n \in S, n \notin Newest(S)
  PROVE  n + StoreCap <= m
<1> DEFINE later == {k \in S : k > n}
<1>1. StoreCap \in Nat /\ n \in 1 .. m
  BY PipelineAssumption
<1>2. later \subseteq n + 1 .. m
  <2>1. \A k \in 1 .. m : k > n => k \in n + 1 .. m
    BY <1>1
  <2>2. QED
    BY <2>1
<1>3. IsFiniteSet(n + 1 .. m) /\ Cardinality(n + 1 .. m) = m - n
  BY <1>1, FS_Interval
<1>4. IsFiniteSet(later) /\ Cardinality(later) <= m - n
  BY <1>2, <1>3, FS_Subset
<1>5. Cardinality(later) \in Nat
  BY <1>4, FS_CardinalityType
<1>6. ~(Cardinality(later) < StoreCap)
  BY DEF Newest
<1> HIDE DEF later
<1>7. QED
  BY <1>1, <1>4, <1>5, <1>6

\* The new line is never the one that the cap drops.
LEMMA NewestHasLast ==
  ASSUME NEW m \in Nat, NEW S \in SUBSET (1 .. m), m \in S
  PROVE  m \in Newest(S)
<1>1. {k \in S : k > m} = {}
  <2>1. \A k \in 1 .. m : ~(k > m)
    OBVIOUS
  <2>2. QED
    BY <2>1
<1>2. Cardinality({}) = 0 /\ 0 < StoreCap
  BY FS_EmptySet, PipelineAssumption
<1>3. QED
  BY <1>1, <1>2 DEF Newest

\* A call of Append adds itself to the calls, and no call that was taken is one
\* that was not.
LEMMA AppendsMore ==
  ASSUME StoreInv, ScheduleInv, NEW s \in Schedulers, Appends(s)
  PROVE  /\ appends' \in Seq(Results \cup {NoResult})
         /\ Len(appends) \in Nat /\ Len(appends') = Len(appends) + 1
         /\ appends'[Len(appends')] = cur[s]
         /\ \A n \in 1 .. Len(appends) : n \in 1 .. Len(appends') /\ appends'[n] = appends[n]
         /\ Len(appends') \in 1 .. Len(appends')
<1>1. cur[s] \in Results \cup {NoResult} /\ appends' = Append(appends, cur[s])
  BY DEF ScheduleInv, Appends
<1>2. appends \in Seq(Results \cup {NoResult})
  BY DEF StoreInv
<1>3. /\ appends' \in Seq(Results \cup {NoResult})
      /\ Len(appends) \in Nat /\ Len(appends') = Len(appends) + 1
      /\ appends'[Len(appends) + 1] = cur[s]
      /\ \A n \in 1 .. Len(appends) : appends'[n] = appends[n]
  BY <1>1, <1>2, LenProperties, AppendProperties
<1>4. QED
  BY <1>3

\* What a call of Append leaves in the store: every record that was a whole line
\* still is one, unless it is taken, and so is the new one.
LEMMA AppendKeepsRecords ==
  ASSUME StoreInv, ScheduleInv, NEW s \in Schedulers, Store(s) \/ StoreFails(s)
  PROVE  /\ StoreInv'
         /\ \A n \in 1 .. Len(appends) :
              /\ n \in whole => n \in whole' \/ Taken(n)'
              /\ Taken(n) => Taken(n)'
         /\ \E n \in 1 .. Len(appends') :
              appends'[n] = cur[s] /\ (n \in whole' \/ Taken(n)')
<1> DEFINE m == Len(appends')
<1>1. Appends(s)
  BY DEF Store, StoreFails
<1>2. /\ appends' \in Seq(Results \cup {NoResult})
      /\ Len(appends) \in Nat /\ m = Len(appends) + 1 /\ m \in Nat
      /\ appends'[m] = cur[s] /\ m \in 1 .. m
  BY <1>1, AppendsMore
<1>3. kept \subseteq 1 .. Len(appends) /\ faultAt \in Nat /\ faultAt <= Len(appends)
      /\ StoreCap \in Nat
  BY PipelineAssumption DEF StoreInv
<1>4. /\ kept \cup {m} \subseteq 1 .. m
      /\ \A n \in 1 .. Len(appends) : n \in 1 .. m
  <2>1. PICK l \in Nat : l = Len(appends)
    BY <1>2
  <2>2. m = l + 1
    BY <1>2, <2>1
  <2>3. m \in 1 .. m /\ \A n \in 1 .. l : n \in 1 .. m
    BY <2>2
  <2>4. QED
    BY <1>3, <2>1, <2>3
<1>5. (faultAt' = faultAt \/ faultAt' = m) /\ faultAt' \in Nat /\ faultAt <= faultAt'
      /\ faultAt' <= m
  BY <1>2, <1>3 DEF Store, StoreFails
<1>6. \A n \in 1 .. Len(appends) : Taken(n) => Taken(n)'
  BY <1>2, <1>3, <1>5 DEF Taken
<1>7. CASE faultAt' = m
  <2>1. \A n \in 1 .. m : Taken(n)'
    BY <1>2, <1>7 DEF Taken
  <2>2. kept' \subseteq 1 .. m
    BY <1>4 DEF Store, StoreFails, Newest
  <2>3. whole' \subseteq kept'
    BY DEF Store, StoreFails
  <2>4. StoreInv'
    BY <1>2, <1>5, <2>2, <2>3 DEF StoreInv
  <2>5. QED
    BY <1>2, <1>4, <1>6, <2>1, <2>4
<1>8. CASE kept' = Newest(kept \cup {m}) /\ whole' = kept' \cap (whole \cup {m})
  <2>1. kept' \subseteq 1 .. m
    BY <1>4, <1>8 DEF Newest
  <2>2. m \in whole'
    BY <1>2, <1>4, <1>8, NewestHasLast
  <2>3. ASSUME NEW n \in 1 .. Len(appends), n \in whole
        PROVE  n \in whole' \/ Taken(n)'
    <3>1. CASE n \in kept'
      BY <1>8, <2>3, <3>1
    <3>2. CASE n \notin kept'
      <4>1. n \in kept \cup {m} /\ n \notin Newest(kept \cup {m})
        BY <1>8, <2>3, <3>2 DEF StoreInv
      <4>2. n + StoreCap <= m
        BY <1>2, <1>4, <4>1, PushedOut
      <4>3. QED
        BY <4>2 DEF Taken
    <3>3. QED
      BY <3>1, <3>2
  <2>4. StoreInv'
    <3>1. whole' \subseteq kept'
      BY <1>8
    <3>2. QED
      BY <1>2, <1>5, <2>1, <3>1 DEF StoreInv
  <2>5. QED
    BY <1>2, <1>6, <2>2, <2>3, <2>4
<1>9. QED
  BY <1>7, <1>8 DEF Store, StoreFails

\* A step of a scheduler keeps the invariant.
LEMMA SchedulerKeeps ==
  ASSUME Inv, NEW s \in Schedulers, SchedulerStep(s)
  PROVE  Inv'
<1> USE DEF Inv
<1>a. ScheduleInv /\ sPc \in [Schedulers -> {"select", "push", "store", "exited"}]
      /\ cur \in [Schedulers -> Results \cup {NoResult}]
  BY DEF ScheduleInv
<1>b. ASSUME NEW t \in Schedulers, UNCHANGED <<store, posted, pushed>>, sPc[t] # "store",
             \A u \in Schedulers \ {t} : sPc'[u] = sPc[u] /\ cur'[u] = cur[u]
      PROVE  StoreInv' /\ StoreBacksUp'
  BY <1>b DEF StoreInv, StoreBacksUp, Taken, store, records
<1>1. CASE Probe(s)
  <2>1. ScheduleInv'
    BY <1>1, ProbeSchedules
  <2>2. WriterInv' /\ LineInv'
    BY <1>1, LineUntouched DEF Probe, writervars
  <2>3. StoreInv' /\ StoreBacksUp'
    <3>1. \A u \in Schedulers \ {s} : sPc'[u] = sPc[u] /\ cur'[u] = cur[u]
      BY <1>1, <1>a DEF Probe, Go
    <3>2. QED
      BY <1>1, <1>b, <3>1 DEF Probe, writervars
  <2>4. QED
    BY <2>1, <2>2, <2>3
<1>2. CASE Push(s)
  <2>1. WriterInv' /\ LineInv'
    BY <1>2, PushKeepsLine
  <2>2. ScheduleInv'
    BY <1>2, ScheduleMoves DEF Push
  <2>3. UNCHANGED <<store, cur, posted>> /\ StoreInv'
    BY <1>2 DEF Push, StoreInv, store, records, wvars
  <2>4. StoreBacksUp'
    <3> SUFFICES ASSUME StoreOn, NEW r \in pushed'
                 PROVE  \/ r \in posted'
                        \/ \E t \in Schedulers : sPc'[t] = "store" /\ cur'[t] = r
                        \/ \E n \in 1 .. Len(appends) :
                             appends[n] = r /\ (n \in whole \/ Taken(n))
      BY <2>3 DEF StoreBacksUp, Taken, store, records
    <3>1. /\ sPc' = [sPc EXCEPT ![s] = "store"]
          /\ pushed' = pushed \cup {cur[s]} /\ sPc[s] = "push"
      BY <1>2 DEF Push, Go
    <3>2. CASE r = cur[s]
      BY <1>a, <2>3, <3>1, <3>2
    <3>3. CASE \E t \in Schedulers : sPc[t] = "store" /\ cur[t] = r
      BY <1>a, <2>3, <3>1, <3>3
    <3>4. QED
      BY <2>3, <3>1, <3>2, <3>3 DEF StoreBacksUp
  <2>5. QED
    BY <2>1, <2>2, <2>3, <2>4
<1>3. CASE PushCut(s) \/ Stop(s)
  <2>1. \E where \in {"select", "exited"} : Go(s, where)
    BY <1>3 DEF PushCut, Stop
  <2>2. UNCHANGED <<writervars, cur, measured, pushed, store>> /\ sPc[s] # "store"
    BY <1>3 DEF PushCut, Stop
  <2>3. ScheduleInv'
    BY <2>1, <2>2, ScheduleMoves
  <2>4. WriterInv' /\ LineInv'
    BY <2>2, LineUntouched DEF writervars
  <2>5. StoreInv' /\ StoreBacksUp'
    <3>1. \A u \in Schedulers \ {s} : sPc'[u] = sPc[u] /\ cur'[u] = cur[u]
      BY <1>a, <2>1, <2>2 DEF Go
    <3>2. QED
      BY <1>b, <2>2, <3>1 DEF writervars
  <2>6. QED
    BY <2>3, <2>4, <2>5
<1>4. CASE Store(s) \/ StoreFails(s)
  <2>1. Appends(s) /\ Go(s, "select") /\ UNCHANGED <<writervars, cur, measured, pushed>>
    BY <1>4 DEF Store, StoreFails, Appends
  <2>2. ScheduleInv'
    BY <2>1, ScheduleMoves
  <2>3. WriterInv' /\ LineInv'
    BY <2>1, LineUntouched DEF writervars
  <2>4. /\ StoreInv'
        /\ \A n \in 1 .. Len(appends) :
             /\ n \in whole => n \in whole' \/ Taken(n)'
             /\ Taken(n) => Taken(n)'
        /\ \E n \in 1 .. Len(appends') :
             appends'[n] = cur[s] /\ (n \in whole' \/ Taken(n)')
    BY <1>4, AppendKeepsRecords
  <2>5. /\ appends'[Len(appends')] = cur[s] /\ Len(appends') \in 1 .. Len(appends')
        /\ \A n \in 1 .. Len(appends) : n \in 1 .. Len(appends') /\ appends'[n] = appends[n]
    BY <2>1, AppendsMore
  <2>6. StoreBacksUp'
    <3> SUFFICES ASSUME StoreOn, NEW r \in pushed
                 PROVE  \/ r \in posted
                        \/ \E t \in Schedulers : sPc'[t] = "store" /\ cur[t] = r
                        \/ \E n \in 1 .. Len(appends') :
                             appends'[n] = r /\ (n \in whole' \/ Taken(n)')
      BY <2>1 DEF StoreBacksUp, writervars
    <3>1. CASE \E n \in 1 .. Len(appends) : appends[n] = r /\ (n \in whole \/ Taken(n))
      BY <2>4, <2>5, <3>1
    <3>2. CASE \E t \in Schedulers : sPc[t] = "store" /\ cur[t] = r
      <4>1. PICK t \in Schedulers : sPc[t] = "store" /\ cur[t] = r
        BY <3>2
      <4>2. CASE t = s
        BY <2>4, <4>1, <4>2
      <4>3. CASE t # s
        BY <1>a, <2>1, <4>1, <4>3 DEF Go
      <4>4. QED
        BY <4>2, <4>3
    <3>3. QED
      BY <3>1, <3>2 DEF StoreBacksUp
  <2>7. QED
    BY <2>2, <2>3, <2>4, <2>6
<1>5. QED
  BY <1>1, <1>2, <1>3, <1>4 DEF SchedulerStep

\* A replay leaves a record where it is, or InfluxDB has it, or the replay has
\* missed it.
LEMMA ReplayKeepsRecords ==
  ASSUME StoreInv, ReplayStep
  PROVE  /\ StoreInv' /\ posted \subseteq posted' /\ appends' = appends
         /\ \A n \in 1 .. Len(appends) :
              /\ n \in whole => n \in whole' \/ appends[n] \in posted' \/ Taken(n)'
              /\ Taken(n) => Taken(n)'
<1>1. posted \subseteq posted' /\ appends' = appends
  BY DEF ReplayStep, ReplayBegin, ReplayOk, ReplayFail, ReplayMisses, ReplayStop, Replay,
         writervars, store
<1>2. Len(appends) \in Nat /\ faultAt \in Nat /\ faultAt <= Len(appends) /\ StoreCap \in Nat
  BY PipelineAssumption, LenProperties DEF StoreInv
<1>3. CASE UNCHANGED <<records, faultAt>>
  BY <1>1, <1>3 DEF StoreInv, Taken, records
<1>4. CASE ReplayOk
  BY <1>1, <1>4 DEF ReplayOk, Replay, Clear, StoreInv, Taken
<1>5. CASE ReplayMisses
  <2>1. kept' = {} /\ whole' = {} /\ faultAt' = Len(appends)
    BY <1>5 DEF ReplayMisses, Clear
  <2>2. StoreInv'
    BY <1>1, <1>2, <2>1 DEF StoreInv
  <2>3. \A n \in 1 .. Len(appends) : Taken(n)'
    BY <1>1, <1>2, <2>1 DEF Taken
  <2>4. QED
    BY <1>1, <2>2, <2>3
<1>6. QED
  BY <1>3, <1>4, <1>5 DEF ReplayStep, ReplayBegin, ReplayFail, ReplayStop, store

\* A step of the replay, of the writer or of the shutdown keeps the invariant.
LEMMA OthersKeep ==
  ASSUME Inv, UNCHANGED svars,
         \/ ReplayStep \/ Writer
         \/ Cancel /\ UNCHANGED <<store, fPc>>
  PROVE  Inv'
<1> USE DEF Inv
<1>1. ScheduleInv'
  BY DEF ScheduleInv, svars
<1>2. /\ StoreInv' /\ posted \subseteq posted' /\ appends' = appends
      /\ \A n \in 1 .. Len(appends) :
           /\ n \in whole => n \in whole' \/ appends[n] \in posted' \/ Taken(n)'
           /\ Taken(n) => Taken(n)'
  <2>1. CASE ReplayStep
    BY <2>1, ReplayKeepsRecords
  <2>2. CASE UNCHANGED store /\ posted \subseteq posted'
    BY <2>2 DEF StoreInv, Taken, store, records
  <2>3. QED
    BY <2>1, <2>2, WriterLine DEF Writer, Cancel, wvars
<1>3. StoreBacksUp'
  BY <1>2 DEF StoreBacksUp, svars
<1>4. WriterInv' /\ LineInv'
  <2>1. CASE ReplayStep
    <3>1. UNCHANGED <<chan, wPc, batch, body, dropped>>
      BY <2>1 DEF ReplayStep, ReplayBegin, ReplayOk, ReplayFail, ReplayMisses, ReplayStop,
                  Replay, writervars, chvars
    <3>2. QED
      BY <1>2, <3>1, LineUntouched DEF svars
  <2>2. CASE Writer
    BY <2>2, LineKept DEF Writer, svars
  <2>3. CASE Cancel
    BY <1>2, <2>3, LineUntouched DEF Cancel, svars, wvars, chvars
  <2>4. QED
    BY <2>1, <2>2, <2>3
<1>5. QED
  BY <1>1, <1>2, <1>3, <1>4

\* The invariant is inductive.
LEMMA InvStep == Inv /\ [Next]_vars => Inv'
<1> SUFFICES ASSUME Inv, [Next]_vars PROVE Inv'
  OBVIOUS
<1>1. CASE UNCHANGED vars
  BY <1>1 DEF Inv, vars, writervars, svars, store, records, WriterInv, ScheduleInv, LineInv,
              Line, StoreInv, StoreBacksUp, Taken
<1>2. CASE \E s \in Schedulers : SchedulerStep(s)
  BY <1>2, SchedulerKeeps
<1>3. CASE ReplayStep \/ Writer \/ (Cancel /\ UNCHANGED <<svars, store, fPc>>)
  <2>1. UNCHANGED svars
    BY <1>3 DEF ReplayStep, ReplayBegin, ReplayOk, ReplayFail, ReplayMisses, ReplayStop,
                Replay, Writer
  <2>2. QED
    BY <1>3, <2>1, OthersKeep
<1>4. QED
  BY <1>1, <1>2, <1>3 DEF Next, Terminated

\* In every behaviour the line of results and the store agree with what was
\* pushed.
LEMMA SpecInv == Spec => []Inv
BY InitInv, InvStep, PTL DEF Spec

\* A result that was pushed is in the channel, in the writer's hands, in
\* InfluxDB or in a write that was given up, and in one place of the line
\* only, whatever the capacity, the batches and the retries (influx.go
\* 183-231).
THEOREM NothingLostInLine == Spec => []PipelineKeeps
<1>1. Inv => PipelineKeeps
  <2> SUFFICES ASSUME Inv PROVE PipelineKeeps
    OBVIOUS
  <2>1. Line \in Seq(Results) /\ Elems(Line) \subseteq Elems(chan) \cup InHand
    BY LineInHand DEF Inv
  <2>2. Cardinality(Elems(Line)) = Len(Line)
    BY <2>1, NoDupSize DEF Inv, LineInv
  <2>3. QED
    BY <2>1, <2>2 DEF Inv, LineInv, PipelineKeeps, Line
<1>2. QED
  BY <1>1, SpecInv, PTL

\* With the store enabled, whatever was pushed is in InfluxDB, about to be
\* appended, or in a whole line of the store, unless max_lines newer calls of
\* Append have pushed it out, or an operation on the store has failed in its own
\* call of Append, a later one, or a replay after it, for any cap and any number
\* of failures (agent.go 540-567 and 701-710, store.go 31-116).
THEOREM StoreIsBackup == Spec => []StoreBacksUp
<1>1. Inv => StoreBacksUp
  BY DEF Inv
<1>2. QED
  BY <1>1, SpecInv, PTL

-----------------------------------------------------------------------------
(***************************************************************************)
(* The dual mode.  The results are numbered as they are measured, and each *)
(* place holds later ones than the place after it.                         *)
(***************************************************************************)

DualTyped ==
  /\ schedulerPc \in {"select", "push", "exited"}
  /\ dPc \in {"select", "prom", "influx", "closing", "exited"}
  /\ {next, held, shown} \subseteq Results \cup {0}
  /\ schedulerPc = "push" => next \in Results
  /\ dPc \in {"prom", "influx"} => held \in Results
  /\ out \in Seq(Results) /\ prom \in Seq(Results)
  /\ toInflux \subseteq Results

\* A channel is closed only when the dispatcher holds no result.
CloseInv ==
  /\ closed => dPc \in {"closing", "exited"}
  /\ promClosed => dPc = "exited"

\* The scheduler, its channel and the dispatcher.
OutInv ==
  /\ Increasing(out)
  /\ held <= next
  /\ schedulerPc = "push" => held < next
  /\ \A r \in Elems(out) :
        held < r /\ r <= next /\ (schedulerPc = "push" => r < next)

\* The dispatcher, resultsCh and the Prometheus consumer.
PromInv ==
  /\ Increasing(prom)
  /\ shown <= held
  /\ dPc = "prom" => shown < held
  /\ \A r \in Elems(prom) :
        shown < r /\ r <= held /\ (dPc = "prom" => r < held)

\* The dispatcher, influxCh and the writer.
InfluxInv ==
  /\ Increasing(Line)
  /\ Elems(Line) \subseteq toInflux
  /\ toInflux \subseteq Elems(Line) \cup posted \cup dropped
  /\ \A r \in toInflux :
        r <= held /\ (dPc \in {"prom", "influx"} => r < held)

DualInv == WriterInv /\ DualTyped /\ CloseInv /\ OutInv /\ PromInv /\ InfluxInv

\* What waits for InfluxDB and what waits for the metrics is in the order it was
\* measured in, and newer than what the metrics show.
DualInOrder ==
  /\ Increasing(Line) /\ Increasing(prom)
  /\ \A r \in Elems(prom) : shown < r

\* A metric is never set back to an older result.
NeverSetBack == shown <= shown'

\* Results are numbers from 1 on.
LEMMA ResultsAreNumbers == \A r \in Results : r \in Nat /\ r > 0
<1>1. IsFiniteSet(Results) /\ Results = 1 .. Cardinality(Results)
  BY DualAssumption
<1>2. Cardinality(Results) \in Nat
  BY <1>1, FS_CardinalityType
<1>3. PICK n \in Nat : Results = 1 .. n
  BY <1>1, <1>2
<1>4. QED
  BY <1>3

\* A later result may be added at the end.
LEMMA IncreasingAppend ==
  ASSUME NEW s \in Seq(Results), NEW x \in Results, Increasing(s),
         \A r \in Elems(s) : r < x
  PROVE  /\ Append(s, x) \in Seq(Results) /\ Increasing(Append(s, x))
         /\ Elems(Append(s, x)) = Elems(s) \cup {x}
<1> DEFINE a == Append(s, x)
           l == Len(s)
<1>1. /\ a \in Seq(Results) /\ l \in Nat /\ Len(a) = l + 1 /\ a[l + 1] = x
      /\ \A i \in 1 .. l : a[i] = s[i]
  BY LenProperties, AppendProperties
<1>2. /\ \A i \in 1 .. l : s[i] < x
      /\ \A i, j \in 1 .. l : i < j => s[i] < s[j]
      /\ Elems(s) = {s[i] : i \in 1 .. l}
  BY DEF Elems, Increasing
<1> HIDE DEF a, l
<1>3. 1 .. Len(a) = (1 .. l) \cup {l + 1} /\ \A i \in 1 .. l : i < l + 1
  BY <1>1
<1>4. ASSUME NEW i \in 1 .. Len(a), NEW j \in 1 .. Len(a), i < j
      PROVE  a[i] < a[j]
  <2>1. i \in 1 .. l
    BY <1>1, <1>4
  <2>2. CASE j \in 1 .. l
    BY <1>1, <1>2, <1>4, <2>1, <2>2
  <2>3. CASE j = l + 1
    BY <1>1, <1>2, <2>1, <2>3
  <2>4. QED
    BY <1>3, <2>2, <2>3
<1>5. Elems(a) = {s[i] : i \in 1 .. l} \cup {x}
  BY <1>1, <1>3 DEF Elems
<1>6. QED
  BY <1>1, <1>2, <1>4, <1>5 DEF a, Increasing

\* The head of increasing results is older than the others.
LEMMA HeadIsOldest ==
  ASSUME NEW s \in Seq(Results), s # <<>>, Increasing(s)
  PROVE  /\ Head(s) \in Elems(s) /\ Head(s) \in Results
         /\ Tail(s) \in Seq(Results) /\ Increasing(Tail(s))
         /\ Elems(Tail(s)) \subseteq Elems(s)
         /\ \A r \in Elems(Tail(s)) : Head(s) < r
<1> DEFINE t == Tail(s)
           h == Head(s)
<1>1. /\ h \in Results /\ t \in Seq(Results) /\ Len(t) = Len(s) - 1
      /\ Len(s) \in Nat \ {0} /\ h = s[1]
      /\ \A i \in 1 .. Len(t) : t[i] = s[i + 1]
  BY HeadTailProperties, EmptySeq, LenProperties
<1> HIDE DEF t, h
<1>2. /\ 1 \in 1 .. Len(s)
      /\ \A i \in 1 .. Len(t) : i + 1 \in 1 .. Len(s) /\ 1 < i + 1
      /\ \A i, j \in 1 .. Len(t) : i < j => i + 1 < j + 1
  BY <1>1
<1>3. Increasing(t)
  BY <1>1, <1>2 DEF Increasing
<1>4. \A i \in 1 .. Len(t) : h < t[i] /\ t[i] \in Elems(s)
  BY <1>1, <1>2 DEF Increasing, Elems
<1>5. h \in Elems(s)
  BY <1>1, <1>2 DEF Elems
<1>6. QED
  BY <1>1, <1>3, <1>4, <1>5 DEF t, h, Elems

\* The elements of results are results.
LEMMA ElemsAreResults == \A s \in Seq(Results) : Elems(s) \subseteq Results
BY ElementOfSeq DEF Elems

\* At the start nothing was measured.
LEMMA DualInitInv == DualInit => DualInv
<1> SUFFICES ASSUME DualInit PROVE DualInv
  OBVIOUS
<1>1. <<>> \in Seq(Results) /\ Len(<<>>) = 0
  BY EmptySeq
<1>2. Elems(<<>>) = {} /\ Increasing(<<>>)
  BY <1>1 DEF Elems, Increasing
<1>3. WriterInv
  BY <1>1 DEF DualInit, WriterInit, WriterInv
<1>4. Line = <<>>
  BY <1>1, LineOf DEF DualInit, WriterInit, Line
<1>5. DualTyped /\ CloseInv
  BY <1>1 DEF DualInit, WriterInit, DualTyped, CloseInv
<1>6. OutInv /\ PromInv
  BY <1>2 DEF DualInit, OutInv, PromInv
<1>7. InfluxInv
  BY <1>2, <1>4 DEF DualInit, InfluxInv
<1>8. QED
  BY <1>3, <1>5, <1>6, <1>7 DEF DualInv

\* A step of the scheduler keeps the invariant.
LEMMA DualSchedulerKeeps ==
  ASSUME DualInv, DualSchedulerStep
  PROVE  DualInv'
<1>1. UNCHANGED <<writervars, dvars, prom, promClosed, pvars>>
  BY DEF DualSchedulerStep, DualProbe, DualPush, DualPushCut, DualStop
<1>2. WriterInv' /\ CloseInv' /\ PromInv' /\ InfluxInv'
  BY <1>1 DEF DualInv, WriterInv, CloseInv, PromInv, InfluxInv, Line, writervars, dvars, pvars
<1>3. UNCHANGED <<held, dPc, prom, shown, toInflux>>
  BY <1>1 DEF dvars, pvars
<1>a. /\ \A r \in Elems(out) : r \in Results
      /\ \A r \in Results \cup {0} : r \in Nat
      /\ next \in Results \cup {0} /\ held \in Results \cup {0}
  BY ResultsAreNumbers, ElemsAreResults DEF DualInv, DualTyped
<1>4. DualTyped' /\ OutInv'
  <2>1. CASE DualProbe
    <3>1. /\ next' = next + 1 /\ next' \in Results /\ out' = out
          /\ schedulerPc = "select" /\ schedulerPc' = "push"
      BY <2>1 DEF DualProbe
    <3>2. DualTyped'
      BY <1>3, <3>1 DEF DualInv, DualTyped
    <3>3. \A r \in Elems(out) : held < r /\ r <= next
      BY DEF DualInv, OutInv
    <3>4. held <= next' /\ held < next'
      BY <1>a, <3>1 DEF DualInv, OutInv
    <3>5. ASSUME NEW r \in Elems(out) PROVE held < r /\ r <= next' /\ r < next'
      <4>1. PICK k \in Nat, n \in Nat : k = r /\ n = next
        BY <1>a
      <4>2. k <= n
        BY <3>3, <4>1
      <4>3. k <= n + 1 /\ k < n + 1
        BY <4>2
      <4>4. QED
        BY <3>1, <3>3, <4>1, <4>3
    <3>6. OutInv'
      BY <1>3, <3>1, <3>4, <3>5 DEF DualInv, OutInv
    <3>7. QED
      BY <3>2, <3>6
  <2>2. CASE DualPush
    <3>1. /\ out' = Append(out, next) /\ next' = next /\ next \in Results
          /\ schedulerPc = "push" /\ schedulerPc' = "select"
      BY <2>2 DEF DualPush, DualInv, DualTyped
    <3>2. /\ out \in Seq(Results) /\ Increasing(out) /\ held < next
          /\ \A r \in Elems(out) : r < next /\ held < r /\ r <= next
      BY <3>1 DEF DualInv, DualTyped, OutInv
    <3>3. out' \in Seq(Results) /\ Increasing(out') /\ Elems(out') = Elems(out) \cup {next}
      BY <3>1, <3>2, IncreasingAppend
    <3>4. DualTyped'
      BY <1>3, <3>1, <3>3 DEF DualInv, DualTyped
    <3>5. held <= next /\ next <= next
      BY <1>a, <3>2
    <3>6. \A r \in Elems(out') : held < r /\ r <= next
      BY <3>2, <3>3, <3>5
    <3>7. OutInv'
      BY <1>3, <3>1, <3>3, <3>5, <3>6 DEF OutInv
    <3>8. QED
      BY <3>4, <3>7
  <2>3. CASE DualPushCut \/ DualStop
    <3>1. UNCHANGED <<next, out>> /\ schedulerPc' \in {"select", "exited"}
      BY <2>3 DEF DualPushCut, DualStop
    <3>2. QED
      BY <1>3, <3>1 DEF DualInv, DualTyped, OutInv
  <2>4. QED
    BY <2>1, <2>2, <2>3 DEF DualSchedulerStep
<1>5. QED
  BY <1>2, <1>4 DEF DualInv

\* What the dispatcher takes is newer than what it held before.
LEMMA TakeKeeps ==
  ASSUME DualInv, Take
  PROVE  DualInv'
<1>1. /\ dPc = "select" /\ dPc' = "prom" /\ out # <<>>
      /\ held' = Head(out) /\ out' = Tail(out)
  BY DEF Take
<1>2. UNCHANGED <<writervars, scheduler, toProm, toInflux, prom, promClosed, pvars>>
  BY DEF Take
<1>3. UNCHANGED <<schedulerPc, next, shown, posted, dropped, closed>>
  BY <1>2 DEF writervars, scheduler, pvars
<1>4. out \in Seq(Results) /\ Increasing(out)
  BY DEF DualInv, DualTyped, OutInv
<1>5. /\ held' \in Elems(out) /\ held' \in Results /\ out' \in Seq(Results)
      /\ Increasing(out') /\ Elems(out') \subseteq Elems(out)
      /\ \A r \in Elems(out') : held' < r
  BY <1>1, <1>4, HeadIsOldest
<1>6. held < held' /\ held' <= next /\ (schedulerPc = "push" => held' < next)
  BY <1>5 DEF DualInv, OutInv
<1>7. /\ \A r \in Results \cup {0} : r \in Nat
      /\ {held, shown} \subseteq Results \cup {0}
      /\ Elems(prom) \subseteq Results /\ toInflux \subseteq Results
  BY ResultsAreNumbers, ElemsAreResults DEF DualInv, DualTyped
<1>8. ASSUME NEW r \in Nat, r <= held PROVE r <= held' /\ r < held'
  <2>1. held \in Nat /\ held' \in Nat
    BY <1>5, <1>7
  <2>2. QED
    BY <1>6, <1>8, <2>1
<1>9. WriterInv' /\ Line' = Line
  BY <1>2 DEF DualInv, WriterInv, Line, writervars
<1>10. DualTyped' /\ CloseInv'
  BY <1>1, <1>2, <1>3, <1>5 DEF DualInv, DualTyped, CloseInv
<1>11. OutInv'
  BY <1>3, <1>5, <1>6 DEF DualInv, OutInv
<1>12. PromInv'
  <2>1. shown <= held /\ \A r \in Elems(prom) : shown < r /\ r <= held
    BY DEF DualInv, PromInv
  <2>2. shown <= held' /\ shown < held'
    BY <1>7, <1>8, <2>1
  <2>3. \A r \in Elems(prom) : r <= held' /\ r < held'
    BY <1>7, <1>8, <2>1
  <2>4. QED
    BY <1>2, <1>3, <2>1, <2>2, <2>3 DEF DualInv, PromInv
<1>13. InfluxInv'
  <2>1. \A r \in toInflux : r <= held' /\ r < held'
    BY <1>7, <1>8 DEF DualInv, InfluxInv
  <2>2. QED
    BY <1>2, <1>3, <1>9, <2>1 DEF DualInv, InfluxInv
<1>14. QED
  BY <1>9, <1>10, <1>11, <1>12, <1>13 DEF DualInv

\* What the dispatcher offers is newer than what the metrics have, or will have.
LEMMA ToPromKeeps ==
  ASSUME DualInv, ToProm
  PROVE  DualInv'
<1>1. /\ dPc = "prom" /\ dPc' = "influx"
      /\ UNCHANGED <<writervars, scheduler, out, held, toInflux, promClosed, pvars>>
  BY DEF ToProm
<1>2. held \in Results /\ prom \in Seq(Results)
  BY <1>1 DEF DualInv, DualTyped
<1>3. WriterInv' /\ OutInv' /\ CloseInv' /\ Line' = Line
  BY <1>1 DEF DualInv, WriterInv, OutInv, CloseInv, Line, writervars, scheduler
<1>4. InfluxInv'
  BY <1>1, <1>3 DEF DualInv, InfluxInv, writervars
<1>5. /\ Increasing(prom) /\ shown < held /\ shown <= held
      /\ \A r \in Elems(prom) : r < held /\ shown < r /\ r <= held
  BY <1>1 DEF DualInv, PromInv
<1>6. shown' = shown
  BY <1>1 DEF pvars
<1>7. prom' \in Seq(Results) /\ PromInv'
  <2>1. CASE prom' = Append(prom, held)
    <3>1. prom' \in Seq(Results) /\ Increasing(prom') /\ Elems(prom') = Elems(prom) \cup {held}
      BY <1>2, <1>5, <2>1, IncreasingAppend
    <3>2. held <= held
      BY <1>2, ResultsAreNumbers
    <3>3. QED
      BY <1>1, <1>5, <1>6, <3>1, <3>2 DEF PromInv
  <2>2. CASE prom' = prom
    BY <1>1, <1>2, <1>5, <1>6, <2>2 DEF PromInv
  <2>3. QED
    BY <2>1, <2>2 DEF ToProm
<1>8. DualTyped'
  BY <1>1, <1>6, <1>7 DEF DualInv, DualTyped, scheduler
<1>9. QED
  BY <1>3, <1>4, <1>7, <1>8 DEF DualInv

\* What the dispatcher offers is newer than what the writer was handed.
LEMMA ToInfluxKeeps ==
  ASSUME DualInv, ToInflux
  PROVE  DualInv'
<1>1. /\ dPc = "influx" /\ dPc' = "select"
      /\ UNCHANGED <<wvars, scheduler, out, held, prom, promClosed, pvars>>
  BY DEF ToInflux
<1>2. held \in Results /\ chan \in Seq(Results) /\ closed' = closed
  BY <1>1 DEF DualInv, DualTyped, WriterInv, ToInflux, Offer, chvars
<1>3. OutInv' /\ PromInv' /\ CloseInv'
  BY <1>1, <1>2 DEF DualInv, OutInv, PromInv, CloseInv, scheduler, pvars
<1>4. UNCHANGED <<wPc, batch, body, posted, dropped>>
  BY <1>1 DEF wvars
<1>5. /\ Increasing(Line) /\ Elems(Line) \subseteq toInflux
      /\ toInflux \subseteq Elems(Line) \cup posted \cup dropped
      /\ \A r \in toInflux : r < held /\ r <= held
  BY <1>1 DEF DualInv, InfluxInv
<1>6. WriterInv' /\ InfluxInv' /\ toInflux' \subseteq Results
  <2>1. CASE chan' = Append(chan, held) /\ toInflux' = toInflux \cup {held}
    <3>1. chan' \in Seq(Results)
      BY <1>2, <2>1, AppendProperties
    <3>2. WriterInv'
      BY <1>4, <3>1 DEF DualInv, WriterInv
    <3>3. PICK l \in Seq(Results) : l = Line
      <4>1. Line \in Seq(Results)
        BY LineOf DEF DualInv, WriterInv, Line
      <4>2. QED
        BY <4>1
    <3>4. Line' = Append(l, held)
      BY <1>2, <1>4, <2>1, <3>3, LineAppend DEF DualInv
    <3>5. Increasing(Append(l, held)) /\ Elems(Append(l, held)) = Elems(l) \cup {held}
      BY <1>2, <1>5, <3>3, IncreasingAppend
    <3>6. held <= held
      BY <1>2, ResultsAreNumbers
    <3>7. InfluxInv'
      BY <1>1, <1>4, <1>5, <2>1, <3>3, <3>4, <3>5, <3>6 DEF InfluxInv
    <3>8. QED
      BY <1>2, <2>1, <3>2, <3>7 DEF DualInv, DualTyped
  <2>2. CASE UNCHANGED <<chan, toInflux>>
    <3>1. WriterInv' /\ Line' = Line
      BY <1>4, <2>2 DEF DualInv, WriterInv, Line
    <3>2. QED
      BY <1>1, <1>4, <1>5, <2>2, <3>1 DEF DualInv, DualTyped, InfluxInv
  <2>3. QED
    BY <2>1, <2>2 DEF ToInflux, Offer, chvars
<1>7. DualTyped'
  BY <1>1, <1>6 DEF DualInv, DualTyped, scheduler, pvars
<1>8. QED
  BY <1>3, <1>6, <1>7 DEF DualInv

\* The dispatcher keeps the invariant.
LEMMA DispatcherKeeps ==
  ASSUME DualInv, DispatcherStep
  PROVE  DualInv'
<1>1. CASE CloseInflux \/ CloseProm
  <2>1. /\ UNCHANGED <<chan, wPc, batch, body, posted, dropped, schedulerPc, next, out, held,
                       toInflux, prom, shown>>
        /\ dPc' \in {"closing", "exited"} /\ (closed' => closed \/ dPc' = "closing")
        /\ (dPc' = "closing" => dPc = "select" /\ promClosed' = promClosed)
    BY <1>1 DEF CloseInflux, CloseProm, CloseChan, wvars, writervars, scheduler, pvars
  <2>2. WriterInv' /\ Line' = Line
    BY <2>1 DEF DualInv, WriterInv, Line
  <2>3. DualTyped' /\ CloseInv'
    BY <2>1 DEF DualInv, DualTyped, CloseInv
  <2>4. OutInv' /\ PromInv' /\ InfluxInv'
    BY <2>1, <2>2 DEF DualInv, OutInv, PromInv, InfluxInv
  <2>5. QED
    BY <2>2, <2>3, <2>4 DEF DualInv
<1>2. QED
  BY <1>1, TakeKeeps, ToPromKeeps, ToInfluxKeeps DEF DispatcherStep

\* The Prometheus consumer keeps the invariant, and shows what is newer.
LEMMA PromKeeps ==
  ASSUME DualInv, PromStep
  PROVE  DualInv' /\ shown <= shown'
<1>1. UNCHANGED <<writervars, scheduler, out, dvars, promClosed>>
  BY DEF PromStep, Update, PromEnd
<1>2. UNCHANGED <<dPc, held, toInflux>>
  BY <1>1 DEF dvars
<1>3. WriterInv' /\ CloseInv' /\ OutInv' /\ InfluxInv'
  BY <1>1, <1>2 DEF DualInv, WriterInv, CloseInv, OutInv, InfluxInv, Line, writervars, scheduler
<1>4. /\ \A r \in Results \cup {0} : r \in Nat
      /\ shown \in Results \cup {0} /\ prom \in Seq(Results) /\ Increasing(prom)
      /\ Elems(prom) \subseteq Results
  BY ResultsAreNumbers, ElemsAreResults DEF DualInv, DualTyped, PromInv
<1>5. CASE Update
  <2>1. prom # <<>> /\ shown' = Head(prom) /\ prom' = Tail(prom)
    BY <1>5 DEF Update
  <2>2. /\ shown' \in Elems(prom) /\ shown' \in Results /\ prom' \in Seq(Results)
        /\ Increasing(prom') /\ Elems(prom') \subseteq Elems(prom)
        /\ \A r \in Elems(prom') : shown' < r
    BY <1>4, <2>1, HeadIsOldest
  <2>3. shown < shown' /\ shown' <= held /\ (dPc = "prom" => shown' < held)
    BY <2>2 DEF DualInv, PromInv
  <2>4. shown <= shown'
    BY <1>4, <2>2, <2>3
  <2>5. PromInv'
    BY <1>2, <2>2, <2>3 DEF DualInv, PromInv
  <2>6. DualTyped'
    BY <1>1, <1>2, <2>2 DEF DualInv, DualTyped, scheduler
  <2>7. QED
    BY <1>3, <2>4, <2>5, <2>6 DEF DualInv
<1>6. CASE PromEnd
  <2>1. UNCHANGED <<prom, shown>>
    BY <1>6 DEF PromEnd
  <2>2. PromInv' /\ DualTyped'
    BY <1>1, <1>2, <2>1 DEF DualInv, PromInv, DualTyped, scheduler
  <2>3. shown <= shown'
    BY <1>4, <2>1
  <2>4. QED
    BY <1>3, <2>2, <2>3 DEF DualInv
<1>7. QED
  BY <1>5, <1>6 DEF PromStep

\* The writer keeps the invariant: it closes no channel, and its line shrinks at
\* the front only.
LEMMA DualWriterKeeps ==
  ASSUME DualInv, WriterStep, Rest
  PROVE  DualInv'
<1>1. closed' = closed
  BY DEF WriterStep, Receive, FlushTick, ReceiveClosed, SeeCancel, DrainTake, DrainDone,
         PostOk, PostFail, PostUnbuilt, Retry, BackoffCut, chvars
<1>2. UNCHANGED <<schedulerPc, next, out, dPc, held, toInflux, prom, promClosed, shown>>
  BY DEF Rest, scheduler, dvars, pvars
<1>3. DualTyped' /\ CloseInv' /\ OutInv' /\ PromInv'
  BY <1>1, <1>2 DEF DualInv, DualTyped, CloseInv, OutInv, PromInv
<1>4. /\ WriterInv' /\ posted \subseteq posted' /\ dropped \subseteq dropped'
      /\ \/ Line' = Line
         \/ Line = body \o Line' /\ Elems(body) \subseteq posted' \cup dropped'
  BY WriterLine DEF DualInv
<1>5. /\ Elems(Line') \subseteq Elems(Line)
      /\ Elems(Line) \subseteq Elems(Line') \cup posted' \cup dropped'
      /\ Increasing(Line) => Increasing(Line')
  BY <1>4, LineShrinks DEF DualInv
<1>6. InfluxInv'
  BY <1>2, <1>4, <1>5 DEF DualInv, InfluxInv
<1>7. QED
  BY <1>3, <1>4, <1>6 DEF DualInv

\* The invariant is inductive.
LEMMA DualInvStep == DualInv /\ [DualNext]_dualVars => DualInv'
<1> SUFFICES ASSUME DualInv, [DualNext]_dualVars PROVE DualInv'
  OBVIOUS
<1>1. CASE (Cancel /\ Rest) \/ UNCHANGED dualVars
  <2>1. UNCHANGED <<chan, closed, wPc, batch, body, posted, dropped, schedulerPc, next, out,
                    dPc, held, toInflux, prom, promClosed, shown>>
    BY <1>1 DEF Cancel, Rest, dualVars, writervars, wvars, chvars, scheduler, dvars, pvars
  <2>2. WriterInv' /\ Line' = Line
    BY <2>1 DEF DualInv, WriterInv, Line
  <2>3. QED
    BY <2>1, <2>2 DEF DualInv, DualTyped, CloseInv, OutInv, PromInv, InfluxInv
<1>2. QED
  BY <1>1, DualSchedulerKeeps, DispatcherKeeps, PromKeeps, DualWriterKeeps
     DEF DualNext, DualTerminated

\* In every behaviour of the dual mode the places are in order.
LEMMA DualSpecInv == DualSpec => []DualInv
BY DualInitInv, DualInvStep, PTL DEF DualSpec

\* Nobody sends on a closed channel: when the dispatcher has closed one, it holds
\* no result and takes none (exporter.go 300-318).
THEOREM DualClosesLast == DualSpec => []NoSendOnClosed
<1>1. DualInv => NoSendOnClosed
  BY DEF DualInv, CloseInv, NoSendOnClosed
<1>2. QED
  BY <1>1, DualSpecInv, PTL

\* Every result that the dispatcher got into influxCh is in it, with the writer,
\* in InfluxDB or in a write that was given up, also after the channel was closed
\* with results in it (exporter.go 308-320, influx.go 183-231).
THEOREM DualNothingLost == DualSpec => []InfluxKeeps
<1>1. DualInv => InfluxKeeps
  BY LineInHand DEF DualInv, InfluxInv, InfluxKeeps
<1>2. QED
  BY <1>1, DualSpecInv, PTL

\* The dispatcher drops results when a channel is full, but reorders none: what
\* waits for InfluxDB and what waits for the metrics is in the order it was
\* measured in, none twice, and newer than what the metrics show (exporter.go
\* 297-345).
THEOREM DualKeepsOrder == DualSpec => []DualInOrder
<1>1. DualInv => DualInOrder
  BY DEF DualInv, InfluxInv, PromInv, DualInOrder
<1>2. QED
  BY <1>1, DualSpecInv, PTL

\* A metric is never set back to an older result, however far the consumers are
\* behind (exporter.go 297-345).
THEOREM MetricsGoForward == DualSpec => [][NeverSetBack]_dualVars
<1>1. ASSUME DualInv, DualNext PROVE shown <= shown'
  <2>1. CASE PromStep
    BY <1>1, <2>1, PromKeeps
  <2>2. CASE UNCHANGED shown
    <3>1. shown \in Nat
      BY <1>1, ResultsAreNumbers DEF DualInv, DualTyped
    <3>2. QED
      BY <2>2, <3>1
  <2>3. UNCHANGED shown \/ PromStep
    BY <1>1 DEF DualNext, DualSchedulerStep, DualProbe, DualPush, DualPushCut, DualStop,
                DispatcherStep, Take, ToProm, ToInflux, CloseInflux, CloseProm, Rest,
                DualTerminated, dualVars, pvars
  <2>4. QED
    BY <2>1, <2>2, <2>3
<1>2. DualInv /\ [DualNext]_dualVars => [NeverSetBack]_dualVars
  BY <1>1 DEF NeverSetBack
<1>3. QED
  BY <1>2, DualSpecInv, PTL DEF DualSpec

=============================================================================
