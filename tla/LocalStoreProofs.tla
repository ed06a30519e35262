-------------------------- MODULE LocalStoreProofs --------------------------
(***************************************************************************)
(* LocalStore implements RingLog, for any cap, size of the batches, and    *)
(* number of records, faults, crashes and outages.                         *)
(*                                                                         *)
(* Three things have to be known of the states the store can be in: a torn *)
(* line never meets a truncation, the file exceeds the cap only by as many *)
(* lines as there were faults, and Flush has seen every line upstream when *)
(* it comes to clear the file, unless a read has failed.                   *)
(***************************************************************************)
EXTENDS LocalStore, SequenceTheorems, TLAPS

In(s) == {s[i] : i \in 1 .. Len(s)}

TypeInv ==
  /\ op \in {"idle", "cap", "rewrite", "scan", "send", "clear"}
  /\ file \in Seq(Nat) /\ mem \in Seq(Nat) /\ batch \in Seq(Nat)
  /\ open \in BOOLEAN /\ unread \in BOOLEAN
  /\ appended \in Nat /\ faults \in Nat /\ crashes \in Nat
  /\ cursor \in 0 .. Len(file)
  /\ In(file) \subseteq 0 .. appended /\ In(mem) \subseteq 0 .. appended

\* The lines enforceCap has in memory, the torn line, and the cap.
CapInv ==
  /\ open => file # <<>>
  /\ op \in {"cap", "rewrite"} => ~open
  /\ op # "rewrite" => mem = <<>>
  /\ op = "rewrite" => mem # <<>> /\ Len(file) + Len(mem) <= MaxLines
  /\ Len(file) <= MaxLines + (faults + crashes) + (IF op = "cap" THEN 1 ELSE 0)

\* What Flush knows of the lines it has scanned.
FlushInv ==
  /\ op \in {"idle", "cap", "rewrite"} =>
        cursor = 0 /\ batch = <<>> /\ unread = FALSE
  /\ In(batch) \subseteq In(file) /\ 0 \notin In(batch)
  /\ unread \/ \A i \in 1 .. cursor : file[i] \in accepted \cup {0} \cup In(batch)
  /\ op = "send" => batch # <<>>
  /\ op = "clear" => batch = <<>> /\ cursor = Len(file)

Inv == TypeInv /\ CapInv /\ FlushInv

-----------------------------------------------------------------------------
(***************************************************************************)
(* Lines.                                                                  *)
(***************************************************************************)

\* The bounds are numbers.
LEMMA Bounds ==
  /\ MaxLines \in Nat /\ MaxLines > 0 /\ BatchSize \in Nat /\ BatchSize > 0
  /\ MaxRecords \in Nat /\ MaxFaults \in Nat /\ Garbage = 0
BY StoreAssumption DEF Garbage

\* The elements of no line, and of one line more.
LEMMA InAppend ==
  /\ In(<<>>) = {}
  /\ \A s \in Seq(Nat), x \in Nat : In(Append(s, x)) = In(s) \cup {x}
<1>1. In(<<>>) = {}
  BY DEF In
<1>2. ASSUME NEW s \in Seq(Nat), NEW x \in Nat
      PROVE  In(Append(s, x)) = In(s) \cup {x}
  <2> DEFINE a == Append(s, x)
  <2>1. /\ Len(s) \in Nat /\ Len(a) = Len(s) + 1 /\ a[Len(s) + 1] = x
        /\ \A i \in 1 .. Len(s) : a[i] = s[i]
    BY LenProperties, AppendProperties
  <2> HIDE DEF a
  <2>2. 1 .. Len(a) = (1 .. Len(s)) \cup {Len(s) + 1}
    BY <2>1
  <2>3. In(a) = In(s) \cup {x}
    BY <2>1, <2>2 DEF In
  <2>4. QED
    BY <2>3 DEF a
<1>3. QED
  BY <1>1, <1>2

\* What a line that is written, or glued to the last one, leaves in the file.
LEMMA LineWritten ==
  ASSUME NEW f \in Seq(Nat), NEW glued \in BOOLEAN, glued => f # <<>>, NEW line \in Nat
  PROVE  /\ WriteLine(f, glued, line) \in Seq(Nat)
         /\ WriteLine(f, glued, line) # <<>>
         /\ Len(WriteLine(f, glued, line)) <= Len(f) + 1
         /\ Len(WriteLine(f, glued, line)) \in Nat
         /\ In(WriteLine(f, glued, line)) \subseteq In(f) \cup {0, line}
<1>1. Len(f) \in Nat
  BY LenProperties
<1>2. CASE glued
  <2>1. Len(f) \in 1 .. Len(f) /\ Garbage \in Nat
    BY <1>1, <1>2, EmptySeq, Bounds
  <2> DEFINE g == [f EXCEPT ![Len(f)] = Garbage]
  <2>2. /\ g \in Seq(Nat) /\ Len(g) = Len(f)
        /\ \A j \in 1 .. Len(f) : g[j] = IF j = Len(f) THEN Garbage ELSE f[j]
    BY <2>1, ExceptSeq
  <2> HIDE DEF g
  <2>3. In(g) \subseteq In(f) \cup {0, line} /\ g # <<>>
    BY <2>1, <2>2, Bounds DEF In
  <2>4. WriteLine(f, glued, line) = g
    BY <1>2 DEF WriteLine, g
  <2>5. QED
    BY <1>1, <2>2, <2>3, <2>4
<1>3. CASE ~glued
  <2>1. WriteLine(f, glued, line) = Append(f, line)
    BY <1>3 DEF WriteLine
  <2>2. QED
    BY <1>1, <2>1, AppendProperties, InAppend
<1>4. QED
  BY <1>2, <1>3

\* The newest lines are lines of the list, MaxLines of them if it is longer.
LEMMA NewestOf ==
  ASSUME NEW s \in Seq(Nat), Len(s) > MaxLines
  PROVE  /\ Newest(s) \in Seq(Nat) /\ Len(Newest(s)) = MaxLines /\ Newest(s) # <<>>
         /\ In(Newest(s)) \subseteq In(s)
         /\ \A i \in 1 .. MaxLines : Newest(s)[i] = s[i + (Len(s) - MaxLines)]
<1> DEFINE m == Len(s) - MaxLines + 1
           t == SubSeq(s, m, Len(s))
<1>1. Len(s) \in Nat /\ \A i \in 1 .. Len(s) : s[i] \in Nat
  BY LenProperties, ElementOfSeq
<1>2. m \in 1 .. Len(s) /\ Len(s) - m + 1 = MaxLines /\ m \in Int /\ Len(s) \in Int
  BY <1>1, Bounds
<1>3. Newest(s) = t
  BY <1>1, Bounds DEF Newest
<1> HIDE DEF m
<1>4. \A i \in m .. Len(s) : s[i] \in Nat
  BY <1>1, <1>2
<1>5. /\ t \in Seq(Nat) /\ Len(t) = (IF m <= Len(s) THEN Len(s) - m + 1 ELSE 0)
      /\ \A i \in 1 .. Len(s) - m + 1 : t[i] = s[m + i - 1]
  BY <1>2, <1>4, SubSeqProperties
<1> HIDE DEF t
<1>6. Len(t) = MaxLines /\ \A i \in 1 .. Len(t) : t[i] = s[m + i - 1]
  BY <1>2, <1>5
<1>7. \A i \in 1 .. Len(t) : m + i - 1 \in 1 .. Len(s)
  BY <1>1, <1>2, <1>6
<1>8. In(t) \subseteq In(s)
  BY <1>6, <1>7 DEF In
<1>9. t # <<>>
  BY <1>6, Bounds
<1>10. \A i \in 1 .. MaxLines : t[i] = s[i + (Len(s) - MaxLines)]
  <2>1. \A i \in 1 .. MaxLines : m + i - 1 = i + (Len(s) - MaxLines)
    BY <1>1, Bounds DEF m
  <2>2. QED
    BY <1>6, <2>1
<1>11. QED
  BY <1>3, <1>5, <1>6, <1>8, <1>9, <1>10

\* The first lines are lines of the list.
LEMMA FirstLines ==
  ASSUME NEW s \in Seq(Nat), NEW k \in 0 .. Len(s)
  PROVE  SubSeq(s, 1, k) \in Seq(Nat) /\ Len(SubSeq(s, 1, k)) = k
         /\ In(SubSeq(s, 1, k)) \subseteq In(s)
         /\ \A i \in 1 .. k : SubSeq(s, 1, k)[i] = s[i]
<1> DEFINE t == SubSeq(s, 1, k)
<1>1. Len(s) \in Nat /\ k \in Nat /\ \A i \in 1 .. Len(s) : s[i] \in Nat
  BY LenProperties, ElementOfSeq
<1>2. \A i \in 1 .. k : s[i] \in Nat
  BY <1>1
<1>3. /\ t \in Seq(Nat) /\ Len(t) = (IF 1 <= k THEN k - 1 + 1 ELSE 0)
      /\ \A i \in 1 .. k - 1 + 1 : t[i] = s[1 + i - 1]
  BY <1>1, <1>2, SubSeqProperties
<1> HIDE DEF t
<1>4. Len(t) = k /\ \A i \in 1 .. k : t[i] = s[i] /\ i \in 1 .. Len(s)
  BY <1>1, <1>3
<1>5. In(t) \subseteq In(s)
  BY <1>4 DEF In
<1>6. QED
  BY <1>3, <1>4, <1>5 DEF t

\* The head of the lines may go to the end of the lines before them.
LEMMA MoveLine ==
  ASSUME NEW s \in Seq(Nat), NEW t \in Seq(Nat), t # <<>>
  PROVE  /\ Head(t) \in Nat /\ Tail(t) \in Seq(Nat) /\ Len(Tail(t)) = Len(t) - 1
         /\ Append(s, Head(t)) \o Tail(t) = s \o t
         /\ Head(t) \in In(t) /\ In(Tail(t)) \subseteq In(t)
<1>1. /\ Head(t) \in Nat /\ Tail(t) \in Seq(Nat) /\ Len(Tail(t)) = Len(t) - 1
      /\ \A i \in 1 .. Len(Tail(t)) : Tail(t)[i] = t[i + 1]
      /\ Len(t) \in Nat \ {0}
  BY HeadTailProperties, EmptySeq
<1>2. t = <<Head(t)>> \o Tail(t) /\ Head(t) = t[1]
  OBVIOUS
<1>3. Append(s, Head(t)) = s \o <<Head(t)>>
  BY <1>1, AppendIsConcat
<1>4. (s \o <<Head(t)>>) \o Tail(t) = s \o (<<Head(t)>> \o Tail(t))
  <2>1. <<Head(t)>> \in Seq(Nat)
    BY <1>1
  <2>2. QED
    BY <1>1, <2>1, ConcatAssociative
<1>5. Head(t) \in In(t)
  BY <1>1, <1>2 DEF In
<1>6. In(Tail(t)) \subseteq In(t)
  <2>1. \A i \in 1 .. Len(Tail(t)) : i + 1 \in 1 .. Len(t)
    BY <1>1
  <2>2. QED
    BY <1>1, <2>1 DEF In
<1>7. QED
  BY <1>1, <1>2, <1>3, <1>4, <1>5, <1>6

\* The list of what the store holds is the file alone, unless it is rewritten.
LEMMA HeldIsFile ==
  ASSUME NEW f \in Seq(Nat)
  PROVE  f \o <<>> = f /\ <<>> \o f = f
BY ConcatEmptySeq

-----------------------------------------------------------------------------
(***************************************************************************)
(* The invariant.                                                          *)
(***************************************************************************)

\* The file after a write that was cut.
LEMMA CutWrite ==
  ASSUME TypeInv, CapInv, NEW line \in Nat, WriteCut(line)
  PROVE  /\ file' \in Seq(Nat) /\ open' \in BOOLEAN /\ (open' => file' # <<>>)
         /\ Len(file') <= Len(file) + 1 /\ Len(file') \in Nat
         /\ In(file') \subseteq In(file) \cup {0, line}
<1>1. Len(file) \in Nat
  BY LenProperties DEF TypeInv
<1>2. CASE UNCHANGED disk
  BY <1>1, <1>2 DEF disk, TypeInv, CapInv
<1>3. CASE \E l \in {Garbage, line} : file' = WriteLine(file, open, l) /\ open' = TRUE
  <2>1. PICK l \in {Garbage, line} : file' = WriteLine(file, open, l) /\ open' = TRUE
    BY <1>3
  <2>2. l \in Nat /\ {0, l} \subseteq {0, line}
    BY Bounds
  <2>3. file \in Seq(Nat) /\ open \in BOOLEAN /\ (open => file # <<>>)
    BY DEF TypeInv, CapInv
  <2>4. QED
    BY <2>1, <2>2, <2>3, LineWritten
<1>4. QED
  BY <1>2, <1>3 DEF WriteCut

\* Where Flush is not under way it knows nothing.
LEMMA FlushIdle ==
  ASSUME op' \in {"idle", "cap", "rewrite"}, cursor' = 0, batch' = <<>>, unread' = FALSE
  PROVE  FlushInv'
<1>1. In(batch') = {} /\ 1 .. cursor' = {}
  BY InAppend
<1>2. QED
  BY <1>1 DEF FlushInv

\* Append and enforceCap keep the invariant.
LEMMA AppendKeeps ==
  ASSUME Inv, AppendStep
  PROVE  Inv'
<1>a. /\ file \in Seq(Nat) /\ mem \in Seq(Nat) /\ batch \in Seq(Nat)
      /\ open \in BOOLEAN /\ unread \in BOOLEAN
      /\ appended \in Nat /\ faults \in Nat /\ crashes \in Nat /\ MaxLines \in Nat
      /\ Len(file) \in Nat /\ Len(mem) \in Nat
      /\ In(file) \subseteq 0 .. appended /\ In(mem) \subseteq 0 .. appended
  BY Bounds, LenProperties DEF Inv, TypeInv
<1>d. UNCHANGED <<cursor, batch, unread, crashes>> /\ op \in {"idle", "cap", "rewrite"}
      /\ op' \in {"idle", "cap", "rewrite"}
  BY DEF AppendStep, AppendWrite, AppendFail, CapKept, CapTruncate, CapScanFails, CapFail,
         RewriteLine, RewriteFail, Truncate, flush, world
<1>b. /\ open => file # <<>>
      /\ op \in {"cap", "rewrite"} => ~open
      /\ op # "rewrite" => mem = <<>>
      /\ op = "rewrite" => mem # <<>> /\ Len(file) + Len(mem) <= MaxLines
      /\ Len(file) <= MaxLines + (faults + crashes) + (IF op = "cap" THEN 1 ELSE 0)
      /\ cursor = 0 /\ batch = <<>> /\ unread = FALSE
  BY <1>d DEF Inv, CapInv, FlushInv
<1>c. Fault => faults' = faults + 1
  BY DEF Fault
<1>e. FlushInv'
  BY <1>a, <1>b, <1>d, FlushIdle
<1>f. ASSUME file' \in Seq(Nat) PROVE cursor' \in 0 .. Len(file') /\ Len(file') \in Nat
  BY <1>b, <1>d, <1>f, LenProperties
<1>g. In(<<>>) = {}
  BY InAppend
<1>h. ASSUME NEW f \in Seq(Nat), Truncate(f), Len(f) > MaxLines,
             In(f) \subseteq In(file) \cup {0},
             faults' \in Nat
      PROVE  Inv'
  <2>1. /\ mem' \in Seq(Nat) /\ Len(mem') = MaxLines /\ mem' # <<>>
        /\ In(mem') \subseteq 0 .. appended
    BY <1>a, <1>h, NewestOf DEF Truncate
  <2>2. /\ file' = <<>> /\ open' = FALSE /\ op' = "rewrite" /\ appended' = appended
        /\ file' \in Seq(Nat) /\ Len(file') = 0
    BY <1>h, EmptySeq DEF Truncate
  <2>3. TypeInv'
    BY <1>a, <1>d, <1>f, <1>g, <1>h, <2>1, <2>2 DEF TypeInv
  <2>4. CapInv'
    <3>1. Len(file') + Len(mem') <= MaxLines
      BY <1>a, <2>1, <2>2
    <3>2. Len(file') <= MaxLines + (faults' + crashes') + (IF op' = "cap" THEN 1 ELSE 0)
      <4>1. PICK n \in Nat, k \in Nat : n = faults' /\ k = crashes'
        BY <1>a, <1>d, <1>h
      <4>2. 0 <= MaxLines + (n + k) + 0
        BY <1>a
      <4>3. op' # "cap" /\ Len(file') = 0
        BY <2>2
      <4>4. QED
        BY <4>1, <4>2, <4>3
    <3>3. QED
      BY <2>1, <2>2, <3>1, <3>2 DEF CapInv
  <2>5. QED
    BY <1>e, <2>3, <2>4 DEF Inv
<1>1. CASE AppendWrite
  <2>1. /\ op = "idle" /\ op' = "cap" /\ appended' = appended + 1 /\ open' = FALSE
        /\ file' = WriteLine(file, open, appended + 1) /\ UNCHANGED <<mem, faults>>
    BY <1>1 DEF AppendWrite
  <2>2. /\ file' \in Seq(Nat) /\ file' # <<>> /\ Len(file') <= Len(file) + 1
        /\ Len(file') \in Nat /\ In(file') \subseteq In(file) \cup {0, appended + 1}
    BY <1>a, <1>b, <2>1, LineWritten
  <2>3. TypeInv'
    <3>1. In(file') \subseteq 0 .. appended' /\ In(mem') \subseteq 0 .. appended'
      <4>1. /\ 0 .. appended \subseteq 0 .. appended'
            /\ 0 \in 0 .. appended' /\ appended + 1 \in 0 .. appended'
        BY <1>a, <2>1
      <4>2. In(mem') = In(mem)
        BY <2>1
      <4>3. QED
        BY <1>a, <2>2, <4>1, <4>2
    <3>2. appended' \in Nat /\ faults' \in Nat /\ crashes' \in Nat /\ mem' \in Seq(Nat)
      BY <1>a, <1>d, <2>1
    <3>3. cursor' \in 0 .. Len(file') /\ batch' \in Seq(Nat) /\ unread' \in BOOLEAN
      BY <1>a, <1>d, <1>f, <2>2
    <3>4. QED
      BY <2>1, <2>2, <3>1, <3>2, <3>3 DEF TypeInv
  <2>4. CapInv'
    BY <1>a, <1>b, <1>d, <2>1, <2>2 DEF CapInv
  <2>5. QED
    BY <1>e, <2>3, <2>4 DEF Inv
<1>2. CASE AppendFail
  <2>1. /\ op = "idle" /\ op' = "idle" /\ appended' = appended + 1 /\ faults' = faults + 1
        /\ WriteCut(appended + 1) /\ UNCHANGED mem
    BY <1>2, <1>c DEF AppendFail
  <2>2. /\ file' \in Seq(Nat) /\ open' \in BOOLEAN /\ (open' => file' # <<>>)
        /\ Len(file') <= Len(file) + 1 /\ Len(file') \in Nat
        /\ In(file') \subseteq In(file) \cup {0, appended + 1}
    BY <1>a, <2>1, CutWrite DEF Inv
  <2>3. TypeInv'
    <3>1. In(file') \subseteq 0 .. appended' /\ In(mem') \subseteq 0 .. appended'
      <4>1. /\ 0 .. appended \subseteq 0 .. appended'
            /\ 0 \in 0 .. appended' /\ appended + 1 \in 0 .. appended'
        BY <1>a, <2>1
      <4>2. In(mem') = In(mem)
        BY <2>1
      <4>3. QED
        BY <1>a, <2>2, <4>1, <4>2
    <3>2. QED
      BY <1>a, <1>d, <1>f, <2>1, <2>2, <3>1 DEF TypeInv
  <2>4. CapInv'
    BY <1>a, <1>b, <1>d, <2>1, <2>2 DEF CapInv
  <2>5. QED
    BY <1>e, <2>3, <2>4 DEF Inv
<1>3. CASE CapKept \/ CapFail
  <2>1. /\ op = "cap" /\ op' = "idle" /\ UNCHANGED <<file, open, mem, appended>>
        /\ \/ Len(file) <= MaxLines /\ UNCHANGED faults
           \/ faults' = faults + 1
    BY <1>3, <1>c DEF CapKept, CapFail, disk
  <2>2. TypeInv'
    BY <1>a, <1>d, <1>f, <2>1 DEF TypeInv
  <2>3. CapInv'
    BY <1>a, <1>b, <1>d, <2>1 DEF CapInv
  <2>4. QED
    BY <1>e, <2>2, <2>3 DEF Inv
<1>4. CASE CapTruncate
  BY <1>4, <1>a, <1>h DEF CapTruncate
<1>5. CASE CapScanFails
  <2>1. faults' \in Nat
    BY <1>5, <1>a, <1>c DEF CapScanFails
  <2>2. ASSUME NEW k \in MaxLines + 1 .. Len(file) - 1, Truncate(SubSeq(file, 1, k))
        PROVE  Inv'
    <3>1. k \in 0 .. Len(file) /\ k > MaxLines
      BY <1>a
    <3>2. QED
      BY <1>a, <1>h, <2>1, <2>2, <3>1, FirstLines
  <2>3. ASSUME NEW k \in MaxLines .. Len(file) - 1,
               Truncate(Append(SubSeq(file, 1, k), Garbage))
        PROVE  Inv'
    <3>1. k \in 0 .. Len(file) /\ k + 1 > MaxLines
      BY <1>a
    <3>2. PICK f \in Seq(Nat) : f = SubSeq(file, 1, k) /\ Len(f) = k
                               /\ In(f) \subseteq In(file)
      BY <1>a, <3>1, FirstLines
    <3>3. /\ Append(f, 0) \in Seq(Nat) /\ Len(Append(f, 0)) = k + 1
          /\ In(Append(f, 0)) \subseteq In(file) \cup {0}
      <4>1. 0 \in Nat
        OBVIOUS
      <4>2. Append(f, 0) \in Seq(Nat) /\ Len(Append(f, 0)) = Len(f) + 1
        BY <4>1, AppendProperties
      <4>3. In(Append(f, 0)) = In(f) \cup {0}
        BY <4>1, InAppend
      <4>4. QED
        BY <3>2, <4>2, <4>3
    <3>4. Truncate(Append(f, 0))
      BY <2>3, <3>2 DEF Garbage
    <3>5. QED
      BY <1>h, <2>1, <3>1, <3>3, <3>4
  <2>4. QED
    BY <1>5, <2>2, <2>3 DEF CapScanFails
<1>6. CASE RewriteLine
  <2>1. /\ op = "rewrite" /\ file' = WriteLine(file, open, Head(mem)) /\ open' = FALSE
        /\ mem' = Tail(mem) /\ op' = (IF mem' = <<>> THEN "idle" ELSE "rewrite")
        /\ UNCHANGED <<appended, faults>>
    BY <1>6 DEF RewriteLine
  <2>2. /\ Head(mem) \in Nat /\ mem' \in Seq(Nat) /\ Len(mem') = Len(mem) - 1
        /\ Head(mem) \in In(mem) /\ In(mem') \subseteq In(mem)
    BY <1>a, <1>b, <2>1, MoveLine
  <2>3. /\ file' \in Seq(Nat) /\ file' # <<>> /\ Len(file') <= Len(file) + 1
        /\ Len(file') \in Nat /\ In(file') \subseteq In(file) \cup {0, Head(mem)}
    BY <1>a, <1>b, <2>1, <2>2, LineWritten
  <2>4. TypeInv'
    <3>1. In(file') \subseteq 0 .. appended' /\ In(mem') \subseteq 0 .. appended'
      <4>1. appended' = appended /\ 0 \in 0 .. appended
        BY <1>a, <2>1
      <4>2. QED
        BY <1>a, <2>2, <2>3, <4>1
    <3>2. QED
      BY <1>a, <1>d, <1>f, <2>1, <2>2, <2>3, <3>1 DEF TypeInv
  <2>5. CapInv'
    <3>1. Len(file') + Len(mem') <= MaxLines /\ Len(mem') \in Nat
      BY <1>a, <1>b, <2>1, <2>2, <2>3, LenProperties
    <3>2. Len(file') <= MaxLines + (faults + crashes)
      BY <1>a, <2>3, <3>1
    <3>3. QED
      BY <1>a, <1>d, <2>1, <2>3, <3>1, <3>2 DEF CapInv
  <2>6. QED
    BY <1>e, <2>4, <2>5 DEF Inv
<1>7. CASE RewriteFail
  <2>1. /\ op = "rewrite" /\ op' = "idle" /\ mem' = <<>> /\ faults' = faults + 1
        /\ WriteCut(Head(mem)) /\ UNCHANGED appended
    BY <1>7, <1>c DEF RewriteFail
  <2>2. Head(mem) \in 0 .. appended /\ Head(mem) \in Nat
    BY <1>a, <1>b, <2>1, MoveLine
  <2>3. /\ file' \in Seq(Nat) /\ open' \in BOOLEAN /\ (open' => file' # <<>>)
        /\ Len(file') <= Len(file) + 1 /\ Len(file') \in Nat
        /\ In(file') \subseteq In(file) \cup {0, Head(mem)}
    BY <2>1, <2>2, CutWrite DEF Inv
  <2>4. TypeInv'
    <3>1. In(file') \subseteq 0 .. appended' /\ In(mem') \subseteq 0 .. appended'
          /\ mem' \in Seq(Nat)
      <4>1. appended' = appended /\ 0 \in 0 .. appended
        BY <1>a, <2>1
      <4>2. mem' \in Seq(Nat) /\ In(mem') = {}
        BY <1>g, <2>1, EmptySeq
      <4>3. QED
        BY <1>a, <2>2, <2>3, <4>1, <4>2
    <3>2. QED
      BY <1>a, <1>d, <1>f, <2>1, <2>3, <3>1 DEF TypeInv
  <2>5. CapInv'
    BY <1>a, <1>b, <1>d, <2>1, <2>3 DEF CapInv
  <2>6. QED
    BY <1>e, <2>4, <2>5 DEF Inv
<1>8. QED
  BY <1>1, <1>2, <1>3, <1>4, <1>5, <1>6, <1>7 DEF AppendStep

\* Flush keeps the invariant: every line it passes is in the batch, upstream,
\* or no record.
LEMMA FlushKeeps ==
  ASSUME Inv, FlushStep
  PROVE  Inv'
<1>a. /\ file \in Seq(Nat) /\ mem \in Seq(Nat) /\ batch \in Seq(Nat)
      /\ open \in BOOLEAN /\ unread \in BOOLEAN
      /\ appended \in Nat /\ faults \in Nat /\ crashes \in Nat /\ MaxLines \in Nat
      /\ Len(file) \in Nat /\ cursor \in 0 .. Len(file)
      /\ In(file) \subseteq 0 .. appended /\ In(mem) \subseteq 0 .. appended
  BY Bounds, LenProperties DEF Inv, TypeInv
<1>b. op \in {"idle", "scan", "send", "clear"} /\ op' \in {"idle", "scan", "send", "clear"}
      /\ faults' \in {faults, faults + 1} /\ UNCHANGED <<mem, appended, crashes>>
  BY DEF FlushStep, FlushStart, FlushScan, FlushScanFails, FlushScanned, FlushCancelled,
         SendOk, SendFail, FlushClear, ClearFail, EndFlush, Fault, world, flush
<1>c. /\ open => file # <<>>
      /\ mem = <<>>
      /\ Len(file) <= MaxLines + (faults + crashes)
  BY <1>a, <1>b DEF Inv, CapInv
<1>d. ASSUME UNCHANGED <<file, open>>, cursor' \in 0 .. Len(file), batch' \in Seq(Nat),
             unread' \in BOOLEAN
      PROVE  TypeInv' /\ CapInv'
  <2>1. TypeInv'
    BY <1>a, <1>b, <1>d DEF TypeInv
  <2>2. CapInv'
    BY <1>a, <1>b, <1>c, <1>d DEF CapInv
  <2>3. QED
    BY <2>1, <2>2
<1>e. In(batch) \subseteq In(file) /\ 0 \notin In(batch)
      /\ (unread \/ \A i \in 1 .. cursor : file[i] \in accepted \cup {0} \cup In(batch))
      /\ (op = "send" => batch # <<>>)
      /\ (op = "clear" => batch = <<>> /\ cursor = Len(file))
  BY DEF Inv, FlushInv
<1>f. In(<<>>) = {} /\ <<>> \in Seq(Nat) /\ Len(<<>>) = 0
  BY InAppend, EmptySeq
<1>1. CASE FlushStart
  <2>1. UNCHANGED <<file, open, unread>> /\ cursor' = 0 /\ batch' = <<>> /\ op' = "scan"
    BY <1>1 DEF FlushStart, disk
  <2>2. TypeInv' /\ CapInv'
    BY <1>a, <1>d, <1>f, <2>1
  <2>3. FlushInv'
    BY <1>f, <2>1 DEF FlushInv
  <2>4. QED
    BY <2>2, <2>3 DEF Inv
<1>2. CASE FlushScan
  <2>1. /\ UNCHANGED <<file, open, unread, accepted>> /\ cursor' = cursor + 1
        /\ cursor < Len(file)
        /\ batch' = IF file[cursor + 1] = Garbage THEN batch ELSE Append(batch, file[cursor + 1])
        /\ op' = IF Len(batch') >= BatchSize THEN "send" ELSE "scan"
    BY <1>2 DEF FlushScan, disk
  <2>2. PICK l \in Nat : l = file[cursor + 1]
    BY <1>a, <2>1, ElementOfSeq
  <2>3. cursor + 1 \in 1 .. Len(file) /\ l \in In(file)
    BY <1>a, <2>1, <2>2 DEF In
  <2>4. /\ batch' \in Seq(Nat) /\ In(batch') \subseteq In(batch) \cup {l}
        /\ In(batch) \subseteq In(batch') /\ (l = 0 \/ l \in In(batch'))
        /\ 0 \notin In(batch')
    <3>1. CASE l = 0
      BY <1>a, <1>e, <2>1, <2>2, <3>1, Bounds
    <3>2. CASE l # 0
      <4>1. batch' = Append(batch, l)
        BY <2>1, <2>2, <3>2, Bounds
      <4>2. QED
        BY <1>a, <1>e, <3>2, <4>1, InAppend, AppendProperties
    <3>3. QED
      BY <3>1, <3>2
  <2>5. TypeInv' /\ CapInv'
    BY <1>a, <1>d, <2>1, <2>3, <2>4
  <2>6. op' = "send" => batch' # <<>>
    BY <1>f, <2>1, Bounds
  <2>7. unread \/ \A i \in 1 .. cursor' : file[i] \in accepted \cup {0} \cup In(batch')
    <3> SUFFICES ASSUME ~unread, NEW i \in 1 .. cursor + 1
                 PROVE  file[i] \in accepted \cup {0} \cup In(batch')
      BY <2>1
    <3>1. i \in 1 .. cursor \/ i = cursor + 1
      BY <1>a
    <3>2. QED
      BY <1>e, <2>2, <2>4, <3>1
  <2>8. FlushInv'
    BY <1>e, <2>1, <2>3, <2>4, <2>6, <2>7 DEF FlushInv
  <2>9. QED
    BY <2>5, <2>8 DEF Inv
<1>3. CASE FlushScanFails
  <2>1. /\ UNCHANGED <<file, open, batch, op>> /\ cursor' = Len(file) /\ unread' = TRUE
        /\ op = "scan"
    BY <1>3 DEF FlushScanFails, disk
  <2>2. TypeInv' /\ CapInv'
    BY <1>a, <1>d, <2>1
  <2>3. FlushInv'
    BY <1>e, <2>1 DEF FlushInv
  <2>4. QED
    BY <2>2, <2>3 DEF Inv
<1>4. CASE FlushScanned
  <2>1. /\ UNCHANGED <<file, open, cursor, batch, unread, accepted>> /\ cursor = Len(file)
        /\ op' = IF batch = <<>> THEN "clear" ELSE "send"
    BY <1>4 DEF FlushScanned, disk, flush
  <2>2. TypeInv' /\ CapInv'
    BY <1>a, <1>d, <2>1
  <2>3. FlushInv'
    BY <1>e, <2>1 DEF FlushInv
  <2>4. QED
    BY <2>2, <2>3 DEF Inv
<1>5. CASE SendOk
  <2>1. /\ UNCHANGED <<file, open, cursor, unread>> /\ batch' = <<>> /\ op' = "scan"
        /\ accepted' = accepted \cup In(batch)
    BY <1>5 DEF SendOk, disk, In
  <2>2. TypeInv' /\ CapInv'
    BY <1>a, <1>d, <1>f, <2>1
  <2>3. FlushInv'
    BY <1>e, <1>f, <2>1 DEF FlushInv
  <2>4. QED
    BY <2>2, <2>3 DEF Inv
<1>6. CASE FlushCancelled \/ SendFail \/ ClearFail
  <2>1. UNCHANGED <<file, open>> /\ op' = "idle" /\ cursor' = 0 /\ batch' = <<>> /\ unread' = FALSE
    BY <1>6 DEF FlushCancelled, SendFail, ClearFail, EndFlush, disk
  <2>2. TypeInv' /\ CapInv'
    <3>1. 0 \in 0 .. Len(file)
      BY <1>a
    <3>2. cursor' \in 0 .. Len(file)
      BY <2>1, <3>1
    <3>3. batch' \in Seq(Nat)
      BY <1>f, <2>1
    <3>4. unread' \in BOOLEAN
      BY <2>1
    <3>5. QED
      BY <1>d, <2>1, <3>2, <3>3, <3>4
  <2>3. QED
    BY <2>1, <2>2, FlushIdle DEF Inv
<1>7. CASE FlushClear
  <2>1. /\ file' = <<>> /\ open' = FALSE /\ op' = "idle" /\ cursor' = 0 /\ batch' = <<>>
        /\ unread' = FALSE /\ UNCHANGED <<faults, crashes>>
    BY <1>7 DEF FlushClear, EndFlush, world
  <2>2. file' \in Seq(Nat) /\ Len(file') = 0 /\ In(file') = {}
    BY <1>f, <2>1
  <2>3. TypeInv'
    <3>1. cursor' \in 0 .. Len(file') /\ batch' \in Seq(Nat) /\ mem' \in Seq(Nat)
      BY <1>a, <1>b, <1>f, <2>1, <2>2
    <3>2. In(file') \subseteq 0 .. appended' /\ In(mem') \subseteq 0 .. appended'
      BY <1>a, <1>b, <2>2
    <3>3. QED
      BY <1>a, <1>b, <2>1, <2>2, <3>1, <3>2 DEF TypeInv
  <2>4. CapInv'
    <3>1. 0 <= MaxLines + (faults + crashes) + 0
      BY <1>a
    <3>2. QED
      BY <1>a, <1>b, <1>c, <2>1, <2>2, <3>1 DEF CapInv
  <2>5. QED
    BY <2>1, <2>3, <2>4, FlushIdle DEF Inv
<1>8. QED
  BY <1>1, <1>2, <1>3, <1>4, <1>5, <1>6, <1>7 DEF FlushStep

\* A crash leaves a file that the next process can go on with.
LEMMA CrashKeeps ==
  ASSUME Inv, Crash
  PROVE  Inv'
<1>a. /\ file \in Seq(Nat) /\ mem \in Seq(Nat)
      /\ open \in BOOLEAN /\ appended \in Nat /\ faults \in Nat /\ crashes \in Nat
      /\ MaxLines \in Nat /\ Len(file) \in Nat /\ Len(mem) \in Nat
      /\ In(file) \subseteq 0 .. appended /\ In(mem) \subseteq 0 .. appended
  BY Bounds, LenProperties DEF Inv, TypeInv
<1>b. /\ crashes' = crashes + 1 /\ mem' = <<>> /\ op' = "idle" /\ cursor' = 0
      /\ batch' = <<>> /\ unread' = FALSE /\ UNCHANGED <<appended, faults>>
  BY DEF Crash, EndFlush
<1>c. In(<<>>) = {} /\ <<>> \in Seq(Nat) /\ Len(<<>>) = 0
  BY InAppend, EmptySeq
<1>1. /\ file' \in Seq(Nat) /\ open' \in BOOLEAN /\ (open' => file' # <<>>)
      /\ Len(file') <= MaxLines + (faults + crashes) + 1
      /\ Len(file') \in Nat /\ In(file') \subseteq 0 .. appended
  <2>1. CASE op = "rewrite"
    <3>1. mem # <<>> /\ Len(file) <= MaxLines + (faults + crashes)
      BY <2>1, <1>a DEF Inv, CapInv
    <3>2. Head(mem) \in Nat /\ Head(mem) \in 0 .. appended /\ 0 \in 0 .. appended
      BY <1>a, <3>1, MoveLine
    <3>3. WriteCut(Head(mem))
      BY <2>1 DEF Crash
    <3>4. /\ file' \in Seq(Nat) /\ open' \in BOOLEAN /\ (open' => file' # <<>>)
          /\ Len(file') <= Len(file) + 1 /\ Len(file') \in Nat
          /\ In(file') \subseteq In(file) \cup {0, Head(mem)}
      BY <3>2, <3>3, CutWrite DEF Inv
    <3>5. Len(file') <= MaxLines + (faults + crashes) + 1
      BY <1>a, <3>1, <3>4
    <3>6. In(file') \subseteq 0 .. appended
      BY <1>a, <3>2, <3>4
    <3>7. QED
      BY <3>4, <3>5, <3>6
  <2>2. CASE op # "rewrite"
    <3>1. UNCHANGED <<file, open>>
      BY <2>2 DEF Crash, disk
    <3>2. Len(file) <= MaxLines + (faults + crashes) + 1 /\ (open => file # <<>>)
      BY <1>a DEF Inv, CapInv
    <3>3. QED
      BY <1>a, <3>1, <3>2
  <2>3. QED
    BY <2>1, <2>2
<1>2. TypeInv'
  <2>0. 0 \in 0 .. Len(file')
    BY <1>1
  <2>1. cursor' \in 0 .. Len(file') /\ batch' \in Seq(Nat) /\ mem' \in Seq(Nat)
        /\ unread' \in BOOLEAN
    <3>1. cursor' \in 0 .. Len(file')
      BY <1>b, <2>0
    <3>2. batch' \in Seq(Nat) /\ mem' \in Seq(Nat)
      BY <1>b, <1>c
    <3>3. QED
      BY <1>b, <3>1, <3>2
  <2>2. In(file') \subseteq 0 .. appended' /\ In(mem') \subseteq 0 .. appended'
    BY <1>b, <1>c, <1>1
  <2>3. appended' \in Nat /\ faults' \in Nat /\ crashes' \in Nat
    BY <1>a, <1>b
  <2>4. QED
    BY <1>b, <1>1, <2>1, <2>2, <2>3 DEF TypeInv
<1>3. CapInv'
  BY <1>a, <1>b, <1>1 DEF CapInv
<1>4. QED
  BY <1>b, <1>2, <1>3, FlushIdle DEF Inv

\* The invariant holds at the start, and every step keeps it.
LEMMA InvStep == (Init => Inv) /\ (Inv /\ [Next]_vars => Inv')
<1>1. ASSUME Init PROVE Inv
  <2>1. <<>> \in Seq(Nat) /\ Len(<<>>) = 0 /\ In(<<>>) = {}
    BY EmptySeq, InAppend
  <2>2. TypeInv
    <3>1. In(file) = {} /\ In(mem) = {} /\ cursor \in 0 .. Len(file)
      BY <1>1, <2>1 DEF Init
    <3>2. QED
      BY <1>1, <2>1, <3>1 DEF Init, TypeInv
  <2>3. CapInv
    <3>1. 0 <= MaxLines + (0 + 0) + 0
      BY Bounds
    <3>2. QED
      BY <1>1, <2>1, <3>1 DEF Init, CapInv
  <2>4. FlushInv
    <3>1. In(batch) = {} /\ 1 .. cursor = {}
      BY <1>1, <2>1 DEF Init
    <3>2. QED
      BY <1>1, <3>1 DEF Init, FlushInv
  <2>5. QED
    BY <2>2, <2>3, <2>4 DEF Inv
<1>2. ASSUME Inv, UNCHANGED <<op, file, open, mem, cursor, batch, unread, appended, accepted,
                             crashes, faults>>
      PROVE  Inv'
  BY <1>2 DEF Inv, TypeInv, CapInv, FlushInv
<1>3. ASSUME Inv, Next PROVE Inv'
  <2>1. CASE GoDown \/ GoUp \/ Cancel
    BY <1>2, <1>3, <2>1 DEF GoDown, GoUp, Cancel, disk, flush
  <2>2. QED
    BY <1>3, <2>1, AppendKeeps, FlushKeeps, CrashKeeps DEF Next
<1>4. ASSUME Inv, UNCHANGED vars PROVE Inv'
  BY <1>2, <1>4 DEF vars, disk, flush, world
<1>5. QED
  BY <1>1, <1>3, <1>4

-----------------------------------------------------------------------------
(***************************************************************************)
(* The refinement: every step of the store is one of the ring, or none.    *)
(***************************************************************************)

\* The lines already written back are the first ones of what the store holds,
\* and the one in line is the next.
LEMMA FrontOfHeld ==
  ASSUME NEW s \in Seq(Nat), NEW t \in Seq(Nat), t # <<>>
  PROVE  /\ Len(s) \in 0 .. Len(s \o t) /\ Len(s) < Len(s \o t)
         /\ SubSeq(s \o t, 1, Len(s)) = s
         /\ (s \o t)[Len(s) + 1] = Head(t)
<1> DEFINE c == s \o t
           n == Len(s)
<1>1. n \in Nat /\ Len(t) \in Nat /\ Len(t) # 0 /\ Head(t) = t[1]
  BY LenProperties, EmptySeq, HeadTailProperties
<1>2. /\ c \in Seq(Nat) /\ Len(c) = n + Len(t)
      /\ \A i \in 1 .. n + Len(t) : c[i] = IF i <= n THEN s[i] ELSE t[i - n]
  BY ConcatProperties
<1> HIDE DEF c
<1>3. n \in 0 .. Len(c) /\ n < Len(c) /\ n + 1 \in 1 .. n + Len(t) /\ n + 1 - n = 1
  BY <1>1, <1>2
<1>4. c[n + 1] = t[1]
  <2> HIDE DEF n
  <2>1. ~(n + 1 <= n)
    BY <1>1
  <2>2. c[n + 1] = t[n + 1 - n]
    BY <1>2, <1>3, <2>1
  <2>3. QED
    BY <1>3, <2>2
<1>5. SubSeq(c, 1, n) = s
  <2> DEFINE u == SubSeq(c, 1, n)
  <2>1. u \in Seq(Nat) /\ Len(u) = n /\ \A i \in 1 .. n : u[i] = c[i]
    BY <1>2, <1>3, FirstLines
  <2> HIDE DEF u
  <2>2. \A i \in 1 .. n : c[i] = s[i]
    <3> HIDE DEF n
    <3>1. \A i \in 1 .. n : i \in 1 .. n + Len(t) /\ i <= n
      BY <1>1
    <3>2. QED
      BY <1>2, <3>1
  <2>3. u = s
    BY <2>1, <2>2, SeqEqual
  <2>4. QED
    BY <2>3 DEF u
<1>6. QED
  BY <1>1, <1>3, <1>4, <1>5 DEF c

\* The ring starts empty, as the store does.
LEMMA RingInit == Init => Ring!Init
<1>1. <<>> \o <<>> = <<>>
  BY EmptySeq, HeldIsFile
<1>2. QED
  BY <1>1 DEF Init, Ring!Init, Held

\* What the store does to one line is what the ring does.
LEMMA SameOperators ==
  /\ \A s : Newest(s) = Ring!Newest(s)
  /\ \A s, glued, line : WriteLine(s, glued, line) = Ring!With(s, glued, line)
BY Bounds DEF Newest, Ring!Newest, WriteLine, Ring!With

\* A write that was cut while the lines are written back: the tail of them is
\* lost.
LEMMA RewriteCut ==
  ASSUME Inv, op = "rewrite", WriteCut(Head(mem)), mem' = <<>>, op' # "rewrite",
         file' \in Seq(Nat),
         (faults + crashes)' = faults + crashes + 1,
         UNCHANGED <<unread, appended, accepted>>
  PROVE  Ring!Fault
<1>1. /\ file \in Seq(Nat) /\ mem \in Seq(Nat) /\ mem # <<>> /\ open = FALSE
  BY DEF Inv, TypeInv, CapInv
<1>2. PICK h : h = Held
  OBVIOUS
<1>3. /\ Len(file) \in 0 .. Len(h) /\ Len(file) < Len(h) /\ SubSeq(h, 1, Len(file)) = file
      /\ h[Len(file) + 1] = Head(mem)
  BY <1>1, <1>2, FrontOfHeld DEF Held
<1>4. Held' = file'
  BY HeldIsFile DEF Held
<1>5. \/ Held' = SubSeq(h, 1, Len(file)) /\ open' = FALSE
      \/ /\ Len(file) < Len(h) /\ open' = TRUE
         /\ \E line \in {0, h[Len(file) + 1]} : Held' = Append(SubSeq(h, 1, Len(file)), line)
  BY <1>1, <1>3, <1>4, Bounds DEF WriteCut, WriteLine, disk
<1>6. \E n \in 0 .. Len(h) :
          \/ Held' = SubSeq(h, 1, n) /\ open' = FALSE
          \/ /\ n < Len(h) /\ open' = TRUE
             /\ \E line \in {0, h[n + 1]} : Held' = Append(SubSeq(h, 1, n), line)
  BY <1>3, <1>5
<1>7. QED
  BY <1>2, <1>6 DEF Ring!Fault

\* Append and enforceCap.
LEMMA RingAppend ==
  ASSUME Inv, Inv', AppendStep
  PROVE  [Ring!Next]_(Ring!vars)
<1>a. /\ file \in Seq(Nat) /\ mem \in Seq(Nat) /\ file' \in Seq(Nat) /\ mem' \in Seq(Nat)
      /\ appended \in Nat /\ faults \in Nat /\ crashes \in Nat /\ MaxLines \in Nat
      /\ Len(file) \in Nat
  BY Bounds, LenProperties DEF Inv, TypeInv
<1>b. /\ (op # "rewrite" => mem = <<>>) /\ (op' # "rewrite" => mem' = <<>>)
      /\ (op = "rewrite" => mem # <<>>) /\ (op \in {"cap", "rewrite"} => open = FALSE)
      /\ Len(file) <= MaxLines + (faults + crashes) + (IF op = "cap" THEN 1 ELSE 0)
  BY DEF Inv, TypeInv, CapInv
<1>c. /\ (mem = <<>> => Held = file) /\ (mem' = <<>> => Held' = file')
      /\ (file' = <<>> => Held' = mem')
  BY <1>a, HeldIsFile DEF Held
<1>d. UNCHANGED <<unread, accepted, crashes>>
  BY DEF AppendStep, AppendWrite, AppendFail, CapKept, CapTruncate, CapScanFails, CapFail,
         RewriteLine, RewriteFail, Truncate, flush, world
<1>e. (faults' = faults + 1 => (faults + crashes)' = faults + crashes + 1)
      /\ (UNCHANGED faults => (faults + crashes)' = faults + crashes)
  BY <1>a, <1>d
<1>f. Fault => faults' = faults + 1
  BY DEF Fault
<1>1. CASE AppendWrite
  <2>1. /\ op = "idle" /\ op' = "cap" /\ appended' = appended + 1 /\ open' = FALSE
        /\ file' = WriteLine(file, open, appended + 1) /\ UNCHANGED faults
    BY <1>1 DEF AppendWrite
  <2>2. Held = file /\ Held' = Ring!With(Held, open, appended + 1)
    BY <1>b, <1>c, <2>1, SameOperators
  <2>3. Len(Held) <= MaxLines + (faults + crashes)
    BY <1>a, <1>b, <2>1, <2>2
  <2>4. Ring!Add
    BY <1>d, <1>e, <2>1, <2>2, <2>3 DEF Ring!Add
  <2>5. QED
    BY <2>4 DEF Ring!Next
<1>2. CASE AppendFail
  <2>1. /\ op = "idle" /\ op' = "idle" /\ appended' = appended + 1 /\ faults' = faults + 1
        /\ WriteCut(appended + 1)
    BY <1>2, <1>f DEF AppendFail
  <2>2. Held = file /\ Held' = file'
    BY <1>b, <1>c, <2>1
  <2>3. \/ UNCHANGED <<Held, open>>
        \/ \E line \in {0, appended'} :
              Held' = Ring!With(Held, open, line) /\ open' = TRUE
    BY <2>1, <2>2, Bounds, SameOperators DEF WriteCut, disk
  <2>4. Ring!Fault
    BY <1>d, <1>e, <2>1, <2>3 DEF Ring!Fault
  <2>5. QED
    BY <2>4 DEF Ring!Next
<1>3. CASE CapKept
  <2>1. op = "cap" /\ op' = "idle" /\ UNCHANGED <<file, open, mem, appended, faults>>
    BY <1>3 DEF CapKept, disk
  <2>2. UNCHANGED Ring!vars
    BY <1>d, <1>e, <2>1 DEF Ring!vars, Held
  <2>3. QED
    BY <2>2
<1>4. CASE CapTruncate
  <2>1. /\ op = "cap" /\ op' = "rewrite" /\ Len(file) > MaxLines /\ mem' = Newest(file)
        /\ file' = <<>> /\ open' = FALSE /\ UNCHANGED <<appended, faults>>
    BY <1>4 DEF CapTruncate, Truncate
  <2>2. Held = file /\ Held' = Ring!Newest(Held) /\ open' = open
    BY <1>b, <1>c, <2>1, SameOperators
  <2>3. Ring!Trim
    BY <1>d, <1>e, <2>1, <2>2 DEF Ring!Trim
  <2>4. QED
    BY <2>3 DEF Ring!Next
<1>5. CASE CapScanFails
  <2>1. /\ op = "cap" /\ op' = "rewrite" /\ file' = <<>> /\ open' = FALSE
        /\ UNCHANGED appended /\ faults' = faults + 1
        /\ \/ \E k \in MaxLines + 1 .. Len(file) - 1 : mem' = Newest(SubSeq(file, 1, k))
           \/ \E k \in MaxLines .. Len(file) - 1 :
                 mem' = Newest(Append(SubSeq(file, 1, k), 0))
    BY <1>5, <1>f DEF CapScanFails, Truncate, Garbage
  <2>2. Held = file /\ Held' = mem' /\ open' = open
    BY <1>b, <1>c, <2>1
  <2>3. \/ \E n \in MaxLines + 1 .. Len(Held) - 1 : Held' = Ring!Newest(SubSeq(Held, 1, n))
        \/ \E n \in MaxLines .. Len(Held) - 1 :
              Held' = Ring!Newest(Append(SubSeq(Held, 1, n), 0))
    BY <2>1, <2>2, SameOperators
  <2>4. Ring!Fault
    BY <1>d, <1>e, <2>1, <2>2, <2>3 DEF Ring!Fault
  <2>5. QED
    BY <2>4 DEF Ring!Next
<1>6. CASE CapFail
  <2>1. op = "cap" /\ op' = "idle" /\ UNCHANGED <<file, open, mem, appended>>
        /\ faults' = faults + 1
    BY <1>6, <1>f DEF CapFail, disk
  <2>2. UNCHANGED Held /\ unread' \in BOOLEAN
    BY <2>1 DEF Held, Inv, TypeInv
  <2>3. Ring!Fault
    BY <1>d, <1>e, <2>1, <2>2 DEF Ring!Fault
  <2>4. QED
    BY <2>3 DEF Ring!Next
<1>7. CASE RewriteLine
  <2>1. /\ op = "rewrite" /\ open = FALSE /\ file' = Append(file, Head(mem)) /\ open' = FALSE
        /\ mem' = Tail(mem) /\ op' = (IF mem' = <<>> THEN "idle" ELSE "rewrite")
        /\ UNCHANGED <<appended, faults>>
    BY <1>7, <1>b DEF RewriteLine, WriteLine
  <2>2. UNCHANGED <<Held, open>>
    <3>1. Append(file, Head(mem)) \o Tail(mem) = file \o mem
      BY <1>a, <1>b, <2>1, MoveLine
    <3>2. Held' = Held
      BY <2>1, <3>1 DEF Held
    <3>3. QED
      BY <2>1, <3>2
  <2>3. CASE mem' = <<>>
    <3>1. Ring!Trimmed
      BY <1>d, <1>e, <2>1, <2>2, <2>3 DEF Ring!Trimmed
    <3>2. QED
      BY <3>1 DEF Ring!Next
  <2>4. CASE mem' # <<>>
    BY <1>d, <1>e, <2>1, <2>2, <2>4 DEF Ring!vars
  <2>5. QED
    BY <2>3, <2>4
<1>8. CASE RewriteFail
  <2>1. /\ op = "rewrite" /\ op' = "idle" /\ mem' = <<>> /\ faults' = faults + 1
        /\ WriteCut(Head(mem)) /\ UNCHANGED appended
    BY <1>8, <1>f DEF RewriteFail
  <2>2. Ring!Fault
    BY <1>a, <1>d, <1>e, <2>1, RewriteCut
  <2>3. QED
    BY <2>2 DEF Ring!Next
<1>9. QED
  BY <1>1, <1>2, <1>3, <1>4, <1>5, <1>6, <1>7, <1>8 DEF AppendStep

\* Flush: a batch is sent, and the file cleared, only as the ring allows.
LEMMA RingFlush ==
  ASSUME Inv, Inv', FlushStep
  PROVE  [Ring!Next]_(Ring!vars)
<1>a. /\ file \in Seq(Nat) /\ batch \in Seq(Nat)
      /\ appended \in Nat /\ faults \in Nat /\ crashes \in Nat
      /\ Len(file) \in Nat /\ Len(batch) \in Nat /\ In(file) \subseteq 0 .. appended
      /\ unread \in BOOLEAN
  BY LenProperties DEF Inv, TypeInv
<1>b. /\ op \in {"idle", "scan", "send", "clear"} /\ op' \in {"idle", "scan", "send", "clear"}
      /\ UNCHANGED <<mem, appended, crashes>>
  BY DEF FlushStep, FlushStart, FlushScan, FlushScanFails, FlushScanned, FlushCancelled,
         SendOk, SendFail, FlushClear, ClearFail, EndFlush, Fault, world, flush
<1>c. mem = <<>> /\ mem' = <<>> /\ Held = file /\ Held' = file'
  BY <1>a, <1>b, HeldIsFile DEF Inv, CapInv, TypeInv, Held
<1>d. (op = "rewrite") = FALSE /\ (op' = "rewrite") = FALSE
  BY <1>b
<1>e. (faults' = faults + 1 => (faults + crashes)' = faults + crashes + 1)
      /\ (UNCHANGED faults => (faults + crashes)' = faults + crashes)
  BY <1>a, <1>b
<1>1. CASE FlushStart \/ FlushScan \/ FlushScanned
  <2>1. UNCHANGED <<file, open, unread, appended, accepted, faults>>
    BY <1>1 DEF FlushStart, FlushScan, FlushScanned, disk, flush
  <2>2. QED
    BY <1>b, <1>c, <1>d, <1>e, <2>1 DEF Ring!vars
<1>2. CASE FlushScanFails \/ ClearFail
  <2>1. /\ UNCHANGED <<file, open, appended, accepted>> /\ faults' = faults + 1
        /\ unread' \in BOOLEAN
    BY <1>2 DEF FlushScanFails, ClearFail, EndFlush, Fault, disk
  <2>2. Ring!Fault
    BY <1>b, <1>c, <1>d, <1>e, <2>1 DEF Ring!Fault
  <2>3. QED
    BY <2>2 DEF Ring!Next
<1>3. CASE FlushCancelled \/ SendFail
  <2>1. UNCHANGED <<file, open, appended, accepted, faults>> /\ unread' = FALSE
    BY <1>3 DEF FlushCancelled, SendFail, EndFlush, disk
  <2>2. CASE unread
    <3>1. Ring!GiveUp
      BY <1>b, <1>c, <1>d, <1>e, <2>1, <2>2 DEF Ring!GiveUp
    <3>2. QED
      BY <3>1 DEF Ring!Next
  <2>3. CASE ~unread
    <3>1. unread' = unread
      BY <1>a, <2>1, <2>3
    <3>2. QED
      BY <1>b, <1>c, <1>d, <1>e, <2>1, <3>1 DEF Ring!vars
  <2>4. QED
    BY <2>2, <2>3
<1>4. CASE SendOk
  <2> DEFINE S == In(batch)
  <2>1. /\ UNCHANGED <<file, open, unread, appended, faults>> /\ op = "send"
        /\ accepted' = accepted \cup S
    BY <1>4 DEF SendOk, disk, In
  <2>2. batch # <<>> /\ S \subseteq In(file) /\ 0 \notin S
    BY <2>1 DEF Inv, FlushInv
  <2>3. S # {}
    <3>1. 1 \in 1 .. Len(batch)
      BY <1>a, <2>2, EmptySeq
    <3>2. QED
      BY <3>1 DEF In
  <2>4. S \in SUBSET (1 .. appended)
    <3> SUFFICES ASSUME NEW r \in S PROVE r \in 1 .. appended
      OBVIOUS
    <3>1. r \in 0 .. appended /\ r # 0
      BY <1>a, <2>2
    <3>2. QED
      BY <1>a, <3>1
  <2>5. S \subseteq {Held[i] : i \in 1 .. Len(Held)}
    BY <1>c, <2>2 DEF In
  <2> HIDE DEF S
  <2>6. Ring!Accept(S)
    BY <1>b, <1>c, <1>d, <1>e, <2>1, <2>3, <2>5 DEF Ring!Accept
  <2>7. QED
    BY <2>4, <2>6 DEF Ring!Next
<1>5. CASE FlushClear
  <2>1. /\ op = "clear" /\ file' = <<>> /\ open' = FALSE /\ unread' = FALSE
        /\ UNCHANGED <<appended, accepted, faults>>
    BY <1>5 DEF FlushClear, EndFlush
  <2>2. unread \/ \A i \in 1 .. Len(file) : file[i] \in accepted \cup {0}
    <3>1. batch = <<>> /\ cursor = Len(file)
          /\ (unread \/ \A i \in 1 .. cursor : file[i] \in accepted \cup {0} \cup In(batch))
      BY <2>1 DEF Inv, FlushInv
    <3>2. In(batch) = {}
      BY <3>1, InAppend
    <3>3. QED
      BY <3>1, <3>2
  <2>3. Ring!Clear
    BY <1>c, <1>d, <1>e, <1>b, <2>1, <2>2 DEF Ring!Clear
  <2>4. QED
    BY <2>3 DEF Ring!Next
<1>6. QED
  BY <1>1, <1>2, <1>3, <1>4, <1>5 DEF FlushStep

\* A crash is a fault of the ring.
LEMMA RingCrash ==
  ASSUME Inv, Inv', Crash
  PROVE  [Ring!Next]_(Ring!vars)
<1>a. /\ file \in Seq(Nat) /\ file' \in Seq(Nat) /\ faults \in Nat /\ crashes \in Nat
  BY DEF Inv, TypeInv
<1>b. /\ crashes' = crashes + 1 /\ mem' = <<>> /\ op' = "idle"
      /\ unread' = FALSE /\ UNCHANGED <<appended, accepted, faults>>
  BY DEF Crash, EndFlush
<1>c. (faults + crashes)' = faults + crashes + 1
  BY <1>a, <1>b
<1>1. CASE op = "rewrite"
  <2>1. WriteCut(Head(mem)) /\ unread = FALSE
    BY <1>1 DEF Crash, Inv, FlushInv
  <2>2. Ring!Fault
    BY <1>1, <1>a, <1>b, <1>c, <2>1, RewriteCut
  <2>3. QED
    BY <2>2 DEF Ring!Next
<1>2. CASE op # "rewrite"
  <2>1. UNCHANGED <<file, open>> /\ mem = <<>>
    BY <1>2 DEF Crash, disk, Inv, CapInv
  <2>2. Held' = Held
    BY <1>b, <2>1 DEF Held
  <2>3. (op = "rewrite") = FALSE /\ (op' = "rewrite") = FALSE
    BY <1>2, <1>b
  <2>4. Ring!Fault
    BY <1>b, <1>c, <2>1, <2>2, <2>3 DEF Ring!Fault
  <2>5. QED
    BY <2>4 DEF Ring!Next
<1>3. QED
  BY <1>1, <1>2

\* Every step of the store is a step of the ring, or none.
LEMMA RingStep ==
  ASSUME Inv, Inv', [Next]_vars
  PROVE  [Ring!Next]_(Ring!vars)
<1>1. CASE GoDown \/ GoUp \/ Cancel \/ UNCHANGED vars
  <2>1. UNCHANGED <<op, file, mem, open, unread, appended, accepted, faults, crashes>>
    BY <1>1 DEF GoDown, GoUp, Cancel, vars, disk, flush, world
  <2>2. UNCHANGED Ring!vars
    BY <2>1 DEF Ring!vars, Held
  <2>3. QED
    BY <2>2
<1>2. QED
  BY <1>1, RingAppend, RingFlush, RingCrash DEF Next

-----------------------------------------------------------------------------
\* What the store holds, torn lines, faults and crashes included, is the ring
\* that RingLog describes: the records leave it only from its old end, when the
\* cap pushes them out, all together when every one of them was accepted
\* upstream, or by what a failed operation or a crash may take with it
\* (store.go 29-116).
THEOREM StoreRefinesRing == Spec => RingSpec
<1>1. Init => Inv
  BY InvStep
<1>2. Inv /\ [Next]_vars => Inv'
  BY InvStep
<1>3. Init => Ring!Init
  BY RingInit
<1>4. Inv /\ Inv' /\ [Next]_vars => [Ring!Next]_(Ring!vars)
  BY RingStep
<1>5. QED
  BY <1>1, <1>2, <1>3, <1>4, PTL DEF Spec, RingSpec, Ring!Spec

-----------------------------------------------------------------------------
(***************************************************************************)
(* What follows from the ring: the order of the records.                   *)
(***************************************************************************)

\* The records come in the order of their numbers, none twice, and none is
\* beyond n; lines that are no record may lie between them.
InOrder(s, n) ==
  \A i \in 1 .. Len(s) :
    /\ s[i] <= n
    /\ \A j \in 1 .. Len(s) : i < j /\ s[i] # 0 /\ s[j] # 0 => s[i] < s[j]

\* The records up to n, and no other line, one after the other.
NoGaps(s, n) == \A i \in 1 .. Len(s) : s[i] + Len(s) = n + i

\* Whatever fails, the records are in the order of their Appends; and as long as
\* nothing has failed the last ones are there, without a gap.
RecordsKept ==
  /\ InOrder(Held, appended)
  /\ faults + crashes = 0 => open = FALSE /\ NoGaps(Held, appended)

\* Lines that lie together in lines in order are in order, also when some of
\* them have become no record.
LEMMA PartInOrder ==
  ASSUME NEW s \in Seq(Nat), NEW t \in Seq(Nat), NEW n \in Nat, NEW m \in Nat, n <= m,
         InOrder(s, n), NEW k \in Nat, Len(t) + k <= Len(s),
         \A i \in 1 .. Len(t) : t[i] = 0 \/ t[i] = s[i + k]
  PROVE  InOrder(t, m)
<1>1. Len(s) \in Nat /\ Len(t) \in Nat
  BY LenProperties
<1>2. \A i \in 1 .. Len(t) : i \in Nat /\ i + k \in 1 .. Len(s)
  BY <1>1
<1>3. /\ \A i \in 1 .. Len(t) : t[i] \in Nat
      /\ \A i \in 1 .. Len(s) : s[i] \in Nat
  BY ElementOfSeq
<1>4. ASSUME NEW i \in 1 .. Len(t) PROVE t[i] <= m
  <2>1. PICK p \in 1 .. Len(s) : t[i] = 0 \/ t[i] = s[p]
    BY <1>2
  <2>2. s[p] <= n /\ s[p] \in Nat
    BY <1>3 DEF InOrder
  <2>3. CASE t[i] = 0
    BY <2>3
  <2>4. CASE t[i] = s[p]
    <3>1. PICK x \in Nat : x = s[p] /\ x <= n
      BY <2>2
    <3>2. x <= m
      BY <3>1
    <3>3. QED
      BY <2>4, <3>1, <3>2
  <2>5. QED
    BY <2>1, <2>3, <2>4
<1>5. ASSUME NEW i \in 1 .. Len(t), NEW j \in 1 .. Len(t), i < j, t[i] # 0, t[j] # 0
      PROVE  t[i] < t[j]
  <2> DEFINE p == i + k
             q == j + k
  <2>1. p < q /\ p \in 1 .. Len(s) /\ q \in 1 .. Len(s)
    BY <1>1, <1>2, <1>5
  <2>2. t[i] = s[p] /\ t[j] = s[q]
    BY <1>5
  <2> HIDE DEF p, q
  <2>3. s[p] < s[q]
    BY <1>5, <2>1, <2>2 DEF InOrder
  <2>4. QED
    BY <2>2, <2>3
<1>6. QED
  BY <1>4, <1>5 DEF InOrder

\* A record with the next number may be added.
LEMMA NextInOrder ==
  ASSUME NEW s \in Seq(Nat), NEW n \in Nat, InOrder(s, n)
  PROVE  InOrder(Append(s, n + 1), n + 1)
<1> DEFINE t == Append(s, n + 1)
           l == Len(s)
<1>1. /\ l \in Nat /\ Len(t) = l + 1 /\ t[l + 1] = n + 1
      /\ \A i \in 1 .. l : t[i] = s[i] /\ s[i] \in Nat
  BY LenProperties, AppendProperties, ElementOfSeq
<1>2. \A i \in 1 .. l : s[i] <= n
  BY DEF InOrder
<1>3. \A i, j \in 1 .. l : i < j /\ s[i] # 0 /\ s[j] # 0 => s[i] < s[j]
  BY DEF InOrder
<1> HIDE DEF t, l
<1>4. \A i \in 1 .. Len(t) : i \in Nat /\ i <= l + 1 /\ (i = l + 1 \/ i \in 1 .. l)
  BY <1>1
<1>5. ASSUME NEW i \in 1 .. Len(t) PROVE t[i] <= n + 1
  <2>1. CASE i = l + 1
    BY <1>1, <2>1
  <2>2. CASE i \in 1 .. l
    <3>1. t[i] \in Nat /\ t[i] <= n
      BY <1>1, <1>2, <2>2
    <3>2. QED
      BY <3>1
  <2>3. QED
    BY <1>4, <2>1, <2>2
<1>6. ASSUME NEW i \in 1 .. Len(t), NEW j \in 1 .. Len(t), i < j, t[i] # 0, t[j] # 0
      PROVE  t[i] < t[j]
  <2>1. i \in 1 .. l
    BY <1>1, <1>4, <1>6
  <2>2. CASE j \in 1 .. l
    BY <1>1, <1>3, <1>6, <2>1, <2>2
  <2>3. CASE j = l + 1
    <3>1. t[i] <= n /\ t[i] \in Nat /\ t[j] = n + 1
      BY <1>1, <1>2, <2>1, <2>3
    <3>2. QED
      BY <3>1
  <2>4. QED
    BY <1>4, <2>2, <2>3
<1>7. QED
  BY <1>5, <1>6 DEF InOrder, t

\* Lines without a gap stay so when the next one is added.
LEMMA NextNoGaps ==
  ASSUME NEW s \in Seq(Nat), NEW n \in Nat, NoGaps(s, n)
  PROVE  NoGaps(Append(s, n + 1), n + 1)
<1> DEFINE t == Append(s, n + 1)
           l == Len(s)
<1>1. /\ l \in Nat /\ Len(t) = l + 1 /\ t[l + 1] = n + 1
      /\ \A i \in 1 .. l : t[i] = s[i] /\ s[i] \in Nat /\ s[i] + l = n + i
  BY LenProperties, AppendProperties, ElementOfSeq DEF NoGaps
<1> HIDE DEF t, l
<1>2. ASSUME NEW i \in 1 .. Len(t) PROVE t[i] + Len(t) = n + 1 + i
  <2>1. CASE i = l + 1
    BY <1>1, <2>1
  <2>2. CASE i \in 1 .. l
    <3>1. PICK x \in Nat : x = t[i] /\ x + l = n + i
      BY <1>1, <2>2
    <3>2. x + (l + 1) = n + 1 + i
      BY <1>1, <3>1
    <3>3. QED
      BY <1>1, <3>1, <3>2
  <2>3. QED
    BY <1>1, <2>1, <2>2
<1>3. QED
  BY <1>2 DEF NoGaps, t

\* The newest lines are the last MaxLines of them, and if there was no gap there
\* is none.
LEMMA NewestKept ==
  ASSUME NEW s \in Seq(Nat), Len(s) > MaxLines
  PROVE  /\ \A n \in Nat : InOrder(s, n) => InOrder(Newest(s), n)
         /\ \A n \in Nat : NoGaps(s, n) => NoGaps(Newest(s), n)
<1> DEFINE t == Newest(s)
           k == Len(s) - MaxLines
<1>1. k \in Nat /\ Len(s) = MaxLines + k /\ Len(s) \in Nat
  BY LenProperties, Bounds
<1>2. t \in Seq(Nat) /\ Len(t) = MaxLines
  BY NewestOf
<1>3. \A i \in 1 .. MaxLines : t[i] = s[i + k]
  BY NewestOf
<1>4. \A i \in 1 .. MaxLines : i + k \in 1 .. Len(s)
  BY <1>1, Bounds
<1>5. \A i \in 1 .. Len(s) : s[i] \in Nat
  BY ElementOfSeq
<1> HIDE DEF t, k
<1>6. ASSUME NEW n \in Nat, InOrder(s, n) PROVE InOrder(t, n)
  <2>1. Len(t) + k <= Len(s) /\ n <= n
    BY <1>1, <1>2, Bounds
  <2>2. \A i \in 1 .. Len(t) : t[i] = 0 \/ t[i] = s[i + k]
    BY <1>2, <1>3
  <2>3. QED
    BY <1>1, <1>2, <1>6, <2>1, <2>2, PartInOrder
<1>7. ASSUME NEW n \in Nat, NoGaps(s, n) PROVE NoGaps(t, n)
  <2>1. ASSUME NEW i \in 1 .. MaxLines PROVE t[i] + MaxLines = n + i
    <3>1. s[i + k] + Len(s) = n + (i + k)
      BY <1>4, <1>7 DEF NoGaps
    <3>2. PICK x \in Nat : x = s[i + k]
      BY <1>4, <1>5
    <3>3. x + (MaxLines + k) = n + (i + k)
      BY <1>1, <3>1, <3>2
    <3>4. x + MaxLines = n + i
      BY <1>1, <3>3, Bounds
    <3>5. QED
      BY <1>3, <3>2, <3>4
  <2>2. QED
    BY <1>2, <2>1 DEF NoGaps
<1>8. QED
  BY <1>6, <1>7 DEF t

\* A line that is no record may be added.
LEMMA GarbageInOrder ==
  ASSUME NEW s \in Seq(Nat), NEW n \in Nat, InOrder(s, n)
  PROVE  InOrder(Append(s, 0), n + 1)
<1> DEFINE t == Append(s, 0)
           u == Append(s, n + 1)
           l == Len(s)
<1>1. /\ t \in Seq(Nat) /\ u \in Seq(Nat) /\ l \in Nat
      /\ Len(t) = l + 1 /\ t[l + 1] = 0 /\ Len(u) = l + 1
      /\ \A i \in 1 .. l : t[i] = s[i] /\ u[i] = s[i]
  BY LenProperties, AppendProperties
<1>2. InOrder(u, n + 1)
  BY NextInOrder
<1> HIDE DEF t, u, l
<1>3. \A i \in 1 .. Len(t) : i + 0 = i /\ (i = l + 1 \/ i \in 1 .. l)
  BY <1>1
<1>4. \A i \in 1 .. Len(t) : t[i] = 0 \/ t[i] = u[i + 0]
  BY <1>1, <1>3
<1>5. Len(t) + 0 <= Len(u) /\ n + 1 <= n + 1 /\ n + 1 \in Nat
  BY <1>1
<1>6. InOrder(t, n + 1)
  BY <1>1, <1>2, <1>4, <1>5, PartInOrder
<1>7. QED
  BY <1>6 DEF t

\* Of lines in order the first ones are in order, and so they are when the next
\* one is cut.
LEMMA CutInOrder ==
  ASSUME NEW s \in Seq(Nat), NEW n \in Nat, InOrder(s, n), NEW k \in 0 .. Len(s)
  PROVE  /\ InOrder(SubSeq(s, 1, k), n)
         /\ k < Len(s) => \A line \in {0, s[k + 1]} :
                              InOrder(Append(SubSeq(s, 1, k), line), n)
<1> DEFINE u == SubSeq(s, 1, k)
<1>1. /\ u \in Seq(Nat) /\ Len(u) = k /\ \A i \in 1 .. k : u[i] = s[i]
      /\ Len(s) \in Nat /\ \A i \in 1 .. Len(s) : s[i] \in Nat
  BY FirstLines, LenProperties, ElementOfSeq
<1> HIDE DEF u
<1>2. ASSUME NEW t \in Seq(Nat), Len(t) <= Len(s),
             \A i \in 1 .. Len(t) : t[i] = 0 \/ t[i] = s[i]
      PROVE  InOrder(t, n)
  <2>1. Len(t) \in Nat
    BY LenProperties
  <2>2. \A i \in 1 .. Len(t) : i + 0 = i
    BY <2>1
  <2>3. Len(t) + 0 <= Len(s) /\ n <= n
    BY <1>1, <1>2, <2>1
  <2>4. \A i \in 1 .. Len(t) : t[i] = 0 \/ t[i] = s[i + 0]
    BY <1>2, <2>2
  <2>5. QED
    BY <2>3, <2>4, PartInOrder
<1>3. InOrder(u, n)
  <2>1. Len(u) <= Len(s) /\ \A i \in 1 .. Len(u) : u[i] = 0 \/ u[i] = s[i]
    BY <1>1
  <2>2. QED
    BY <1>1, <1>2, <2>1
<1>4. ASSUME k < Len(s), NEW line \in {0, s[k + 1]}
      PROVE  InOrder(Append(u, line), n)
  <2> DEFINE t == Append(u, line)
  <2>1. k + 1 \in 1 .. Len(s) /\ k + 1 <= Len(s)
    BY <1>1, <1>4
  <2>2. line \in Nat
    BY <1>1, <2>1
  <2>3. /\ t \in Seq(Nat) /\ Len(t) = k + 1 /\ t[k + 1] = line
        /\ \A i \in 1 .. k : t[i] = u[i]
    BY <1>1, <2>2, AppendProperties
  <2> HIDE DEF t
  <2>4. \A i \in 1 .. Len(t) : i = k + 1 \/ i \in 1 .. k
    BY <2>3
  <2>5. \A i \in 1 .. Len(t) : t[i] = 0 \/ t[i] = s[i]
    BY <1>1, <1>4, <2>3, <2>4
  <2>6. InOrder(t, n)
    BY <1>2, <2>1, <2>3, <2>5
  <2>7. QED
    BY <2>6 DEF t
<1>5. QED
  BY <1>3, <1>4 DEF u

\* What the ring does to lines in order leaves them in order.
LEMMA OrderStep ==
  ASSUME Held \in Seq(Nat), Held' \in Seq(Nat), open \in BOOLEAN, open => Held # <<>>,
         appended \in Nat, faults + crashes \in Nat,
         RecordsKept, [Ring!Next]_(Ring!vars)
  PROVE  RecordsKept'
<1> DEFINE h == Held
           f == faults + crashes
<1>1. InOrder(h, appended) /\ (f = 0 => open = FALSE /\ NoGaps(h, appended))
  BY DEF RecordsKept
<1>2. SUFFICES /\ InOrder(h', appended')
               /\ f' = 0 => open' = FALSE /\ NoGaps(h', appended')
  BY DEF RecordsKept
<1>3. h \in Seq(Nat) /\ h' \in Seq(Nat) /\ f \in Nat /\ (open => h # <<>>)
  OBVIOUS
<1>4. \A s \in Seq(Nat) : Len(s) \in Nat
  BY LenProperties
<1>5. ASSUME NEW n \in Nat, NEW m \in Nat, n <= m, InOrder(h, n),
             NEW t \in Seq(Nat), Len(t) <= Len(h),
             \A i \in 1 .. Len(t) : t[i] = 0 \/ t[i] = h[i]
      PROVE  InOrder(t, m)
  <2>1. \A i \in 1 .. Len(t) : i + 0 = i
    BY <1>4, <1>5
  <2>2. Len(t) + 0 <= Len(h)
    BY <1>3, <1>4, <1>5
  <2>3. \A i \in 1 .. Len(t) : t[i] = 0 \/ t[i] = h[i + 0]
    BY <1>5, <2>1
  <2> HIDE DEF h
  <2>4. QED
    BY <1>3, <1>5, <2>2, <2>3, PartInOrder
<1>6. InOrder(h, appended + 1) /\ InOrder(Append(h, appended + 1), appended + 1)
  <2> HIDE DEF h
  <2>1. InOrder(Append(h, appended + 1), appended + 1)
    BY <1>1, <1>3, NextInOrder
  <2>2. appended <= appended + 1 /\ appended + 1 \in Nat /\ Len(h) <= Len(h)
    BY <1>3, <1>4
  <2>3. QED
    BY <1>1, <1>3, <1>5, <2>1, <2>2
<1>7. ASSUME NEW line \in {0, appended + 1}, h' = Ring!With(h, open, line)
      PROVE  InOrder(h', appended + 1)
  <2>1. CASE open
    <3> DEFINE g == [h EXCEPT ![Len(h)] = 0]
    <3>1. Len(h) \in 1 .. Len(h)
      BY <1>3, <1>4, <2>1, EmptySeq
    <3>2. /\ g \in Seq(Nat) /\ Len(g) = Len(h)
          /\ \A j \in 1 .. Len(h) : g[j] = IF j = Len(h) THEN 0 ELSE h[j]
      BY <1>3, <3>1, ExceptSeq
    <3>3. h' = g
      BY <1>7, <2>1 DEF Ring!With
    <3> HIDE DEF g, h
    <3>4. InOrder(g, appended + 1)
      <4>1. Len(g) <= Len(h) /\ appended <= appended + 1 /\ appended + 1 \in Nat
        BY <1>3, <1>4, <3>2
      <4>2. \A i \in 1 .. Len(g) : g[i] = 0 \/ g[i] = h[i]
        BY <3>2
      <4>3. QED
        BY <1>1, <1>5, <3>2, <4>1, <4>2
    <3>5. QED
      BY <3>3, <3>4
  <2>2. CASE ~open
    <3>1. h' = Append(h, line)
      BY <1>7, <2>2 DEF Ring!With
    <3> HIDE DEF h
    <3>2. CASE line = appended + 1
      BY <1>6, <3>1, <3>2
    <3>3. CASE line = 0
      BY <1>1, <1>3, <3>1, <3>3, GarbageInOrder
    <3>4. QED
      BY <3>2, <3>3
  <2>3. QED
    BY <2>1, <2>2
<1>8. CASE Ring!Add
  <2>1. /\ h' = Ring!With(h, open, appended + 1) /\ appended' = appended + 1
        /\ open' = FALSE /\ f' = f
    BY <1>8 DEF Ring!Add
  <2>2. InOrder(h', appended')
    BY <1>7, <2>1
  <2>3. ASSUME f' = 0 PROVE NoGaps(h', appended')
    <3>1. NoGaps(h, appended) /\ h' = Append(h, appended + 1)
      BY <1>1, <2>1, <2>3 DEF Ring!With
    <3> HIDE DEF h
    <3>2. QED
      BY <1>3, <2>1, <3>1, NextNoGaps
  <2>4. QED
    BY <2>1, <2>2, <2>3
<1>9. CASE Ring!Trim
  <2>1. /\ Len(h) > MaxLines /\ h' = Newest(h) /\ appended' = appended
        /\ open' = open /\ f' = f
    BY <1>9, SameOperators DEF Ring!Trim
  <2> HIDE DEF h, f
  <2>2. InOrder(h', appended') /\ (NoGaps(h, appended) => NoGaps(h', appended'))
    BY <1>1, <1>3, <2>1, NewestKept
  <2>3. QED
    BY <1>1, <2>1, <2>2
<1>10. CASE Ring!Clear
  <2>1. h' = <<>> /\ open' = FALSE
    BY <1>10 DEF Ring!Clear
  <2>2. Len(h') = 0
    BY <2>1, EmptySeq
  <2> HIDE DEF h
  <2>3. QED
    BY <2>1, <2>2 DEF InOrder, NoGaps
<1>11. CASE Ring!Trimmed \/ Ring!GiveUp \/ (\E S \in SUBSET (1 .. appended) : Ring!Accept(S))
            \/ UNCHANGED Ring!vars
  <2>1. h' = h /\ open' = open /\ appended' = appended /\ f' = f
    BY <1>11 DEF Ring!Trimmed, Ring!GiveUp, Ring!Accept, Ring!vars
  <2> HIDE DEF h, f
  <2>2. QED
    BY <1>1, <2>1
<1>12. CASE Ring!Fault
  <2>1. f' = f + 1
    BY <1>12 DEF Ring!Fault
  <2>2. f' # 0
    <3> HIDE DEF f
    <3>1. QED
      BY <1>3, <2>1
  <2>3. CASE h' = h /\ appended' = appended
    BY <1>1, <2>2, <2>3
  <2>4. CASE appended' = appended + 1 /\ h' = h
    BY <1>6, <2>2, <2>4
  <2>5. CASE /\ appended' = appended + 1
             /\ \E line \in {0, appended + 1} : h' = Ring!With(h, open, line)
    BY <1>7, <2>2, <2>5
  <2>6. CASE /\ appended' = appended
             /\ \E n \in 0 .. Len(h) :
                  \/ h' = SubSeq(h, 1, n)
                  \/ /\ n < Len(h)
                     /\ \E line \in {0, h[n + 1]} : h' = Append(SubSeq(h, 1, n), line)
    <3>1. PICK n \in 0 .. Len(h) :
            \/ h' = SubSeq(h, 1, n)
            \/ /\ n < Len(h)
               /\ \E line \in {0, h[n + 1]} : h' = Append(SubSeq(h, 1, n), line)
      BY <2>6
    <3>2. QED
      BY <1>1, <1>3, <2>2, <2>6, <3>1, CutInOrder
  <2>7. CASE /\ appended' = appended
             /\ \E n \in MaxLines + 1 .. Len(h) - 1 : h' = Newest(SubSeq(h, 1, n))
    <3>1. PICK n \in MaxLines + 1 .. Len(h) - 1 : h' = Newest(SubSeq(h, 1, n))
      BY <2>7
    <3> HIDE DEF h
    <3>2. n \in 0 .. Len(h) /\ n > MaxLines
      BY <1>3, <1>4, <3>1, Bounds
    <3>3. /\ SubSeq(h, 1, n) \in Seq(Nat) /\ Len(SubSeq(h, 1, n)) = n
          /\ InOrder(SubSeq(h, 1, n), appended)
      BY <1>1, <1>3, <3>2, FirstLines, CutInOrder
    <3>4. InOrder(h', appended)
      BY <3>1, <3>2, <3>3, NewestKept
    <3>5. QED
      BY <2>2, <2>7, <3>4
  <2>8. CASE /\ appended' = appended
             /\ \E n \in MaxLines .. Len(h) - 1 : h' = Newest(Append(SubSeq(h, 1, n), 0))
    <3>1. PICK n \in MaxLines .. Len(h) - 1 : h' = Newest(Append(SubSeq(h, 1, n), 0))
      BY <2>8
    <3> HIDE DEF h
    <3>2. n \in 0 .. Len(h) /\ n < Len(h) /\ n + 1 > MaxLines
      BY <1>3, <1>4, <3>1, Bounds
    <3>3. SubSeq(h, 1, n) \in Seq(Nat) /\ Len(SubSeq(h, 1, n)) = n
      BY <1>3, <3>2, FirstLines
    <3>4. PICK t \in Seq(Nat) : t = Append(SubSeq(h, 1, n), 0) /\ Len(t) = n + 1
      BY <3>3, AppendProperties
    <3>5. InOrder(t, appended)
      BY <1>1, <1>3, <3>2, <3>4, CutInOrder
    <3>6. InOrder(h', appended)
      BY <3>1, <3>2, <3>4, <3>5, NewestKept
    <3>7. QED
      BY <2>2, <2>8, <3>6
  <2>9. QED
    BY <1>12, <2>3, <2>4, <2>5, <2>6, <2>7, <2>8, SameOperators DEF Ring!Fault
<1>13. QED
  BY <1>8, <1>9, <1>10, <1>11, <1>12 DEF Ring!Next

\* The records in the store are in the order of their Appends, none of them
\* twice, whatever faults and crashes it has met; and as long as it has met none,
\* no line is torn and the store holds the last records appended, without a gap
\* (store.go 29-116).
THEOREM StoreKeepsOrder == Spec => []RecordsKept
<1>1. Init => RecordsKept
  <2> SUFFICES ASSUME Init PROVE RecordsKept
    OBVIOUS
  <2>1. Held = <<>> /\ open = FALSE
    BY EmptySeq, HeldIsFile DEF Init, Held
  <2>2. Len(Held) = 0
    BY <2>1, EmptySeq
  <2>3. QED
    BY <2>1, <2>2 DEF RecordsKept, InOrder, NoGaps
<1>2. ASSUME Inv, Inv', RecordsKept, [Next]_vars
      PROVE  RecordsKept'
  <2>1. [Ring!Next]_(Ring!vars)
    BY <1>2, RingStep
  <2>2. /\ Held \in Seq(Nat) /\ open \in BOOLEAN /\ appended \in Nat
        /\ faults + crashes \in Nat
    BY <1>2, ConcatProperties DEF Inv, TypeInv, Held
  <2>3. Held' \in Seq(Nat)
    BY <1>2, ConcatProperties DEF Inv, TypeInv, Held
  <2>4. open => Held # <<>>
    <3> SUFFICES ASSUME open PROVE Held # <<>>
      OBVIOUS
    <3>1. file # <<>> /\ mem = <<>> /\ file \in Seq(Nat)
      BY <1>2 DEF Inv, TypeInv, CapInv
    <3>2. QED
      BY <3>1, HeldIsFile DEF Held
  <2>5. QED
    BY <1>2, <2>1, <2>2, <2>3, <2>4, OrderStep
<1>3. QED
  BY <1>1, <1>2, InvStep, PTL DEF Spec

=============================================================================
