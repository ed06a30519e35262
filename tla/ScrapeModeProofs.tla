-------------------------- MODULE ScrapeModeProofs --------------------------
(***************************************************************************)
(* Proofs about ScrapeMode, for every number of requests, every topology   *)
(* file, and every duration and limit of the bandwidth test: a bandwidth   *)
(* measurement has an end, and a reply shows the results of its own        *)
(* request.                                                                *)
(***************************************************************************)
EXTENDS ScrapeMode, TLAPS

(***************************************************************************)
(* The bandwidth measurement.                                              *)
(***************************************************************************)

\* The budget of each step: what is spent, with what is left to the deadline,
\* is no more than the deadlines so far; and only the write goes on when the
\* caller has gone.
Budget ==
  /\ left \in Nat /\ spent \in Nat /\ late \in Nat
  /\ bwPc \in {"idle", "iperf3", "dial", "write"}
  /\ bwPc = "idle" => spent <= MostSpent /\ late <= Duration
  /\ bwPc = "iperf3" => spent + left <= Duration + Grace /\ late = 0
  /\ bwPc = "dial" => spent + left <= Duration + Grace + DialLimit /\ late = 0
  /\ bwPc = "write" => spent + left <= MostSpent /\ late + left <= Duration

\* The limits are numbers.
LEMMA Limits ==
  /\ Duration \in Nat /\ Grace \in Nat /\ DialLimit \in Nat /\ MostSpent \in Nat
  /\ MostSpent = Duration + Grace + DialLimit + Duration
BY BandwidthAssumption DEF MostSpent

\* The budget is kept within its bounds.
LEMMA BudgetBounds == Budget => BandwidthBounded
BY Limits DEF Budget, BandwidthBounded

\* A measurement begins with nothing spent.
LEMMA BudgetBegin ==
  ASSUME Budget, Begin
  PROVE  Budget'
BY Limits DEF Budget, Begin

\* Each step of Run, runIperf3 and runNative keeps the budget: a new deadline
\* begins where the one before it may have ended.
LEMMA BudgetStep ==
  ASSUME NEW gone \in BOOLEAN, Budget, BwStep(gone)
  PROVE  Budget'
<1> USE Limits DEF Budget
<1>1. ASSUME NEW how, Finish(how) PROVE Budget'
  BY <1>1 DEF Finish
<1>2. CASE Iperf3Ok
  BY <1>1, <1>2 DEF Iperf3Ok
<1>3. CASE Iperf3Fails
  BY <1>3 DEF Iperf3Fails
<1>4. CASE DialOk(gone)
  BY <1>4 DEF DialOk
<1>5. CASE DialFails
  BY <1>1, <1>5 DEF DialFails
<1>6. CASE WriteEnds
  BY <1>1, <1>6 DEF WriteEnds
<1> QED
  BY <1>2, <1>3, <1>4, <1>5, <1>6 DEF BwStep

\* A tick takes from what is left what it adds to what is spent; when the
\* caller has gone there is none but in the write.
LEMMA BudgetTick ==
  ASSUME NEW gone \in BOOLEAN, Budget, Tick(gone)
  PROVE  Budget'
<1> USE Limits DEF Budget
<1>1. /\ bwPc # "idle" /\ left > 0
      /\ left' = left - 1 /\ spent' = Counted(spent)
      /\ late' = IF gone THEN Counted(late) ELSE late
      /\ bwPc' = bwPc
  BY DEF Tick, TimeUp
<1>2. spent < MostSpent /\ late < MostSpent
  BY <1>1
<1>3. spent' = spent + 1 /\ late' = IF gone THEN late + 1 ELSE late
  BY <1>1, <1>2 DEF Counted
<1>4. CASE bwPc = "write"
  BY <1>1, <1>3, <1>4
<1>5. CASE bwPc \in {"iperf3", "dial"}
  <2>1. ~gone
    BY <1>5 DEF Tick, TimeUp
  <2> QED
    BY <2>1, <1>1, <1>3, <1>5
<1> QED
  BY <1>1, <1>4, <1>5

\* What the target does, and taking the result, leaves the deadlines alone.
LEMMA BudgetRest ==
  ASSUME Budget, Target \/ Take \/ UNCHANGED bandwidth
  PROVE  Budget'
<1> USE Limits DEF Budget
<1>1. CASE Target
  BY <1>1 DEF Target, Accept, Stop, PeerResets
<1>2. CASE Take
  BY <1>2 DEF Take
<1>3. CASE UNCHANGED bandwidth
  BY <1>3 DEF bandwidth
<1> QED
  BY <1>1, <1>2, <1>3

\* Every step of the exporter keeps the budget.
LEMMA BudgetNext ==
  ASSUME Budget, [Next]_vars
  PROVE  Budget'
<1>1. CASE Start \/ Refresh \/ Signal \/ Terminated \/ UNCHANGED vars
  BY <1>1, BudgetRest DEF Start, Refresh, Signal, Terminated, vars
<1>2. CASE Exit
  BY <1>2, Limits DEF Exit, Budget
<1>3. ASSUME NEW h \in Scrapes, Request(h) \/ Leave(h) \/ Handle(h)
      PROVE  Budget'
  <2>1. CASE Request(h) \/ Leave(h)
    BY <2>1, BudgetRest DEF Request, Leave
  <2>2. CASE Lock(h) \/ Measure(h) \/ Gather(h) \/ Unlock(h)
    BY <2>2, BudgetRest DEF Lock, Measure, Gather, Unlock
  <2>3. CASE BwBegin(h)
    BY <2>3, BudgetBegin DEF BwBegin
  <2>4. CASE BwDone(h)
    BY <2>4, BudgetRest DEF BwDone
  <2> QED
    BY <1>3, <2>1, <2>2, <2>3, <2>4 DEF Handle
<1>4. CASE Measuring(BwStep(Gone) \/ Target \/ Tick(Gone))
  <2>1. Gone \in BOOLEAN
    BY DEF Gone
  <2> QED
    BY <1>4, <2>1, BudgetStep, BudgetTick, BudgetRest DEF Measuring
<1> QED
  BY <1>1, <1>2, <1>3, <1>4 DEF Next

\* A bandwidth measurement has an end, whatever the target and its client do
\* (bw.go 36-100, 110-132).
THEOREM BandwidthEnds == Spec => []BandwidthBounded
<1>1. Init => Budget
  BY Limits DEF Init, BwInit, Budget
<1>2. Budget /\ [Next]_vars => Budget'
  BY BudgetNext
<1> QED
  BY <1>1, <1>2, BudgetBounds, PTL DEF Spec

(***************************************************************************)
(* The replies.                                                            *)
(***************************************************************************)

Busy(h) == hPc[h] \in {"run", "serve"}

\* What the results of a request rest on: it is alone between Lock and Unlock,
\* and so the gauges it has set stay as they are until it has gathered them.
Alone ==
  /\ hPc \in [Scrapes -> {"none", "lock", "run", "serve", "replied", "cut"}]
  /\ own = [h \in Scrapes |-> own[h]] /\ reply = [h \in Scrapes |-> reply[h]]
  /\ \A g, h \in Scrapes : Busy(g) /\ Busy(h) => g = h
  /\ \A h \in Scrapes : hPc[h] \in {"none", "lock"} => own[h] = {}
  /\ \A h \in Scrapes : hPc[h] = "run" =>
       \A m \in own[h] : m \in DOMAIN gauges /\ gauges[m] = h

Replies == Alone /\ OwnResults

\* A step that moves no request keeps the replies.
LEMMA RepliesStay ==
  ASSUME Replies, UNCHANGED <<hPc, answers>>
  PROVE  Replies'
BY DEF Replies, Alone, OwnResults, Busy, answers

\* A request that goes where it does not hold the mutex, with nothing set, or
\* after it was answered, keeps the replies of the others.
LEMMA RepliesOutside ==
  ASSUME NEW h \in Scrapes, Replies, UNCHANGED answers,
         \/ hPc[h] = "none" /\ Go(h, "lock")
         \/ hPc[h] = "serve" /\ Go(h, "replied")
  PROVE  Replies'
BY DEF Replies, Alone, OwnResults, Busy, answers, Go

\* Who gets the mutex is alone with it, and has set nothing yet.
LEMMA RepliesLock ==
  ASSUME NEW h \in Scrapes, Replies, Lock(h)
  PROVE  Replies'
<1>1. hPc' = [hPc EXCEPT ![h] = "run"] /\ hPc[h] = "lock" /\ UNCHANGED answers
  BY DEF Lock, Go
<1>2. \A g \in Scrapes : ~Busy(g)
  BY DEF Lock, Locked, Busy
<1> QED
  BY <1>1, <1>2 DEF Replies, Alone, OwnResults, Busy, answers

\* Who has the mutex sets gauges that no other request relies on.
LEMMA RepliesUpdate ==
  ASSUME NEW h \in Scrapes, NEW fields, Replies, hPc[h] = "run", UpdateResult(h, fields)
  PROVE  Replies'
<1> DEFINE set == fields \X {Head(todo[h])[2]}
<1>1. /\ gauges' = [m \in DOMAIN gauges \cup set |-> IF m \in set THEN h ELSE gauges[m]]
      /\ own' = [own EXCEPT ![h] = @ \cup set]
      /\ UNCHANGED <<hPc, reply>>
  BY DEF UpdateResult
<1> HIDE DEF set
<1>2. own'[h] = own[h] \cup set /\ \A g \in Scrapes \ {h} : own'[g] = own[g]
  BY <1>1 DEF Replies, Alone
<1>3. own' = [g \in Scrapes |-> own'[g]] /\ reply' = [g \in Scrapes |-> reply'[g]]
  BY <1>1 DEF Replies, Alone
<1>4. \A m \in own'[h] : m \in DOMAIN gauges' /\ gauges'[m] = h
  BY <1>1, <1>2 DEF Replies, Alone
<1>5. \A g \in Scrapes : Busy(g) => g = h
  BY DEF Replies, Alone, Busy
<1>6. Alone'
  BY <1>1, <1>2, <1>3, <1>4, <1>5 DEF Replies, Alone, Busy
<1>7. OwnResults'
  BY <1>1, <1>2 DEF Replies, OwnResults
<1> QED
  BY <1>6, <1>7 DEF Replies

\* What it gathers are its own results.
LEMMA RepliesGather ==
  ASSUME NEW h \in Scrapes, Replies, Gather(h)
  PROVE  Replies'
<1>1. /\ hPc[h] = "run" /\ hPc' = [hPc EXCEPT ![h] = "serve"]
      /\ reply' = [reply EXCEPT ![h] = gauges]
      /\ UNCHANGED <<gauges, own>>
  BY DEF Gather, Go
<1>2. reply'[h] = gauges /\ \A g \in Scrapes \ {h} : reply'[g] = reply[g]
  BY <1>1 DEF Replies, Alone
<1>3. reply' = [g \in Scrapes |-> reply'[g]]
  BY <1>1 DEF Replies, Alone
<1>4. Alone'
  BY <1>1, <1>3 DEF Replies, Alone, Busy
<1>5. OwnResults'
  BY <1>1, <1>2 DEF Replies, Alone, OwnResults
<1> QED
  BY <1>4, <1>5 DEF Replies

\* Every step of the exporter keeps the replies.
LEMMA RepliesNext ==
  ASSUME Replies, [Next]_vars
  PROVE  Replies'
<1>1. CASE Start \/ Refresh \/ Signal \/ Terminated \/ UNCHANGED vars
  BY <1>1, RepliesStay DEF Start, Refresh, Signal, Terminated, vars, requests
<1>2. CASE Exit
  BY <1>2 DEF Exit, Replies, Alone, OwnResults, Busy, answers
<1>3. ASSUME NEW h \in Scrapes, Request(h) \/ Leave(h) \/ Handle(h)
      PROVE  Replies'
  <2>1. CASE Request(h) \/ Unlock(h)
    BY <2>1, RepliesOutside DEF Request, Unlock
  <2>2. CASE Leave(h) \/ BwBegin(h)
    BY <2>2, RepliesStay DEF Leave, BwBegin, requests
  <2>3. CASE Lock(h)
    BY <2>3, RepliesLock
  <2>4. CASE Measure(h) \/ BwDone(h)
    BY <2>4, RepliesUpdate DEF Measure, BwDone, Turn
  <2>5. CASE Gather(h)
    BY <2>5, RepliesGather
  <2> QED
    BY <1>3, <2>1, <2>2, <2>3, <2>4, <2>5 DEF Handle
<1>4. CASE Measuring(BwStep(Gone) \/ Target \/ Tick(Gone))
  BY <1>4, RepliesStay DEF Measuring, requests
<1> QED
  BY <1>1, <1>2, <1>3, <1>4 DEF Next

\* A reply shows the results of its own request in every gauge the request has
\* set, for any number of scrapes and any topology (exporter.go 209-241).
THEOREM RepliesAreOwn == Spec => []OwnResults
<1>1. Init => Replies
  BY DEF Init, Replies, Alone, OwnResults, Busy
<1>2. Replies /\ [Next]_vars => Replies'
  BY RepliesNext
<1>3. Replies => OwnResults
  BY DEF Replies
<1> QED
  BY <1>1, <1>2, <1>3, PTL DEF Spec

(***************************************************************************)
(* The settings.                                                           *)
(***************************************************************************)

\* A process that is up goes by a file that was accepted.
Settled == current \in Files /\ (phase = "up" => Accepted(current))

\* It stays so: a refresh takes no other.
LEMMA SettledKept == (Init => Settled) /\ (Settled /\ [Next]_vars => Settled')
<1>1. ASSUME Init PROVE Settled
  BY <1>1 DEF Init, Settled
<1>2. ASSUME Settled, [Next]_vars PROVE Settled'
  <2>1. CASE Start
    BY <1>2, <2>1 DEF Start, Settled
  <2>2. CASE Refresh
    <3>1. PICK i \in 2 .. Len(Scraped) : current' = Scraped[i]
      BY <2>2 DEF Refresh
    <3>2. i \in 1 .. Len(Scraped)
      OBVIOUS
    <3>3. Scraped[i] \in Files /\ Accepted(Scraped[i])
      BY <3>2, FilesAssumption
    <3>4. QED
      BY <3>1, <3>3 DEF Settled
  <2>3. ASSUME UNCHANGED current, phase' \in {phase, "draining", "exited"}
        PROVE  Settled'
    BY <1>2, <2>3 DEF Settled
  <2>4. CASE Signal \/ Exit \/ Terminated \/ UNCHANGED vars
    BY <2>3, <2>4 DEF Signal, Exit, Terminated, vars
  <2>5. ASSUME NEW h \in Scrapes, Request(h) \/ Leave(h) \/ Handle(h)
        PROVE  UNCHANGED <<current, phase>>
    BY <2>5 DEF Request, Leave, Handle, Lock, Measure, BwBegin, BwDone, Gather, Unlock,
       UpdateResult
  <2>6. CASE Measuring(BwStep(Gone) \/ Target \/ Tick(Gone))
    BY <2>3, <2>6 DEF Measuring
  <2>7. QED
    BY <1>2, <2>1, <2>2, <2>3, <2>4, <2>5, <2>6 DEF Next
<1>3. QED
  BY <1>1, <1>2

\* A duration is positive when it is absent, and the given number otherwise.
LEMMA DurationUsable ==
  ASSUME NEW d \in Timing, d # Bad, NEW k \in Nat, k > 0
  PROVE  DurationOf(d, k) \in Int /\ (DurationOf(d, k) <= 0 <=> NotPositive(d))
<1>1. CASE d = Absent
  BY <1>1 DEF DurationOf, NotPositive, Given
<1>2. CASE d # Absent
  BY <1>2, DurationsAssumption DEF Timing, DurationOf, NotPositive, Given
<1>3. QED
  BY <1>1, <1>2

\* A measurement of the file, once parsed: its interval is what the file gives,
\* and it waits for nothing only if both of its timeouts are given and unusable.
LEMMA SpecUsable ==
  ASSUME NEW m \in RawMeasurement,
         Bad \notin {m.interval, m.packetTimeout, m.timeout, m.duration}
  PROVE  /\ SpecOf(m).type = m.type /\ SpecOf(m).padding = m.padding
         /\ SpecOf(m).interval <= 0 <=> NotPositive(m.interval)
         /\ Deaf(SpecOf(m)) <=>
              m.type = "twamp" /\ NotPositive(m.packetTimeout) /\ NotPositive(m.timeout)
<1>1. /\ m.interval \in Timing /\ m.packetTimeout \in Timing /\ m.timeout \in Timing
      /\ m.duration \in Timing /\ m.burst \in Int
  BY DEF RawMeasurement
<1> DEFINE s == SpecOf(m)
           p == DurationOf(m.packetTimeout, 5)
           t == DurationOf(m.timeout, 2)
           d == DurationOf(m.duration, 5)
           b == Positive(m.burst, 5)
           out == SpecTimeout(m)
<1>2. /\ s.type = m.type /\ s.padding = m.padding /\ s.burst = b /\ s.duration = d
      /\ s.timeout = out /\ s.interval = DurationOf(m.interval, 60)
  BY DEF SpecOf
<1>3. /\ p \in Int /\ t \in Int /\ d \in Int
      /\ (p <= 0 <=> NotPositive(m.packetTimeout)) /\ (t <= 0 <=> NotPositive(m.timeout))
      /\ (DurationOf(m.interval, 60) <= 0 <=> NotPositive(m.interval))
  BY <1>1, DurationUsable
<1>4. b \in Int /\ b > 0
  BY <1>1 DEF Positive
<1>5. out = IF m.type = "twamp" /\ p > 0 THEN p ELSE t
  BY DEF SpecTimeout
<1>6. Waits(s) = CASE m.type = "twamp" -> out
                   [] m.type = "bw"    -> Positive(d, 5)
                   [] OTHER            -> Positive(out, 2)
  BY <1>2 DEF Waits
<1>7. Deaf(s) <=> Waits(s) <= 0 \/ (m.type = "twamp" /\ b <= 0)
  BY <1>2 DEF Deaf
<1> HIDE DEF s, p, t, d, b, out
<1>8. out \in Int /\ Positive(out, 2) > 0 /\ Positive(d, 5) > 0
      /\ Positive(out, 2) \in Int /\ Positive(d, 5) \in Int
  <2>1. out \in Int
    BY <1>3, <1>5
  <2>2. Positive(out, 2) \in Int /\ Positive(out, 2) > 0
    BY <2>1 DEF Positive
  <2>3. Positive(d, 5) \in Int /\ Positive(d, 5) > 0
    BY <1>3 DEF Positive
  <2>4. QED
    BY <2>1, <2>2, <2>3
<1>9. CASE m.type = "twamp"
  <2>1. Waits(s) = out
    BY <1>6, <1>9
  <2>2. Deaf(s) <=> p <= 0 /\ t <= 0
    BY <1>3, <1>4, <1>5, <1>7, <1>9, <2>1
  <2>3. QED
    BY <1>2, <1>3, <1>9, <2>2 DEF s
<1>10. CASE m.type # "twamp"
  <2>1. Waits(s) \in Int /\ Waits(s) > 0
    <3>1. CASE m.type = "bw"
      <4>1. Waits(s) = Positive(d, 5)
        BY <1>6, <1>10, <3>1
      <4>2. QED
        BY <1>8, <4>1
    <3>2. CASE m.type # "bw"
      <4>1. Waits(s) = Positive(out, 2)
        BY <1>6, <1>10, <3>2
      <4>2. QED
        BY <1>8, <4>1
    <3>3. QED
      BY <3>1, <3>2
  <2>2. ~Deaf(s)
    BY <1>7, <1>10, <2>1
  <2>3. QED
    BY <1>2, <1>3, <1>10, <2>2 DEF s
<1>11. QED
  BY <1>9, <1>10

\* The measurement of a file that lists none.
LEMMA DefaultUsable ==
  ASSUME NEW raw, WellFormed(raw), Accepted(raw)
  PROVE  /\ DefaultSpec(raw).type = "twamp" /\ DefaultSpec(raw).padding >= 0
         /\ DefaultSpec(raw).padding \in Int
         /\ DefaultSpec(raw).interval <= 0 <=> NotPositive(raw.interval)
         /\ Deaf(DefaultSpec(raw)) <=> NotPositive(raw.packetTimeout)
<1> DEFINE s == DefaultSpec(raw)
<1>1. /\ raw.interval \in Timing /\ raw.packetTimeout \in Timing /\ raw.burst \in Int
      /\ raw.padding \in Int /\ raw.padding >= 0
      /\ raw.interval # Bad /\ raw.packetTimeout # Bad
  BY DEF WellFormed, Accepted, Durations
<1>2. /\ s.type = "twamp" /\ s.padding = raw.padding /\ s.burst = Positive(raw.burst, 5)
      /\ s.timeout = DurationOf(raw.packetTimeout, 5)
      /\ s.interval = DurationOf(raw.interval, 60)
  BY DEF DefaultSpec
<1> HIDE DEF s
<1>3. /\ DurationOf(raw.packetTimeout, 5) <= 0 <=> NotPositive(raw.packetTimeout)
      /\ DurationOf(raw.interval, 60) <= 0 <=> NotPositive(raw.interval)
  BY <1>1, DurationUsable
<1>4. s.burst \in Int /\ s.burst > 0
  BY <1>1, <1>2 DEF Positive
<1>5. Deaf(s) <=> s.timeout <= 0
  BY <1>2, <1>4 DEF Deaf, Waits
<1>6. QED
  BY <1>1, <1>2, <1>3, <1>5 DEF s

\* The measurements of an accepted file have durations that parse.
LEMMA MeasurementsParse ==
  ASSUME NEW raw, WellFormed(raw), Accepted(raw), NEW i \in DOMAIN raw.measurements
  PROVE  /\ raw.measurements[i] \in RawMeasurement
         /\ LET m == raw.measurements[i]
            IN Bad \notin {m.interval, m.packetTimeout, m.timeout, m.duration}
<1> DEFINE m == raw.measurements[i]
<1>1. m \in RawMeasurement /\ m \in ToSet(raw.measurements)
  BY DEF WellFormed, ToSet
<1>2. {m.interval, m.packetTimeout, m.timeout, m.duration} \subseteq Durations(raw)
  BY <1>1 DEF Durations
<1>3. QED
  BY <1>1, <1>2 DEF Accepted

\* The settings that the code cannot run with are those that an accepted file
\* spells out.
LEMMA AcceptedIsUsable ==
  ASSUME NEW raw, WellFormed(raw), Accepted(raw)
  PROVE  SettingsAreUsable(raw)
<1> DEFINE cfg == Parse(raw)
           ms == raw.measurements
           bad(m) == m.type \in Types /\ (NotPositive(m.interval) \/ (m.type = "twamp" /\ m.padding < 0))
           deaf(m) == m.type = "twamp" /\ NotPositive(m.packetTimeout) /\ NotPositive(m.timeout)
           stops(s) == s.type \in Types /\ (s.interval <= 0 \/ (s.type = "twamp" /\ s.padding < 0))
           none == ms = <<>>
<1>1. cfg.refresh <= 0 <=> NotPositive(raw.refresh)
  <2>1. raw.refresh \in Timing /\ raw.refresh # Bad
    BY DEF WellFormed, Accepted, Durations
  <2>2. cfg.refresh = DurationOf(raw.refresh, 300)
    BY DEF Parse
  <2>3. QED
    BY <2>1, <2>2, DurationUsable
<1>2. CASE none
  <2> DEFINE s == DefaultSpec(raw)
  <2>1. cfg.measurements = <<s>>
    BY <1>2 DEF Parse
  <2> HIDE DEF cfg, s
  <2>2. ToSet(cfg.measurements) = {s} /\ DOMAIN cfg.measurements = {1}
        /\ cfg.measurements[1] = s /\ ToSet(ms) = {}
    BY <1>2, <2>1 DEF ToSet
  <2>3. stops(s) <=> NotPositive(raw.interval)
    BY DefaultUsable DEF s, Types
  <2>4. Panics(cfg) <=> NotPositive(raw.refresh) \/ NotPositive(raw.interval)
    BY <1>1, <2>2, <2>3 DEF Panics
  <2>5. \A i \in DOMAIN cfg.measurements :
          Deaf(cfg.measurements[i]) <=> NotPositive(raw.packetTimeout)
    BY <2>2, DefaultUsable DEF s
  <2>6. QED
    BY <1>2, <2>2, <2>4, <2>5 DEF SettingsAreUsable, cfg
<1>3. CASE ~none
  <2>1. cfg.measurements = [i \in DOMAIN ms |-> SpecOf(ms[i])]
    BY <1>3 DEF Parse
  <2> HIDE DEF cfg
  <2>2. DOMAIN cfg.measurements = DOMAIN ms
        /\ \A i \in DOMAIN ms : cfg.measurements[i] = SpecOf(ms[i])
    BY <2>1
  <2>3. ASSUME NEW i \in DOMAIN ms
        PROVE  /\ stops(SpecOf(ms[i])) <=> bad(ms[i])
               /\ Deaf(SpecOf(ms[i])) <=> deaf(ms[i])
    <3> DEFINE m == ms[i]
    <3>1. m \in RawMeasurement /\ Bad \notin {m.interval, m.packetTimeout, m.timeout, m.duration}
      BY MeasurementsParse
    <3> HIDE DEF m
    <3>2. /\ SpecOf(m).type = m.type /\ SpecOf(m).padding = m.padding
          /\ SpecOf(m).interval <= 0 <=> NotPositive(m.interval)
          /\ Deaf(SpecOf(m)) <=> deaf(m)
      BY <3>1, SpecUsable
    <3>3. stops(SpecOf(m)) <=> bad(m)
      BY <3>2
    <3>4. QED
      BY <3>2, <3>3 DEF m
  <2>4. (\E s \in ToSet(cfg.measurements) : stops(s)) <=> (\E m \in ToSet(ms) : bad(m))
    <3> HIDE DEF stops, bad
    <3>1. QED
      BY <2>2, <2>3 DEF ToSet
  <2>5. Panics(cfg) <=> NotPositive(raw.refresh) \/ \E m \in ToSet(ms) : bad(m)
    BY <1>1, <2>4 DEF Panics
  <2>6. \A i \in DOMAIN cfg.measurements : Deaf(cfg.measurements[i]) <=> deaf(ms[i])
    BY <2>2, <2>3
  <2>7. QED
    BY <1>3, <2>5, <2>6 DEF SettingsAreUsable, cfg
<1>4. QED
  BY <1>2, <1>3

\* Of the settings of any file that parseAgentConfig accepts, a process can be
\* brought to its end or made deaf only by those that are spelled out as zero
\* or less: no default and no combination of absent ones is among them
\* (agent.go 160-315).
THEOREM SettingsUsable == Spec => []UsableSettings
<1>1. Settled => UsableSettings
  BY AcceptedIsUsable, FilesAssumption DEF Settled, UsableSettings
<1>2. QED
  BY <1>1, SettledKept, PTL DEF Spec

=============================================================================
