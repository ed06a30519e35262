------------------------------ MODULE ScrapeMode ------------------------------
(***************************************************************************)
(* The scrape mode of exporter.go: each GET /metrics runs the measurers on *)
(* the targets of the current configuration, updates the gauges of         *)
(* PrometheusStore (prom.go) and serves them.  net/http runs every request *)
(* in a goroutine; scrapeMu lets one at a time measure and serve.          *)
(*                                                                         *)
(* A configuration is the file it was parsed from, and its plan the pairs  *)
(* of measurement and target in the order of the loops.  A gauge is a      *)
(* field of a target, registered when it is first set, and shows the       *)
(* number of the request whose result has set it.                          *)
(***************************************************************************)
EXTENDS Bandwidth, AgentConfig

CONSTANTS
  Scrapes, \* the requests: a set of numbers from 1
  Host,    \* hostname
  Files,   \* the files the process may start with
  Scraped  \* bound: those that scrapes go by, accepted and harmless, in the
           \* order in which they replace each other

\* fetchConfig takes files that are accepted only.
ASSUME FilesAssumption ==
  /\ \A f \in Files : WellFormed(f)
  /\ Scraped \in Seq(Files)
  /\ \A i \in 1 .. Len(Scraped) : Accepted(Scraped[i])

Known(m) == m.type \in Types

\* The loops over the measurements of a known type and their targets.
Plan(file) ==
  LET cfg == Parse(file)
      steps(m) == LET ts == ResolveTargets(cfg, Host, m)
                  IN [i \in DOMAIN ts |-> <<m.type, ts[i]>>]
      ms == SelectSeq(cfg.measurements, Known)
  IN FlattenSeq([i \in DOMAIN ms |-> steps(ms[i])])

\* The sets of fields a result may have; the empty one is an error, a result
\* that hide_skipped hides, or a dns measurement without resolvers or names.
FieldSets(type) ==
  CASE type = "twamp" -> {{"loss"}, {"loss", "rtt"}}
    [] type = "dns"   -> {{}, {"dns"}}
    [] OTHER          -> {{}, {type}}

BwFields == [iperf3 |-> {"tx", "rx"}, native |-> {"tx"}, error |-> {}]

VARIABLES
  current,  \* currentCfg
  hPc,      \* each request: "none", "lock", "run", "serve", "replied" or "cut"
  todo,     \* what it has still to measure
  departed, \* the requests whose client has gone: r.Context has ended
  gauges,
  own,      \* the gauges each request has set
  reply,    \* the gauges it was answered with
  phase     \* "start", "up", "draining" from the signal, or "exited"

requests == <<hPc, todo, departed>>
answers == <<gauges, own, reply>>
vars == <<current, requests, answers, phase, bandwidth>>

NoGauges == <<>>

Init ==
  /\ BwInit
  /\ current \in Files /\ phase = "start"
  /\ hPc = [h \in Scrapes |-> "none"]
  /\ todo = [h \in Scrapes |-> <<>>] /\ departed = {}
  /\ gauges = NoGauges /\ own = [h \in Scrapes |-> {}]
  /\ reply = [h \in Scrapes |-> NoGauges]

Go(h, where) == hPc' = [hPc EXCEPT ![h] = where]

\* Mutation: the mutex guards the answer only.
LockedServing == \E h \in Scrapes : hPc[h] = "serve"

Locked == \E h \in Scrapes : hPc[h] \in {"run", "serve"}

(***************************************************************************)
(* The poller's refresh, and the clients.                                  *)
(***************************************************************************)

\* runExporter: a file that is not accepted, or an interval of its refresh that
\* the poller cannot run with, ends the process.
Start ==
  /\ phase = "start"
  /\ phase' = IF Accepted(current) /\ Parse(current).refresh > 0 THEN "up" ELSE "exited"
  /\ UNCHANGED <<current, requests, answers, bandwidth>>

Refresh ==
  /\ phase = "up"
  /\ \E i \in 2 .. Len(Scraped) : current = Scraped[i - 1] /\ current' = Scraped[i]
  /\ UNCHANGED <<requests, answers, phase, bandwidth>>

Request(h) ==
  /\ phase = "up" /\ current \in ToSet(Scraped) /\ hPc[h] = "none" /\ Go(h, "lock")
  /\ UNCHANGED <<current, todo, departed, answers, phase, bandwidth>>

Leave(h) ==
  /\ hPc[h] \in {"lock", "run"} /\ h \notin departed
  /\ departed' = departed \cup {h}
  /\ UNCHANGED <<current, hPc, todo, answers, phase, bandwidth>>

(***************************************************************************)
(* The handler.                                                            *)
(***************************************************************************)

\* scrapeMu.Lock, in turn even for a client that has gone; then currentCfg.
Lock(h) ==
  /\ hPc[h] = "lock" /\ ~Locked
  /\ Go(h, "run")
  /\ todo' = [todo EXCEPT ![h] = Plan(current)]
  /\ UNCHANGED <<current, departed, answers, phase, bandwidth>>

Turn(h, types) == hPc[h] = "run" /\ todo[h] # <<>> /\ Head(todo[h])[1] \in types

\* UpdateResult: the gauges of the fields given are registered and set, and no
\* others.
UpdateResult(h, fields) ==
  LET set == fields \X {Head(todo[h])[2]} IN
    /\ gauges' = [m \in DOMAIN gauges \cup set |-> IF m \in set THEN h ELSE gauges[m]]
    /\ own' = [own EXCEPT ![h] = @ \cup set]
    /\ todo' = [todo EXCEPT ![h] = Tail(@)]
    /\ UNCHANGED <<current, hPc, departed, reply, phase>>

\* m.Run of all measurers but bandwidth.
Measure(h) ==
  /\ Turn(h, Types \ {"bw"})
  /\ \E fields \in FieldSets(Head(todo[h])[1]) : UpdateResult(h, fields)
  /\ UNCHANGED bandwidth

BwBegin(h) ==
  /\ Turn(h, {"bw"}) /\ Begin
  /\ UNCHANGED <<current, requests, answers, phase>>

\* Mutation: an error returns with the mutex held.
BwDoneReturns(h) ==
  Turn(h, {"bw"}) /\ result # "error" /\ Take /\ UpdateResult(h, BwFields[result])

BwDone(h) == Turn(h, {"bw"}) /\ Take /\ UpdateResult(h, BwFields[result])

\* Everything was measured: origHandler.ServeHTTP gathers the gauges.
Gather(h) ==
  /\ hPc[h] = "run" /\ todo[h] = <<>>
  /\ reply' = [reply EXCEPT ![h] = gauges]
  /\ Go(h, "serve")
  /\ UNCHANGED <<current, todo, departed, gauges, own, phase, bandwidth>>

\* The reply is written, to a client that may have gone, and the lock released.
Unlock(h) ==
  /\ hPc[h] = "serve" /\ Go(h, "replied")
  /\ UNCHANGED <<current, todo, departed, answers, phase, bandwidth>>

(***************************************************************************)
(* The measurement under way, and the shutdown.                            *)
(***************************************************************************)
Gone == \E h \in departed : hPc[h] = "run"
Measuring(step) == step /\ UNCHANGED <<current, requests, answers, phase>>

\* The signal: cancel and srv.Shutdown, which lets no new request in.
Signal ==
  /\ phase = "up" /\ phase' = "draining"
  /\ UNCHANGED <<current, requests, answers, bandwidth>>

\* The requests have been answered or five seconds have passed, and the other
\* goroutines have ended: the process exits, and cuts what is under way.
Exit ==
  /\ phase = "draining" /\ phase' = "exited"
  /\ hPc' = [h \in Scrapes |-> IF hPc[h] = "replied" THEN "replied" ELSE "cut"]
  /\ bwPc' = "idle" /\ result' = "none" /\ conn' = "none"
  /\ left' = 0 /\ spent' = 0 /\ late' = 0
  /\ UNCHANGED <<current, todo, departed, answers, server>>

Terminated == phase = "exited" /\ UNCHANGED vars

Handle(h) == Lock(h) \/ Measure(h) \/ BwBegin(h) \/ BwDone(h) \/ Gather(h) \/ Unlock(h)

Next ==
  \/ Start \/ Refresh \/ Signal \/ Exit \/ Terminated
  \/ \E h \in Scrapes : Request(h) \/ Leave(h) \/ Handle(h)
  \/ Measuring(BwStep(Gone) \/ Target \/ Tick(Gone))

Spec == Init /\ [][Next]_vars

\* A mutex serves its waiters in turn, the goroutines run, the clock does not
\* stop and deadlines are kept; iperf3 and the network owe nothing.
FairSpec ==
  /\ Spec
  /\ \A h \in Scrapes : SF_vars(Lock(h)) /\ WF_vars(Handle(h))
  /\ WF_vars(Measuring(Expire(Gone))) /\ WF_vars(Measuring(Tick(Gone)))

(***************************************************************************)
(* Properties.                                                             *)
(***************************************************************************)

\* A reply shows for all that its request has measured, in so far as there was
\* a result, the results of this request: not those of one before it, nor of
\* one that waits, whatever clients leave and configurations come
\* (exporter.go 210-241).
OwnResults ==
  \A h \in Scrapes :
    hPc[h] \in {"serve", "replied"} =>
      \A m \in own[h] : m \in DOMAIN reply[h] /\ reply[h][m] = h

\* A process that runs has settings it can use, or a file that spells out the
\* ones it cannot (agent.go 160-315).
UsableSettings == phase = "up" => SettingsAreUsable(current)

\* A process that runs with a star probes as the README of the code says
\* (README.md 405); it does not (agent.go 739-761).
HubSpokeAsDocumented == phase = "up" => StarProbes(current)

\* Every scrape is answered, however many are waiting, whatever the targets do
\* and whoever has gone, if the process lives (exporter.go 210-212).
ScrapeAnswered ==
  \A h \in Scrapes : hPc[h] = "lock" ~> hPc[h] \in {"replied", "cut"}

=============================================================================
