------------------------------ MODULE Bandwidth ------------------------------
(***************************************************************************)
(* One bandwidth measurement of bw.go at a time (BwMeasurer.Run): iperf3   *)
(* if it is wanted and installed, and after any failure of it the native   *)
(* test, a TCP stream to the BwServer of the target.  The caller owns the  *)
(* context; "gone" says that it has ended.                                 *)
(*                                                                         *)
(* Time is in ticks.  The throughput is abstracted: the result is the      *)
(* method that has measured it.                                            *)
(***************************************************************************)
EXTENDS Naturals

CONSTANTS
  Duration,  \* cfg.Duration
  Grace,     \* what iperf3 gets beyond it, 15 s in the code
  DialLimit, \* the timeout of the dial, 10 s in the code
  WithIperf3 \* cfg.PreferIperf3, and iperf3 is in the path

ASSUME BandwidthAssumption ==
  /\ Duration \in Nat \ {0}
  /\ Grace \in Nat /\ DialLimit \in Nat
  /\ WithIperf3 \in BOOLEAN

VARIABLES
  bwPc,   \* "idle", "iperf3", "dial" or "write"
  left,   \* the ticks to the deadline of the step
  spent,  \* the ticks since the measurement began
  late,   \* those of them after the end of the context
  conn,   \* its connection: "none", "queued" in the backlog of the
          \* listener, "served" by a goroutine of accept, or "reset"
  server, \* the BwServer of the target: "up" or "stopped"
  result  \* how it ended: "iperf3", "native" or "error"; else "none"

bandwidth == <<bwPc, left, spent, late, conn, server, result>>

BwInit ==
  /\ bwPc = "idle" /\ left = 0 /\ spent = 0 /\ late = 0
  /\ conn = "none" /\ server = "up" /\ result = "none"

MostSpent == Duration + Grace + DialLimit + Duration

(***************************************************************************)
(* Run, runIperf3 and runNative.                                           *)
(***************************************************************************)
Begin ==
  /\ bwPc = "idle" /\ result = "none"
  /\ IF WithIperf3
     THEN bwPc' = "iperf3" /\ left' = Duration + Grace
     ELSE bwPc' = "dial" /\ left' = DialLimit
  /\ spent' = 0 /\ late' = 0
  /\ UNCHANGED <<conn, server, result>>

Finish(how) ==
  /\ bwPc' = "idle" /\ left' = 0 /\ conn' = "none" /\ result' = how
  /\ UNCHANGED <<spent, late, server>>

Iperf3Ok == bwPc = "iperf3" /\ Finish("iperf3")

\* iperf3 fails, prints what is no JSON, or is killed: the native test follows.
Iperf3Fails ==
  /\ bwPc = "iperf3"
  /\ bwPc' = "dial" /\ left' = DialLimit
  /\ UNCHANGED <<spent, late, conn, server, result>>

\* The kernel of the target completes the connection before accept takes it.
DialOk(gone) ==
  /\ bwPc = "dial" /\ server = "up" /\ ~gone
  /\ conn' = "queued"
  /\ bwPc' = "write" /\ left' = Duration
  /\ UNCHANGED <<spent, late, server, result>>

DialFails == bwPc = "dial" /\ Finish("error")

\* The loop ends at its deadline or an error of Write, and either is a result.
WriteEnds == bwPc = "write" /\ (left = 0 \/ conn = "reset") /\ Finish("native")

\* Mutation: iperf3 runs under no context of its own.
TimeUpHangs(gone) == bwPc # "iperf3" /\ (left = 0 \/ (gone /\ bwPc = "dial"))

\* The deadline has come, or the context has ended; Write does not look at it.
TimeUp(gone) == left = 0 \/ (gone /\ bwPc \in {"iperf3", "dial"})

Expire(gone) == TimeUp(gone) /\ (Iperf3Fails \/ DialFails \/ WriteEnds)

BwStep(gone) == Iperf3Ok \/ Iperf3Fails \/ DialOk(gone) \/ DialFails \/ WriteEnds

\* The caller takes the result.
Take ==
  /\ result # "none" /\ result' = "none"
  /\ spent' = 0 /\ late' = 0
  /\ UNCHANGED <<bwPc, left, conn, server>>

(***************************************************************************)
(* The clock, and the target: its BwServer, or whatever has the port.      *)
(***************************************************************************)
\* Counting goes on to the first value that is out of bounds.
Counted(n) == IF n > MostSpent THEN n ELSE n + 1

Tick(gone) ==
  /\ bwPc # "idle" /\ ~TimeUp(gone)
  /\ left' = IF left > 0 THEN left - 1 ELSE 0
  /\ spent' = Counted(spent)
  /\ late' = IF gone THEN Counted(late) ELSE late
  /\ UNCHANGED <<bwPc, conn, server, result>>

Accept ==
  /\ conn = "queued" /\ server = "up" /\ conn' = "served"
  /\ UNCHANGED <<bwPc, left, spent, late, server, result>>

\* Stop closes the listener: what is queued is reset, what is served goes on.
Stop ==
  /\ server = "up" /\ server' = "stopped"
  /\ conn' = IF conn = "queued" THEN "reset" ELSE conn
  /\ UNCHANGED <<bwPc, left, spent, late, result>>

\* The process of the target ends, or is an iperf3 server that hangs up.
PeerResets ==
  /\ conn \in {"queued", "served"} /\ conn' = "reset"
  /\ UNCHANGED <<bwPc, left, spent, late, server, result>>

Target == Accept \/ Stop \/ PeerResets

(***************************************************************************)
(* The property.                                                           *)
(***************************************************************************)

\* A measurement has an end whatever the target does, also when it is a
\* BwServer that iperf3 talks to in vain; once the caller has gone it goes on
\* for the native test at most (bw.go 57-78, 119-126).
BandwidthBounded == spent <= MostSpent /\ late <= Duration

=============================================================================
