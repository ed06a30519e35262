------------------------------ MODULE Reflector ------------------------------
(***************************************************************************)
(* The TWAMP-Light reflector of main.go: a serve loop for each socket      *)
(* (IPv4 and IPv6), the token buckets and the semaphore they share, a      *)
(* goroutine for each packet that is let in, and the shutdown by a signal. *)
(*                                                                         *)
(* Packets are numbered as they are read.  The clock ticks once for every  *)
(* token a bucket earns, 1/Rate of a second; a fraction of a token is      *)
(* abstracted.                                                             *)
(***************************************************************************)
EXTENDS Naturals, Sequences, FiniteSets, FiniteSetsExt

CONSTANTS
  Conns,         \* the sockets
  Sources,       \* the addresses packets come from
  Denied,        \* those outside the allowlist
  Rate,          \* tokens per second and depth of a bucket; 0 is unlimited
  MaxConcurrent, \* maxConcurrentPackets, 100 in the code
  MaxPackets,    \* bound: packets read
  MaxTime,       \* bound: the clock
  MaxSignals     \* bound: SIGINT and SIGTERM received

ASSUME ReflectorAssumption ==
  /\ IsFiniteSet(Conns) /\ Conns # {} /\ Denied \subseteq Sources
  /\ Rate \in Nat
  /\ MaxConcurrent \in Nat \ {0}
  /\ MaxPackets \in Nat /\ MaxTime \in Nat /\ MaxSignals \in Nat

Packets == 1 .. MaxPackets

VARIABLES
  now,
  lPc,       \* each serve loop: "select", "read", "enter", "wait" or "exited"
  lPkt,      \* the packet a loop has in hand
  read,      \* how many packets were read
  from,      \* the socket each packet came from
  bucket,    \* the token bucket of each source: its tokens and lastFill
  admitted,  \* the packets let in: their source and time
  slots,     \* the slots of the semaphore that are taken
  running,   \* s.wg: handlers that have not called Done
  hPc,       \* each handler: "none", "start", "write", "count" or "done"
  hSeq,      \* the sequence number it took
  seqNumber, reflected,
  replies,   \* the replies sent: packet and sequence number
  notified,  \* the sockets whose goroutine has called signal.Notify
  signalled, \* those whose goroutine has got a signal
  signals,   \* how many signals came
  cancelled, \* s.ctx
  open       \* the sockets not closed

loops == <<lPc, lPkt, read, from>>
limiter == <<now, bucket, admitted>>
handlers == <<slots, running, hPc, hSeq, seqNumber, reflected, replies>>
shutdown == <<notified, signalled, signals, cancelled, open>>
vars == <<loops, limiter, handlers, shutdown>>

Init ==
  /\ now = 0
  /\ lPc = [c \in Conns |-> "select"] /\ lPkt = [c \in Conns |-> 0]
  /\ read = 0 /\ from = [p \in Packets |-> CHOOSE c \in Conns : TRUE]
  \* a source that was never heard of gets a full bucket
  /\ bucket = [s \in Sources |-> [tokens |-> Rate, lastFill |-> 0]]
  /\ admitted = <<>>
  /\ slots = 0 /\ running = 0
  /\ hPc = [p \in Packets |-> "none"] /\ hSeq = [p \in Packets |-> 0]
  /\ seqNumber = 0 /\ reflected = 0 /\ replies = {}
  /\ notified = {} /\ signalled = {} /\ signals = 0
  /\ cancelled = FALSE /\ open = Conns

(***************************************************************************)
(* rateLimiter.allow.                                                      *)
(***************************************************************************)

\* Mutation: the bucket is not capped.
FilledUncapped(s) == bucket[s].tokens + (now - bucket[s].lastFill)

\* The tokens after the refill, no more than the bucket holds.
Filled(s) == Min({bucket[s].tokens + (now - bucket[s].lastFill), Rate})

Allowed(s) == Rate = 0 \/ Filled(s) >= 1

Refill(s) ==
  bucket' =
    IF Rate = 0 THEN bucket
    ELSE [bucket EXCEPT ![s] =
            [tokens |-> IF Filled(s) >= 1 THEN Filled(s) - 1 ELSE Filled(s),
             lastFill |-> now]]

(***************************************************************************)
(* serve.                                                                  *)
(***************************************************************************)
Goto(c, where) == lPc' = [lPc EXCEPT ![c] = where]

\* The top of the loop: ctx.Done, or else the next read.
Select(c) ==
  /\ lPc[c] = "select"
  /\ Goto(c, IF cancelled THEN "wait" ELSE "read")
  /\ UNCHANGED <<lPkt, read, from, limiter, handlers, shutdown>>

\* The read deadline of one second passes.
ReadTimeout(c) ==
  /\ lPc[c] = "read" /\ c \in open
  /\ Goto(c, "select")
  /\ UNCHANGED <<lPkt, read, from, limiter, handlers, shutdown>>

\* A packet is read, also when the context ends during the read.
Read(c, s) ==
  /\ lPc[c] = "read" /\ c \in open /\ read < MaxPackets
  /\ read' = read + 1
  /\ from' = [from EXCEPT ![read'] = c]
  /\ \/ \* not in the allowlist
        /\ s \in Denied
        /\ Goto(c, "select")
        /\ UNCHANGED <<lPkt, bucket, admitted>>
     \/ \* rate-limited
        /\ s \notin Denied /\ ~Allowed(s)
        /\ Refill(s)
        /\ Goto(c, "select")
        /\ UNCHANGED <<lPkt, admitted>>
     \/ /\ s \notin Denied /\ Allowed(s)
        /\ Refill(s)
        /\ admitted' = Append(admitted, [src |-> s, at |-> now])
        /\ lPkt' = [lPkt EXCEPT ![c] = read']
        /\ Goto(c, "enter")
  /\ UNCHANGED <<now, handlers, shutdown>>

\* Mutation: the loop does not wait for a slot.
EnterAtOnce(c) ==
  /\ lPc[c] = "enter"
  /\ slots' = slots + 1 /\ running' = running + 1
  /\ hPc' = [hPc EXCEPT ![lPkt[c]] = "start"]
  /\ Goto(c, "select")
  /\ UNCHANGED <<lPkt, read, from, limiter, hSeq, seqNumber, reflected, replies,
                 shutdown>>

\* s.semaphore <- struct{}{}, which waits for a slot; then wg.Add and go.
Enter(c) ==
  /\ lPc[c] = "enter" /\ slots < MaxConcurrent
  /\ slots' = slots + 1 /\ running' = running + 1
  /\ hPc' = [hPc EXCEPT ![lPkt[c]] = "start"]
  /\ Goto(c, "select")
  /\ UNCHANGED <<lPkt, read, from, limiter, hSeq, seqNumber, reflected, replies,
                 shutdown>>

WaitDone(c) ==
  /\ lPc[c] = "wait" /\ running = 0
  /\ Goto(c, "exited")
  /\ UNCHANGED <<lPkt, read, from, limiter, handlers, shutdown>>

\* The read of a closed socket fails after s.ctx was cancelled: the loop
\* returns without waiting.
ReadClosed(c) ==
  /\ lPc[c] = "read" /\ c \notin open
  /\ Goto(c, "exited")
  /\ UNCHANGED <<lPkt, read, from, limiter, handlers, shutdown>>

(***************************************************************************)
(* handleTestPacket.                                                       *)
(***************************************************************************)
Step(p, where) == hPc' = [hPc EXCEPT ![p] = where]

\* The deferred calls.
Release(p) == Step(p, "done") /\ slots' = slots - 1 /\ running' = running - 1

\* Mutation: an early return keeps the slot.
InvalidLeaks(p) ==
  /\ hPc[p] = "start"
  /\ Step(p, "done") /\ running' = running - 1
  /\ UNCHANGED <<loops, limiter, slots, hSeq, seqNumber, reflected, replies, shutdown>>

\* UnmarshalBinary fails.
Invalid(p) ==
  /\ hPc[p] = "start"
  /\ Release(p)
  /\ UNCHANGED <<loops, limiter, hSeq, seqNumber, reflected, replies, shutdown>>

\* The increment under seqMu.
TakeSeq(p) ==
  /\ hPc[p] = "start"
  /\ seqNumber' = seqNumber + 1
  /\ hSeq' = [hSeq EXCEPT ![p] = seqNumber']
  /\ Step(p, "write")
  /\ UNCHANGED <<loops, limiter, slots, running, reflected, replies, shutdown>>

WriteOk(p) ==
  /\ hPc[p] = "write" /\ from[p] \in open
  /\ replies' = replies \cup {<<p, hSeq[p]>>}
  /\ Step(p, "count")
  /\ UNCHANGED <<loops, limiter, slots, running, hSeq, seqNumber, reflected, shutdown>>

\* Mutation: a reply that was not sent is counted.
WriteFailCounts(p) ==
  /\ hPc[p] = "write"
  /\ Step(p, "count")
  /\ UNCHANGED <<loops, limiter, slots, running, hSeq, seqNumber, reflected, replies,
                 shutdown>>

\* WriteToUDP fails, on a closed socket always.
WriteFail(p) ==
  /\ hPc[p] = "write"
  /\ Release(p)
  /\ UNCHANGED <<loops, limiter, hSeq, seqNumber, reflected, replies, shutdown>>

\* reflectedPackets.Add(1) and onReflect.
Count(p) ==
  /\ hPc[p] = "count"
  /\ reflected' = reflected + 1
  /\ Release(p)
  /\ UNCHANGED <<loops, limiter, hSeq, seqNumber, replies, shutdown>>

(***************************************************************************)
(* The clock, and platformHandleShutdown for each serve loop.              *)
(***************************************************************************)
Tick ==
  /\ now < MaxTime /\ now' = now + 1
  /\ UNCHANGED <<loops, bucket, admitted, handlers, shutdown>>

\* The goroutine of a socket asks for the signals.
Notify(c) ==
  /\ c \notin notified /\ notified' = notified \cup {c}
  /\ UNCHANGED <<loops, limiter, handlers, signalled, signals, cancelled, open>>

\* A signal goes to the goroutines that have asked for it; if none has, it is
\* the business of runAgent or runExporter, or ends the process.
Signal ==
  /\ signals < MaxSignals /\ signals' = signals + 1
  /\ signalled' = signalled \cup notified
  /\ UNCHANGED <<loops, limiter, handlers, notified, cancelled, open>>

\* Mutation: the context is cancelled for the socket of Start only.
CancelServerLast ==
  /\ signalled = Conns /\ ~cancelled
  /\ cancelled' = TRUE
  /\ UNCHANGED <<loops, limiter, handlers, notified, signalled, signals, open>>

\* s.cancel(), then conn.Close() of its own socket.
CancelServer ==
  /\ signalled # {} /\ ~cancelled
  /\ cancelled' = TRUE
  /\ UNCHANGED <<loops, limiter, handlers, notified, signalled, signals, open>>

CloseConn(c) ==
  /\ cancelled /\ c \in signalled \cap open
  /\ open' = open \ {c}
  /\ UNCHANGED <<loops, limiter, handlers, notified, signalled, signals, cancelled>>

LoopStep(c) == Select(c) \/ ReadTimeout(c) \/ WaitDone(c) \/ ReadClosed(c)
HandlerStep(p) == Invalid(p) \/ TakeSeq(p) \/ WriteOk(p) \/ WriteFail(p) \/ Count(p)
ShutdownStep == CancelServer \/ \E c \in Conns : CloseConn(c)

AllExited == \A c \in Conns : lPc[c] = "exited"
Terminated == AllExited /\ running = 0 /\ UNCHANGED vars

Next ==
  \/ \E c \in Conns :
       \/ \E s \in Sources : Read(c, s)
       \/ Enter(c) \/ LoopStep(c)
  \/ \E p \in Packets : HandlerStep(p)
  \/ \E c \in Conns : Notify(c)
  \/ Tick \/ Signal \/ ShutdownStep \/ Terminated

Spec == Init /\ [][Next]_vars

\* Goroutines run, and a read returns within its deadline of a second, so the
\* loop comes back to its select.  A channel serves its senders in turn.
FairSpec ==
  /\ Spec
  /\ \A c \in Conns : SF_vars(Enter(c)) /\ WF_vars(LoopStep(c))
  /\ \A p \in Packets : WF_vars(HandlerStep(p))
  /\ WF_vars(ShutdownStep)

(***************************************************************************)
(* Properties.                                                             *)
(***************************************************************************)

\* Every variable has its type.
TypeOK ==
  /\ now \in 0 .. MaxTime
  /\ lPc \in [Conns -> {"select", "read", "enter", "wait", "exited"}]
  /\ lPkt \in [Conns -> 0 .. MaxPackets]
  /\ read \in 0 .. MaxPackets /\ from \in [Packets -> Conns]
  /\ bucket \in [Sources -> [tokens : 0 .. Rate, lastFill : 0 .. MaxTime]]
  /\ Len(admitted) <= read
  /\ slots \in 0 .. MaxConcurrent /\ running \in 0 .. MaxConcurrent
  /\ hPc \in [Packets -> {"none", "start", "write", "count", "done"}]
  /\ hSeq \in [Packets -> 0 .. MaxPackets]
  /\ seqNumber \in 0 .. MaxPackets /\ reflected \in 0 .. MaxPackets
  /\ replies \subseteq Packets \X Packets
  /\ notified \subseteq Conns /\ signalled \subseteq notified
  /\ signals \in 0 .. MaxSignals /\ cancelled \in BOOLEAN /\ open \subseteq Conns

\* The packets of one source let in from the i-th to the j-th.
Between(i, j) == {k \in i .. j : admitted[k].src = admitted[i].src}

\* The token bucket: in a time t no source gets more than Rate + t packets in,
\* whichever socket they come to (main.go 233-259).
RateConforms ==
  Rate > 0 =>
    \A i, j \in 1 .. Len(admitted) :
      i <= j => Cardinality(Between(i, j)) <= Rate + (admitted[j].at - admitted[i].at)

\* The counter that is exported is the number of replies, but for those a
\* handler has sent and not yet counted (main.go 451-458).
ReflectedCounted ==
  reflected + Cardinality({p \in Packets : hPc[p] = "count"}) = Cardinality(replies)

\* A loop that waits for a slot gets one, whatever becomes of the packets that
\* hold them (main.go 415-425).
SlotReturns == \A c \in Conns : lPc[c] = "enter" ~> lPc[c] # "enter"

\* A signal that has reached the goroutine of one socket ends both serve loops,
\* the one whose goroutine had not asked for signals yet as well, although
\* they wait for each other's handlers (platform_unix.go 15-22, main.go 371-398).
ShutdownEnds == signalled # {} ~> AllExited

=============================================================================
