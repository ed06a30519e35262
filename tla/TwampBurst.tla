----------------------------- MODULE TwampBurst -----------------------------
(***************************************************************************)
(* One burst of the TWAMP-Light session-sender: Client.runBurst and        *)
(* Client.Run of main.go.  A sender loop and a receiver goroutine share    *)
(* the map `pending` (under pendingMu) and the channel `results`, whose    *)
(* capacity is the number of packets; nobody drains the channel before the *)
(* receiver has ended.  A read deadline is the receiver's only clock.      *)
(*                                                                         *)
(* Time is discrete.  A step of a goroutine takes no time: Tick is enabled *)
(* only while both goroutines wait.  No absolute clock is kept, only what  *)
(* is left of a sleep and of the read deadline, and the age of a packet.   *)
(***************************************************************************)
EXTENDS Integers, FiniteSets

CONSTANTS
  Count,        \* c.count, the packets of the burst
  Interval,     \* c.interval, in ticks
  Timeout,      \* c.timeout, in ticks
  MaxWrite,     \* the ticks one WriteToUDP may block
  MaxCopies,    \* the copies of one reply the network may deliver
  MaxJunk,      \* the stray datagrams that may reach the socket
  SocketErrors, \* whether a write, or a read, may fail outright
  TwoPhase      \* TRUE: Run, which releases pendingMu before it expires

ASSUME BurstAssumption ==
  /\ Count \in Nat \ {0}
  /\ Interval \in Nat
  /\ Timeout \in Nat \ {0}
  /\ MaxWrite \in 0 .. 2 * Timeout + 1
  /\ MaxCopies \in Nat
  /\ MaxJunk \in Nat
  /\ SocketErrors \in BOOLEAN
  /\ TwoPhase \in BOOLEAN

Seqs == 1 .. Count
Expired == 2 * Timeout + 1      \* the age at which the age stops growing
Kinds == {"rtt", "timeout", "sendfail"}

VARIABLES
  sPc,       \* where the sender loop is
  seq,       \* the packet the sender works on, i + 1 in the code
  sleep,     \* what is left of time.Sleep(c.interval)
  rPc,       \* where the receiver goroutine is
  deadline,  \* what is left of the read deadline
  reply,     \* the sequence number of the reply the receiver works on
  pending,   \* the keys of the map pending
  age,       \* time.Since(sentAt) of each packet
  inFlight,  \* the copies of each reply the network still holds
  junk,      \* the stray datagrams still to come
  results    \* the contents of the channel results

sender == <<sPc, seq, sleep>>
receiver == <<rPc, deadline, reply>>
network == <<inFlight, junk>>
vars == <<sPc, seq, sleep, rPc, deadline, reply, pending, age, inFlight,
          junk, results>>

Init ==
  /\ sPc = "setup" /\ seq = 1 /\ sleep = 0
  /\ rPc = "idle" /\ deadline = 0 /\ reply = 1
  /\ pending = {}
  /\ age = [s \in Seqs |-> 0]
  /\ inFlight = [s \in Seqs |-> 0]
  /\ junk = MaxJunk
  /\ results = {}

LockFree == rPc # "expire"
Full == Cardinality(results) >= Count

(***************************************************************************)
(* The sender loop.                                                        *)
(***************************************************************************)

\* resolveHost or ListenUDP fails: runBurst returns nil, 0.
SetupFail ==
  /\ sPc = "setup"
  /\ sPc' = "returned"
  /\ UNCHANGED <<seq, sleep, receiver, pending, age, network, results>>

\* The socket is open and the receiver is started; it arms its deadline.
Setup ==
  /\ sPc = "setup"
  /\ sPc' = "register"
  /\ rPc' = "read"
  /\ deadline' = Timeout
  /\ UNCHANGED <<seq, sleep, reply, pending, age, network, results>>

\* Mutation: the packet is written without an entry in pending.
RegisterNothing ==
  /\ sPc = "register" /\ LockFree
  /\ sPc' = "write"
  /\ UNCHANGED <<seq, sleep, receiver, pending, age, network, results>>

\* The packet is entered into pending before it is written.
Register ==
  /\ sPc = "register" /\ LockFree
  /\ pending' = pending \cup {seq}
  /\ age' = [age EXCEPT ![seq] = 0]
  /\ sPc' = "write"
  /\ UNCHANGED <<seq, sleep, receiver, network, results>>

\* Mutation: one packet too many.
NextPacketAlways ==
  sPc' = "sleep" /\ sleep' = Interval

\* After a packet: sleep, except after the last one.
NextPacket ==
  \/ /\ seq < Count
     /\ sPc' = "sleep" /\ sleep' = Interval
  \/ /\ seq = Count
     /\ sPc' = "wait" /\ UNCHANGED sleep

\* WriteToUDP succeeds; the network loses the packet or its reply (0
\* copies), or holds the reply once or more.
WriteOk ==
  /\ sPc = "write"
  /\ \E copies \in 0 .. MaxCopies :
        inFlight' = [inFlight EXCEPT ![seq] = copies]
  /\ NextPacket
  /\ UNCHANGED <<seq, receiver, pending, age, junk, results>>

\* WriteToUDP fails.
WriteFail ==
  /\ sPc = "write" /\ SocketErrors
  /\ sPc' = "drop"
  /\ UNCHANGED <<seq, sleep, receiver, pending, age, network, results>>

\* Mutation: the entry of a failed write stays in pending.
DropNothing ==
  /\ sPc = "drop" /\ LockFree
  /\ sPc' = "report"
  /\ UNCHANGED <<seq, sleep, receiver, pending, age, network, results>>

\* delete(pending, seq), whether or not the entry is still there.
DropPending ==
  /\ sPc = "drop" /\ LockFree
  /\ pending' = pending \ {seq}
  /\ sPc' = "report"
  /\ UNCHANGED <<seq, sleep, receiver, age, network, results>>

\* results <- "send failed": blocks while the channel is full.
ReportFail ==
  /\ sPc = "report" /\ ~Full
  /\ results' = results \cup {<<seq, "sendfail">>}
  /\ NextPacket
  /\ UNCHANGED <<seq, receiver, pending, age, network>>

Wake ==
  /\ sPc = "sleep" /\ sleep = 0
  /\ sPc' = "register"
  /\ seq' = seq + 1
  /\ UNCHANGED <<sleep, receiver, pending, age, network, results>>

\* Mutation: the sender does not wait for the receiver.
ReturnEarly ==
  /\ sPc = "wait"
  /\ sPc' = "returned"
  /\ UNCHANGED <<seq, sleep, receiver, pending, age, network, results>>

\* <-recvDone; then the channel is closed and collected.
Return ==
  /\ sPc = "wait" /\ rPc = "done"
  /\ sPc' = "returned"
  /\ UNCHANGED <<seq, sleep, receiver, pending, age, network, results>>

(***************************************************************************)
(* The receiver goroutine.                                                 *)
(***************************************************************************)

\* The top of the receive loop: a new deadline, then ReadFromUDP.
ReadAgain == rPc' = "read" /\ deadline' = Timeout

\* A reply is read.
RecvReply ==
  /\ rPc = "read"
  /\ \E s \in Seqs :
        /\ inFlight[s] > 0
        /\ inFlight' = [inFlight EXCEPT ![s] = @ - 1]
        /\ reply' = s
  /\ rPc' = "match"
  /\ UNCHANGED <<sender, deadline, pending, age, junk, results>>

\* A datagram that is no reply is read and ignored.
RecvJunk ==
  /\ rPc = "read" /\ junk > 0
  /\ junk' = junk - 1
  /\ ReadAgain
  /\ UNCHANGED <<sender, reply, pending, age, inFlight, results>>

\* Mutation: the matched entry stays in pending.
MatchKeeps ==
  /\ rPc = "match"
  /\ \/ reply \in pending /\ rPc' = "push" /\ UNCHANGED deadline
     \/ reply \notin pending /\ ReadAgain
  /\ UNCHANGED <<sender, reply, pending, age, network, results>>

\* The reply is looked up in pending, and its entry deleted, in one
\* critical section; an unknown sequence number is ignored.
Match ==
  /\ rPc = "match"
  /\ \/ /\ reply \in pending
        /\ pending' = pending \ {reply}
        /\ rPc' = "push" /\ UNCHANGED deadline
     \/ /\ reply \notin pending
        /\ ReadAgain /\ UNCHANGED pending
  /\ UNCHANGED <<sender, reply, age, network, results>>

\* results <- rtt: blocks while the channel is full.
Push ==
  /\ rPc = "push" /\ ~Full
  /\ results' = results \cup {<<reply, "rtt">>}
  /\ ReadAgain
  /\ UNCHANGED <<sender, reply, pending, age, network>>

\* Mutation: an expired deadline only starts the next read.
RecvTimeoutNoExpiry ==
  /\ rPc = "read" /\ deadline = 0
  /\ \/ pending = {} /\ rPc' = "done" /\ UNCHANGED deadline
     \/ pending # {} /\ ReadAgain
  /\ UNCHANGED <<sender, reply, pending, age, network, results>>

\* The deadline passes.  runBurst takes the lock once; Run first looks
\* whether anything is pending, releases the lock and takes it again.
RecvTimeout ==
  /\ rPc = "read" /\ deadline = 0
  /\ \/ ~TwoPhase /\ rPc' = "expire"
     \/ TwoPhase /\ pending = {} /\ rPc' = "done"
     \/ TwoPhase /\ pending # {} /\ rPc' = "relock"
  /\ UNCHANGED <<sender, deadline, reply, pending, age, network, results>>

Relock ==
  /\ rPc = "relock"
  /\ rPc' = "expire"
  /\ UNCHANGED <<sender, deadline, reply, pending, age, network, results>>

\* Mutation: every timeout expires everything.
StaleAtOnce == pending

\* The entries older than twice the timeout.
Stale == {s \in pending : age[s] > 2 * Timeout}

\* One iteration of the expiry loop, which holds the lock while it sends.
ExpireOne ==
  /\ rPc = "expire" /\ ~Full
  /\ \E s \in Stale :
        /\ pending' = pending \ {s}
        /\ results' = results \cup {<<s, "timeout">>}
  /\ UNCHANGED <<sender, receiver, age, network>>

\* The end of the expiry loop: the receiver ends when nothing is pending.
ExpireEnd ==
  /\ rPc = "expire" /\ Stale = {}
  /\ \/ pending = {} /\ rPc' = "done" /\ UNCHANGED deadline
     \/ pending # {} /\ ReadAgain
  /\ UNCHANGED <<sender, reply, pending, age, network, results>>

\* ReadFromUDP fails with an error that is no timeout.
ReadError ==
  /\ rPc = "read" /\ SocketErrors
  /\ rPc' = "done"
  /\ UNCHANGED <<sender, deadline, reply, pending, age, network, results>>

(***************************************************************************)
(* The clock.                                                              *)
(***************************************************************************)

SenderWaits ==
  \/ sPc = "write" /\ age[seq] < MaxWrite
  \/ sPc = "sleep" /\ sleep > 0
  \/ sPc = "wait"
  \/ sPc = "report" /\ Full
  \/ sPc \in {"register", "drop"} /\ ~LockFree

ReceiverWaits ==
  \/ rPc = "read" /\ deadline > 0
  \/ rPc = "push" /\ Full
  \/ rPc = "expire" /\ Full /\ Stale # {}
  \/ rPc = "done"

\* Somebody waits for the clock itself.
ClockRuns ==
  \/ sPc = "write"
  \/ sPc = "sleep"
  \/ rPc = "read"

Tick ==
  /\ SenderWaits /\ ReceiverWaits /\ ClockRuns
  /\ sleep' = IF sleep > 0 THEN sleep - 1 ELSE 0
  /\ deadline' = IF deadline > 0 THEN deadline - 1 ELSE 0
  /\ age' = [s \in Seqs |->
               IF (s \in pending \/ (sPc = "write" /\ s = seq))
                    /\ age[s] < Expired
               THEN age[s] + 1 ELSE age[s]]
  /\ UNCHANGED <<sPc, seq, rPc, reply, pending, network, results>>

Terminated == sPc = "returned" /\ UNCHANGED vars

SenderStep ==
  \/ SetupFail \/ Setup \/ Register \/ WriteOk \/ WriteFail
  \/ DropPending \/ ReportFail \/ Wake \/ Return

ReceiverStep ==
  \/ RecvReply \/ RecvJunk \/ Match \/ Push \/ RecvTimeout \/ Relock
  \/ ExpireOne \/ ExpireEnd \/ ReadError

Next == SenderStep \/ ReceiverStep \/ Tick \/ Terminated

Spec == Init /\ [][Next]_vars

\* The Go scheduler runs both goroutines and the clock does not stop.
FairSpec == Spec /\ WF_vars(SenderStep) /\ WF_vars(ReceiverStep) /\ WF_vars(Tick)

(***************************************************************************)
(* Properties.                                                             *)
(***************************************************************************)

\* Every variable has its type.
TypeOK ==
  /\ sPc \in {"setup", "register", "write", "drop", "report", "sleep",
              "wait", "returned"}
  /\ seq \in Seqs
  /\ sleep \in 0 .. Interval
  /\ rPc \in {"idle", "read", "match", "push", "relock", "expire", "done"}
  /\ deadline \in 0 .. Timeout
  /\ reply \in Seqs
  /\ pending \subseteq Seqs
  /\ age \in [Seqs -> 0 .. Expired]
  /\ inFlight \in [Seqs -> 0 .. MaxCopies]
  /\ junk \in 0 .. MaxJunk
  /\ results \subseteq Seqs \X Kinds

Resolved == {s \in Seqs : \E k \in Kinds : <<s, k>> \in results}

\* A packet yields at most one result, and none while it is still pending:
\* a reply that races its own expiry, a duplicate reply or a failed write
\* never counts a packet twice (main.go 711-764).
OneOutcomePerPacket ==
  /\ \A s \in Seqs : \A k1, k2 \in Kinds :
        <<s, k1>> \in results /\ <<s, k2>> \in results => k1 = k2
  /\ Resolved \cap pending = {}

\* No goroutine ever waits for room in the channel: results has the
\* capacity of the burst, and it is drained only after the receiver ended
\* (main.go 552, 699), so one result too many would stop the burst for good.
NoBlockedSend ==
  (sPc = "report" \/ rPc = "push" \/ (rPc = "expire" /\ Stale # {})) => ~Full

\* While the sender still has packets to send the receiver is there to
\* receive their replies.
ReceiverOutlivesSender ==
  rPc = "done" => sPc \in {"wait", "returned"}

\* When the burst returns every packet was received or reported lost: what
\* "all expected responses have arrived" (main.go 566) promises.
EveryPacketAccounted ==
  (sPc = "returned" /\ rPc = "done") => Resolved = Seqs

\* The burst returns, whatever the network loses, delays or duplicates.
Termination == <>(sPc = "returned")

(***************************************************************************)
(* The burst implements the accounting of ProbeAccounting.                 *)
(***************************************************************************)
StatusOf(s) ==
  CASE <<s, "rtt">> \in results -> "received"
    [] <<s, "timeout">> \in results \/ <<s, "sendfail">> \in results -> "lost"
    [] s \notin Resolved /\ (s > seq \/ (s = seq /\ sPc \in {"setup", "register", "returned"}))
         -> "unsent"
    [] OTHER -> "inflight"

Accounting == INSTANCE ProbeAccounting WITH
  status <- [s \in Seqs |-> StatusOf(s)],
  reported <- (sPc = "returned")

\* The packets are sent in order, each is received or lost once, and the burst
\* returns when all of them are (main.go 667-778).
AccountingSpec == Accounting!Spec

=============================================================================
