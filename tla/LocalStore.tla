----------------------------- MODULE LocalStore -----------------------------
(***************************************************************************)
(* The JSONL ring buffer of store.go, with the goroutine of agent.go that  *)
(* replays it to InfluxDB.  mu makes Append and Flush exclude one another, *)
(* so at most one operation is under way; what can happen between its      *)
(* steps is a crash, a failing disk, or the loss of the upstream.          *)
(*                                                                         *)
(* A record is its number.  A line of the file is the record it decodes    *)
(* to, or Garbage; `open` says that the last line has no newline, so the   *)
(* next write is glued to it.                                              *)
(***************************************************************************)
EXTENDS Naturals, Sequences, FiniteSets

CONSTANTS
  MaxLines,    \* s.maxLines
  BatchSize,   \* the batch of Flush, 100 in the code
  MaxRecords,  \* bound: records appended
  MaxCrashes,  \* bound: crashes of the process
  MaxOutages,  \* bound: times the upstream goes away
  MaxFaults    \* bound: operations on the file that fail

ASSUME StoreAssumption ==
  /\ MaxLines \in Nat \ {0}
  /\ BatchSize \in Nat \ {0}
  /\ MaxRecords \in Nat \ {0}
  /\ MaxCrashes \in Nat
  /\ MaxOutages \in Nat
  /\ MaxFaults \in Nat

Records == 1 .. MaxRecords
Garbage == 0
Lines == Records \cup {Garbage}

VARIABLES
  op,        \* who holds mu, and how far it is
  file,      \* the lines on disk
  open,      \* the last line lacks its newline
  mem,       \* the lines enforceCap has read and not written back
  cursor,    \* the lines Flush has scanned
  batch,     \* the records Flush has gathered
  appended,  \* how many records Append was called with
  accepted,  \* the records the upstream has acknowledged
  up,        \* the upstream answers
  unread,    \* Flush has met a read error and not noticed
  outages, crashes, cancelled,
  faults     \* the operations on the file that have failed

disk == <<file, open>>
flush == <<cursor, batch, unread>>
world == <<up, outages, crashes, cancelled>>
vars == <<op, disk, mem, flush, appended, accepted, world, faults>>

\* NewLocalStore on a new path; the agent has just started.
Init ==
  /\ op = "idle"
  /\ file = <<>> /\ open = FALSE
  /\ mem = <<>> /\ cursor = 0 /\ batch = <<>> /\ unread = FALSE
  /\ faults = 0
  /\ appended = 0
  /\ accepted = {}
  /\ up = TRUE /\ outages = 0 /\ crashes = 0 /\ cancelled = FALSE

\* An operation on the file fails.
Fault == faults < MaxFaults /\ faults' = faults + 1

Newest(s) ==
  IF Len(s) <= MaxLines THEN s ELSE SubSeq(s, Len(s) - MaxLines + 1, Len(s))

\* Write one line, glued to the last one when that has no newline.
WriteLine(f, glued, line) ==
  IF glued THEN [f EXCEPT ![Len(f)] = Garbage] ELSE Append(f, line)

\* What a failed or interrupted write leaves behind: nothing, a fragment, or
\* all of the line but its newline.
WriteCut(line) ==
  \/ UNCHANGED disk
  \/ \E l \in {Garbage, line} : file' = WriteLine(file, open, l) /\ open' = TRUE

(***************************************************************************)
(* Append and enforceCap.                                                  *)
(***************************************************************************)

\* The line is written whole.
AppendWrite ==
  /\ op = "idle" /\ appended < MaxRecords
  /\ appended' = appended + 1
  /\ file' = WriteLine(file, open, appended')
  /\ open' = FALSE
  /\ op' = "cap"
  /\ UNCHANGED <<mem, flush, accepted, world, faults>>

AppendFail ==
  /\ op = "idle" /\ appended < MaxRecords /\ Fault
  /\ appended' = appended + 1
  /\ WriteCut(appended')
  /\ UNCHANGED <<op, mem, flush, accepted, world>>

\* The file holds no more than the cap: Append returns.
CapKept ==
  /\ op = "cap" /\ Len(file) <= MaxLines
  /\ op' = "idle"
  /\ UNCHANGED <<disk, mem, flush, appended, accepted, world, faults>>

\* The lines read are in memory and the file is truncated.
Truncate(lines) ==
  /\ mem' = Newest(lines)
  /\ file' = <<>> /\ open' = FALSE
  /\ op' = "rewrite"
  /\ UNCHANGED <<flush, appended, accepted, world>>

CapTruncate ==
  /\ op = "cap" /\ Len(file) > MaxLines
  /\ Truncate(file) /\ UNCHANGED faults

\* A read error ends the scan, and nobody asks for it: the first k lines pass
\* for the whole file, with what was read of the next one.
CapScanFails ==
  /\ op = "cap" /\ Fault
  /\ \/ \E k \in MaxLines + 1 .. Len(file) - 1 : Truncate(SubSeq(file, 1, k))
     \/ \E k \in MaxLines .. Len(file) - 1 :
           Truncate(Append(SubSeq(file, 1, k), Garbage))

\* Seek or Truncate fails, or the scan within the cap; the file is untouched.
CapFail ==
  /\ op = "cap" /\ Fault
  /\ op' = "idle"
  /\ UNCHANGED <<disk, mem, flush, appended, accepted, world>>

\* The lines are written back one after the other.
RewriteLine ==
  /\ op = "rewrite"
  /\ file' = WriteLine(file, open, Head(mem)) /\ open' = FALSE
  /\ mem' = Tail(mem)
  /\ op' = IF mem' = <<>> THEN "idle" ELSE "rewrite"
  /\ UNCHANGED <<flush, appended, accepted, world, faults>>

\* The writer fails: the rest of the lines is gone.
RewriteFail ==
  /\ op = "rewrite" /\ Fault
  /\ WriteCut(Head(mem))
  /\ mem' = <<>> /\ op' = "idle"
  /\ UNCHANGED <<flush, appended, accepted, world>>

(***************************************************************************)
(* Flush, called every 30 s by the replay goroutine.                       *)
(***************************************************************************)

EndFlush == op' = "idle" /\ cursor' = 0 /\ batch' = <<>> /\ unread' = FALSE

\* The select may choose the ticker also when ctx.Done is ready.
FlushStart ==
  /\ op = "idle"
  /\ op' = "scan" /\ cursor' = 0 /\ batch' = <<>>
  /\ UNCHANGED <<disk, mem, unread, appended, accepted, world, faults>>

\* One line: decoded into the batch, or skipped; a full batch is sent.
FlushScan ==
  /\ op = "scan" /\ cursor < Len(file) /\ ~cancelled
  /\ cursor' = cursor + 1
  /\ batch' = IF file[cursor'] = Garbage THEN batch
              ELSE Append(batch, file[cursor'])
  /\ op' = IF Len(batch') >= BatchSize THEN "send" ELSE "scan"
  /\ UNCHANGED <<disk, mem, unread, appended, accepted, world, faults>>

\* A read error passes for the end of the file.
FlushScanFails ==
  /\ op = "scan" /\ cursor < Len(file) /\ Fault
  /\ cursor' = Len(file) /\ unread' = TRUE
  /\ UNCHANGED <<op, disk, mem, batch, appended, accepted, world>>

\* Mutation: the last, partial batch is not sent.
FlushScannedForgets ==
  /\ op = "scan" /\ cursor = Len(file)
  /\ op' = "clear"
  /\ UNCHANGED <<disk, mem, flush, appended, accepted, world, faults>>

\* The end of the file: the last, partial batch is sent if there is one.
FlushScanned ==
  /\ op = "scan" /\ cursor = Len(file)
  /\ op' = IF batch = <<>> THEN "clear" ELSE "send"
  /\ UNCHANGED <<disk, mem, flush, appended, accepted, world, faults>>

\* ctx.Done is noticed before the next line.
FlushCancelled ==
  /\ op = "scan" /\ cursor < Len(file) /\ cancelled
  /\ EndFlush
  /\ UNCHANGED <<disk, mem, appended, accepted, world, faults>>

\* fn succeeds, and the scan goes on; a request under way when ctx is
\* cancelled may still be answered.
SendOk ==
  /\ op = "send" /\ up
  /\ accepted' = accepted \cup {batch[i] : i \in 1 .. Len(batch)}
  /\ batch' = <<>>
  /\ op' = "scan"
  /\ UNCHANGED <<disk, mem, cursor, unread, appended, world, faults>>

\* Mutation: Flush goes on to the next batch after an error.
SendFailIgnored ==
  /\ op = "send" /\ (~up \/ cancelled)
  /\ batch' = <<>> /\ op' = "scan"
  /\ UNCHANGED <<disk, mem, cursor, unread, appended, accepted, world, faults>>

\* fn fails and Flush returns; the file stays as it is.
SendFail ==
  /\ op = "send" /\ (~up \/ cancelled)
  /\ EndFlush
  /\ UNCHANGED <<disk, mem, appended, accepted, world, faults>>

\* Everything was sent: the file is truncated.
FlushClear ==
  /\ op = "clear"
  /\ file' = <<>> /\ open' = FALSE
  /\ EndFlush
  /\ UNCHANGED <<mem, appended, accepted, world, faults>>

ClearFail ==
  /\ op = "clear" /\ Fault
  /\ EndFlush
  /\ UNCHANGED <<disk, mem, appended, accepted, world>>

(***************************************************************************)
(* The world.                                                              *)
(***************************************************************************)

GoDown ==
  /\ up /\ outages < MaxOutages
  /\ up' = FALSE /\ outages' = outages + 1
  /\ UNCHANGED <<op, disk, mem, flush, appended, accepted, crashes, cancelled, faults>>

GoUp ==
  /\ ~up /\ up' = TRUE
  /\ UNCHANGED <<op, disk, mem, flush, appended, accepted, outages, crashes,
                 cancelled, faults>>

\* The process dies and is started again on the same file (NewLocalStore).
\* The blocks of a rewrite under way need not end where a line ends.
Crash ==
  /\ crashes < MaxCrashes
  /\ crashes' = crashes + 1
  /\ IF op = "rewrite" THEN WriteCut(Head(mem)) ELSE UNCHANGED disk
  /\ mem' = <<>> /\ EndFlush /\ cancelled' = FALSE
  /\ UNCHANGED <<appended, accepted, up, outages, faults>>

\* SIGTERM: the agent's context is cancelled; the replay goroutine ends.
Cancel ==
  /\ ~cancelled
  /\ cancelled' = TRUE
  /\ UNCHANGED <<op, disk, mem, flush, appended, accepted, up, outages, crashes,
                 faults>>

AppendStep ==
  AppendWrite \/ AppendFail \/ CapKept \/ CapTruncate \/ CapScanFails \/ CapFail
    \/ RewriteLine \/ RewriteFail

FlushStep ==
  FlushStart \/ FlushScan \/ FlushScanFails \/ FlushScanned \/ FlushCancelled
    \/ SendOk \/ SendFail \/ FlushClear \/ ClearFail

Next == AppendStep \/ FlushStep \/ GoDown \/ GoUp \/ Crash \/ Cancel

Spec == Init /\ [][Next]_vars

\* The holder of mu goes on, the ticker starts flushes, outages end.
FairSpec ==
  Spec /\ WF_vars(AppendStep) /\ WF_vars(FlushStep) /\ WF_vars(GoUp)

(***************************************************************************)
(* Properties.                                                             *)
(***************************************************************************)

\* What the store holds: the file, and what enforceCap has yet to write.
Held == file \o mem
Holds(r) == \E i \in 1 .. Len(Held) : Held[i] = r

\* Flush is to meet this record when it next reads the file: the replay under
\* way has missed nothing, and the record is not in a line without its newline.
Safe(r) ==
  /\ Holds(r) /\ ~unread
  /\ ~(open /\ Held[Len(Held)] = r)

\* A record that is stored is sooner or later upstream, or MaxLines records
\* appended after it have pushed it out, once the upstream stays up, unless the
\* agent is stopped; all the while the store counts no further failed operation
\* and no crash, which may lose it (agent.go 540-567, store.go 31-116).
Replayed ==
  \A r \in Records, n \in 0 .. MaxFaults + MaxCrashes :
    (Safe(r) /\ faults + crashes = n) ~>
      (\/ r \in accepted \/ appended >= r + MaxLines
       \/ cancelled \/ faults + crashes > n)

(***************************************************************************)
(* The store is a RingLog, whatever crashes, failing operations and        *)
(* outages do to it.                                                       *)
(***************************************************************************)
Ring == INSTANCE RingLog WITH
  log <- Held, torn <- open, trimming <- (op = "rewrite"),
  faults <- faults + crashes

\* The records are kept in the order of their Appends, the newest MaxLines of
\* them, and leave the file together, once all of them are upstream; what a
\* failed operation or a crash may lose is the tail of a rewrite, the line that
\* is being written and the one glued to it, and what a scan could not read
\* (store.go 29-116).
RingSpec == Ring!Spec

=============================================================================
