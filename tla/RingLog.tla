------------------------------- MODULE RingLog -------------------------------
(***************************************************************************)
(* What the local store promises: a log of the last MaxLines lines, oldest *)
(* first, that is cleared only once every record in it was accepted        *)
(* upstream.  A fault is an operation on the file that fails or a crash;   *)
(* without one nothing but the oldest lines is ever lost.                  *)
(***************************************************************************)
EXTENDS Naturals, Sequences

CONSTANT MaxLines

VARIABLES
  log,      \* the lines kept, oldest first; a line that decodes to no record is 0
  torn,     \* the last line has no end, and the next one will be glued to it
  trimming, \* the log is being written back after the oldest lines were dropped
  unread,   \* a part of the log could not be read and passes for replayed
  appended, \* how many records were appended
  accepted, \* the records accepted upstream
  faults    \* how many faults there were

vars == <<log, torn, trimming, unread, appended, accepted, faults>>

Newest(s) ==
  IF Len(s) <= MaxLines THEN s ELSE SubSeq(s, Len(s) - MaxLines + 1, Len(s))

With(s, glued, line) == IF glued THEN [s EXCEPT ![Len(s)] = 0] ELSE Append(s, line)

Init ==
  /\ log = <<>> /\ torn = FALSE /\ trimming = FALSE /\ unread = FALSE
  /\ appended = 0 /\ accepted = {} /\ faults = 0

\* A record is added; the cap is exceeded by the line just written, and by one
\* for each time a fault has kept it from being enforced.
Add ==
  /\ ~trimming /\ Len(log) <= MaxLines + faults
  /\ appended' = appended + 1
  /\ log' = With(log, torn, appended') /\ torn' = FALSE
  /\ UNCHANGED <<trimming, unread, accepted, faults>>

\* The oldest lines are dropped, and the others written back.
Trim ==
  /\ ~trimming /\ Len(log) > MaxLines
  /\ log' = Newest(log) /\ trimming' = TRUE
  /\ UNCHANGED <<torn, unread, appended, accepted, faults>>

Trimmed ==
  /\ trimming /\ trimming' = FALSE
  /\ UNCHANGED <<log, torn, unread, appended, accepted, faults>>

Accept(S) ==
  /\ S # {} /\ S \subseteq {log[i] : i \in 1 .. Len(log)}
  /\ accepted' = accepted \cup S
  /\ UNCHANGED <<log, torn, trimming, unread, appended, faults>>

\* The whole log leaves at once.
Clear ==
  /\ unread \/ \A i \in 1 .. Len(log) : log[i] \in accepted \cup {0}
  /\ ~trimming
  /\ log' = <<>> /\ torn' = FALSE /\ unread' = FALSE
  /\ UNCHANGED <<trimming, appended, accepted, faults>>

\* A replay that had missed a part of the log ends without clearing it.
GiveUp ==
  /\ unread /\ unread' = FALSE
  /\ UNCHANGED <<log, torn, trimming, appended, accepted, faults>>

\* What a fault does: nothing to the log; or a torn line at its end; or, while
\* it is being written back, the loss of its tail; or of the newest lines that
\* a scan did not reach, the first of them perhaps cut short.
Fault ==
  /\ faults' = faults + 1
  /\ UNCHANGED accepted
  /\ \/ /\ ~trimming /\ unread' \in BOOLEAN
        /\ UNCHANGED <<log, torn, trimming, appended>>
     \/ /\ ~trimming /\ appended' = appended + 1
        /\ \/ UNCHANGED <<log, torn>>
           \/ \E line \in {0, appended'} :
                 log' = With(log, torn, line) /\ torn' = TRUE
        /\ UNCHANGED <<trimming, unread>>
     \/ /\ trimming /\ trimming' = FALSE
        /\ \E n \in 0 .. Len(log) :
             \/ log' = SubSeq(log, 1, n) /\ torn' = FALSE
             \/ /\ n < Len(log) /\ torn' = TRUE
                /\ \E line \in {0, log[n + 1]} : log' = Append(SubSeq(log, 1, n), line)
        /\ UNCHANGED <<unread, appended>>
     \/ /\ ~trimming /\ trimming' = TRUE
        /\ \/ \E n \in MaxLines + 1 .. Len(log) - 1 : log' = Newest(SubSeq(log, 1, n))
           \/ \E n \in MaxLines .. Len(log) - 1 :
                 log' = Newest(Append(SubSeq(log, 1, n), 0))
        /\ UNCHANGED <<torn, unread, appended>>

Next ==
  \/ Add \/ Trim \/ Trimmed \/ Clear \/ GiveUp \/ Fault
  \/ \E S \in SUBSET (1 .. appended) : Accept(S)

Spec == Init /\ [][Next]_vars

=============================================================================
