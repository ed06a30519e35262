------------------------------ MODULE Exchange ------------------------------
(***************************************************************************)
(* One test packet of main.go and its reply: the four timestamps, the NTP  *)
(* format they travel in, and the RTT that is made of them.                *)
(*                                                                         *)
(* A time is the number of nanoseconds since 1970 on some clock.  The      *)
(* widths of the formats are constants, since TLC counts in 32 bits; what  *)
(* matters is that a second has more fractions than nanoseconds, and that  *)
(* the seconds wrap.  Of the fields, the timestamps are kept, with the     *)
(* sequence numbers in TwampBurst and Reflector.  Names that TwampBurst    *)
(* has as well are longer here, so that one module may extend both.        *)
(***************************************************************************)
EXTENDS Integers, FiniteSetsExt

CONSTANTS
  Nanos,     \* the nanoseconds of a second, 1e9
  Fractions, \* the fractions of a second in NTP, 2^32
  Era,       \* the seconds that NTP can count, 2^32
  Epoch,     \* ntpEpochOffset, the seconds from 1900 to 1970
  Starts,    \* when the packet is sent, by the sender's clock
  Offsets,   \* the reflector's clock less the sender's
  MaxTicks   \* bound: how long the exchange takes

ASSUME ExchangeAssumption ==
  /\ Nanos \in Nat \ {0} /\ Fractions \in Nat /\ Fractions >= Nanos
  /\ Era \in Nat \ {0} /\ Epoch \in 0 .. Era - 1
  /\ \A s \in Starts, o \in Offsets : s \in Nat /\ o \in Int /\ s + o >= 0
  /\ MaxTicks \in Nat

VARIABLES
  pc,       \* "send", "out", "held" by the reflector, "back" or "done"
  now,      \* the sender's clock
  offset,
  t1,       \* the sender's own copy of T1
  request,  \* the timestamp of the request
  t2,       \* the reflector's receiveTime
  response, \* the timestamps of the reply
  wire,     \* the time the packets were under way
  rtt       \* what calculateRTT returns

exchangeVars == <<pc, now, offset, t1, request, t2, response, wire, rtt>>

NTP == [secs : 0 .. Era - 1, frac : 0 .. Fractions - 1]
NoTime == [secs |-> 0, frac |-> 0]

ExchangeInit ==
  /\ pc = "send" /\ now \in Starts /\ offset \in Offsets
  /\ t1 = 0 /\ request = NoTime /\ t2 = 0
  /\ response = [timestamp |-> NoTime, receive |-> NoTime, sender |-> NoTime]
  /\ wire = 0 /\ rtt = 0

(***************************************************************************)
(* The conversions, and the RTT.                                           *)
(***************************************************************************)

\* secs << 32 loses what is beyond 32 bits.
TimeToNTP(t) ==
  [secs |-> ((t \div Nanos) + Epoch) % Era,
   frac |-> ((t % Nanos) * Fractions) \div Nanos]

\* The seconds of a later era come out before 1970: the difference that wraps
\* in 64 bits is negative again as an int64.
NtpToTime(ntp) == (ntp.secs - Epoch) * Nanos + ((ntp.frac * Nanos) \div Fractions)

\* Mutation: the time in the reflector is not taken off.
CalculateRTTWhole(a, b, c, d) == Max({0, d - a})

CalculateRTT(a, b, c, d) == Max({0, (d - a) - (c - b)})

(***************************************************************************)
(* The exchange.                                                           *)
(***************************************************************************)
SendRequest ==
  /\ pc = "send" /\ pc' = "out"
  /\ t1' = now /\ request' = TimeToNTP(now)
  /\ UNCHANGED <<now, offset, t2, response, wire, rtt>>

Receive ==
  /\ pc = "out" /\ pc' = "held"
  /\ t2' = now + offset
  /\ UNCHANGED <<now, offset, t1, request, response, wire, rtt>>

\* The request's own timestamp goes back as it was decoded.
Reply ==
  /\ pc = "held" /\ pc' = "back"
  /\ response' = [timestamp |-> TimeToNTP(NtpToTime(request)),
                  receive |-> TimeToNTP(t2),
                  sender |-> TimeToNTP(now + offset)]
  /\ UNCHANGED <<now, offset, t1, request, t2, wire, rtt>>

TakeReply ==
  /\ pc = "back" /\ pc' = "done"
  /\ rtt' = CalculateRTT(t1, NtpToTime(response.receive), NtpToTime(response.sender), now)
  /\ UNCHANGED <<now, offset, t1, request, t2, response, wire>>

TimePasses ==
  /\ pc \in {"out", "held", "back"} /\ now < t1 + MaxTicks
  /\ now' = now + 1
  /\ wire' = IF pc = "held" THEN wire ELSE wire + 1
  /\ UNCHANGED <<pc, offset, t1, request, t2, response, rtt>>

ExchangeEnded == pc = "done" /\ UNCHANGED exchangeVars

ExchangeNext == SendRequest \/ Receive \/ Reply \/ TakeReply \/ TimePasses \/ ExchangeEnded

ExchangeSpec == ExchangeInit /\ [][ExchangeNext]_exchangeVars

(***************************************************************************)
(* The property.                                                           *)
(***************************************************************************)
EraOf(t) == ((t \div Nanos) + Epoch) \div Era

T3 == t2 + ((now - t1) - wire)

\* The RTT is the time under way to a nanosecond, however far the clocks are
\* apart and whatever era they are in, without the time in the reflector;
\* unless the era turns between T2 and T3, which makes it an era too long
\* (main.go 48-58, 183-189, 427-447, 742).
RttIsTimeUnderWay ==
  pc = "done" =>
    rtt - wire - (EraOf(T3) - EraOf(t2)) * Era * Nanos \in -1 .. 1

=============================================================================
