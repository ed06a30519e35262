------------------------------ MODULE MCTwamp ------------------------------
(* The instance of TwampBurst, and of Exchange, that TLC checks in one run.  *)
(* The two share no variable, so each moves only while the other is at its   *)
(* start.  The exchanges are on either side of the turn of an era, with      *)
(* clocks that are up to an era apart.                                       *)
EXTENDS TwampBurst, Exchange

MCStarts == 12 .. 30
MCOffsets == -12 .. 12

FirstExchange == pc = "send" /\ now = 12 /\ offset = 0

MCInit == Init /\ ExchangeInit

MCNext ==
  \/ FirstExchange /\ Next /\ UNCHANGED exchangeVars
  \/ Init /\ ExchangeNext /\ UNCHANGED vars

MCSpec == MCInit /\ [][MCNext]_<<vars, exchangeVars>>
=============================================================================
