------------------------------- MODULE MCPasteDll -------------------------------
(* Small instances of PasteDll.                                             *)
EXTENDS PasteDll

TwoOffers == 1..2
TwoPastes == 1..2
Ops(o, p, c, d) == [offers |-> o, pastes |-> p, copies |-> c, drops |-> d]
(* Two pastes of one offer; two local copies around an offer; a drop and a  *)
(* paste; two offers, a paste and a local copy.                             *)
SmallBudgets == {Ops(1, 2, 0, 0), Ops(1, 0, 2, 0), Ops(1, 1, 0, 1), Ops(2, 1, 1, 0)}
================================================================================
