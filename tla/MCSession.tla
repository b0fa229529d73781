----------------------------- MODULE MCSession ------------------------------
(* Session for TLC: two tabs, the first of which makes the data requests. *)
EXTENDS Session

CONSTANTS t1, t2, c1, c2

AllInFirst == [c \in {c1, c2} |-> t1]

\* One tab with two data requests beside GET /me, and a fault; two tabs with
\* GET /me only.
BusyOrTwo ==
  {[uses |-> {t1, c1, c2}, grants |-> 1, lapses |-> 1, faults |-> 1],
   [uses |-> {t1, t2}, grants |-> 1, lapses |-> 1, faults |-> 0]}
=============================================================================
