---------------------------- MODULE MCAIOperator ----------------------------
(* Plans for TLC: a delayed action, a timed one, and both in one plan.     *)
EXTENDS AIOperator

MCPlans == {
  <<[delay |-> 1, duration |-> 1]>>,
  <<[delay |-> 0, duration |-> 1], [delay |-> 1, duration |-> 0]>> }
=============================================================================
