------------------------------- MODULE Faults -------------------------------
(* A function of checks that returns at the first that fails: its answer is *)
(* the name of that check, "ok" when every one passes.                      *)
EXTENDS Naturals

FirstFault(checks) ==
  LET failed == {i \in DOMAIN checks : checks[i][1]}
  IN  IF failed = {} THEN "ok"
      ELSE checks[CHOOSE i \in failed : \A j \in failed : i <= j][2]

(* A check made of another answers what that one does; of the parts of a    *)
(* whole, the first that has a fault gives it.                              *)
CheckOf(fault) == <<fault # "ok", fault>>
FaultIn(faults) == FirstFault([i \in DOMAIN faults |-> CheckOf(faults[i])])
=============================================================================
