------------------------------ MODULE MCStore ------------------------------
(* The session store under two operators: one who starts turns and deletes *)
(* side by side, and one who runs every command, one at a time.            *)
EXTENDS SessionStore, TLC

(* Side by side the processes take three turns between them.               *)
Bound ==
  LET took == UNION {memory[p].dialogue : p \in Processes}
  IN  IF exclusive THEN \A t \in took : t.how # "grounded"
      ELSE /\ \A p \in Processes : command[p] \in {"turn", "delete"}
           /\ \A t \in took : t.how # "blocked"
           /\ \A p, q \in Processes : p # q => turns[p] + turns[q] <= 3

StoreSpec == Init /\ [][Next /\ Bound']_vars

ProcessSymmetry == Permutations(Processes)
=============================================================================
