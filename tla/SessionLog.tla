----------------------------- MODULE SessionLog -----------------------------
(***************************************************************************)
(* What the persistence layer promises of a session: it is a log of whole  *)
(* turns.  A turn is accepted once, nothing accepted disappears before the *)
(* session is deleted, and a session may exist before its first turn.      *)
(***************************************************************************)
CONSTANTS Sessions, Entries

VARIABLES
  exists,   \* the session is in the store
  log,      \* turns it has been through
  ever      \* turns it was ever given, also before it was deleted

vars == <<exists, log, ever>>

Init ==
  /\ exists \in [Sessions -> BOOLEAN]
  /\ log \in [Sessions -> SUBSET Entries]
  /\ ever = log
  /\ \A s \in Sessions : ~ exists[s] => log[s] = {}

Open(s) ==
  /\ ~ exists[s]
  /\ exists' = [exists EXCEPT ![s] = TRUE]
  /\ UNCHANGED <<log, ever>>

Accept(s, t) ==
  /\ t \notin ever[s]
  /\ exists' = [exists EXCEPT ![s] = TRUE]
  /\ log' = [log EXCEPT ![s] = @ \cup {t}]
  /\ ever' = [ever EXCEPT ![s] = @ \cup {t}]

Forget(s) ==
  /\ exists[s]
  /\ exists' = [exists EXCEPT ![s] = FALSE]
  /\ log' = [log EXCEPT ![s] = {}]
  /\ UNCHANGED ever

Next == \E s \in Sessions : Open(s) \/ Forget(s) \/ \E t \in Entries : Accept(s, t)

Spec == Init /\ [][Next]_vars
=============================================================================
