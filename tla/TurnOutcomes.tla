--------------------------- MODULE TurnOutcomes ---------------------------
(***************************************************************************)
(* What one turn may do to a session, seen from outside the pipeline: it   *)
(* is answered, and the session only learns; or it is refused, and only    *)
(* the bookkeeping moves; or it fails, and nothing has happened.           *)
(***************************************************************************)
EXTENDS Naturals

VARIABLES
  count,      \* completed turns
  verdict,    \* the guard's verdict on the last of them
  knowledge,  \* kinds of learned things, each a set
  self,       \* trajectory, angst and field
  talk        \* state of the conversation

vars == <<count, verdict, knowledge, self, talk>>

Answer ==
  /\ count' = count + 1
  /\ verdict' \in {"allowed", "warned"}
  /\ DOMAIN knowledge' = DOMAIN knowledge
  /\ \A kind \in DOMAIN knowledge : knowledge[kind] \subseteq knowledge'[kind]

Refuse ==
  /\ count' = count + 1
  /\ verdict' = "blocked"
  /\ UNCHANGED <<knowledge, self, talk>>

Init == count = 0 /\ verdict = "none" /\ talk = "Idle"

Next == Answer \/ Refuse

Spec == Init /\ [][Next]_vars
============================================================================
