------------------------------ MODULE MCLedgers ------------------------------
(***************************************************************************)
(* The ledgers a session keeps beside its turn log: the registry of        *)
(* perspectives, the fact-grounded evidence, the signed stance decisions,  *)
(* the store of commitments and the map of delegations.  They share no     *)
(* state, so a behaviour moves one of them, `focus`, and the run explores  *)
(* the sum of the five and not their product.                              *)
(***************************************************************************)
EXTENDS PerspectiveRegistry, AuthorityMap, CommitmentStore, StanceDecisions,
        PerspectiveEvidence
INSTANCE CuratedFacts

VARIABLE focus

(* Two texts about one topic, one about another, one topic unfit. *)
MCTexts == {"what is it", "define it", "long line"}
MCTopicOf == [t \in MCTexts |-> IF t = "long line" THEN "line" ELSE "it"]

(* One claim in two cases and another one. *)
MCClaims == {[topic |-> "t", case |-> "lower", statement |-> 1],
             [topic |-> "t", case |-> "upper", statement |-> 1],
             [topic |-> "u", case |-> "lower", statement |-> 2]}

ASSUME StanceAssumption
ASSUME FactAssumption /\ PackAssumption /\ RoomAssumption

ledgerVars == <<vars, focus, evidenceVars, stanceVars, claimVars, delegations>>

LedgersInit ==
  /\ focus \in {"registry", "evidence", "stances", "commitments", "authority"}
  /\ Init /\ EvidenceInit /\ StanceInit /\ ClaimInit /\ AuthorityInit

LedgersNext ==
  /\ UNCHANGED focus
  /\ \/ focus = "registry" /\ Next
        /\ UNCHANGED <<evidenceVars, stanceVars, claimVars, delegations>>
     \/ focus = "evidence" /\ EvidenceNext
        /\ UNCHANGED <<vars, stanceVars, claimVars, delegations>>
     \/ focus = "stances" /\ StanceNext
        /\ UNCHANGED <<vars, evidenceVars, claimVars, delegations>>
     \/ focus = "commitments" /\ ClaimNext
        /\ UNCHANGED <<vars, evidenceVars, stanceVars, delegations>>
     \/ focus = "authority" /\ AuthorityNext
        /\ UNCHANGED <<vars, evidenceVars, stanceVars, claimVars>>

LedgersSpec == LedgersInit /\ [][LedgersNext]_ledgerVars
=============================================================================
