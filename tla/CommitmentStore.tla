-------------------------- MODULE CommitmentStore --------------------------
(***************************************************************************)
(* The store of factual claims a session commits to (qxfx0-commitment):    *)
(* active claims, suppressed ones in quarantine, a lineage of events per   *)
(* claim and a list of contradictions.  The pipeline only commits; the     *)
(* rest is the library's interface, in any order a caller may choose.      *)
(*                                                                         *)
(* A claim is its topic, the case the topic is written in and a statement: *)
(* duplicates are found without regard to case, promotion compares the     *)
(* topic exactly.                                                          *)
(***************************************************************************)
EXTENDS Integers, Sequences, FiniteSets

CONSTANTS
  Claims,          \* [topic, case, statement]
  MaxCommitments,  \* MAX_COMMITMENTS
  MaxClaims,       \* bound on identifiers given out
  MaxEvents        \* bound on the lineage of a claim

VARIABLES active, quarantine, lineage, contradictions, nextId

claimVars == <<active, quarantine, lineage, contradictions, nextId>>

Ids(f) == DOMAIN f
Held == Ids(active) \cup Ids(quarantine)
Filed(f, id, v) == [k \in DOMAIN f \cup {id} |-> IF k = id THEN v ELSE f[k]]
Entry(claim, turn) == [claim |-> claim, turn |-> turn]
Event(kind, turn) == [kind |-> kind, turn |-> turn]
History(id) == IF id \in Ids(lineage) THEN lineage[id] ELSE <<>>
Turns == 1 .. MaxEvents

SameClaim(a, b) == a.topic = b.topic /\ a.statement = b.statement

ClaimOf(id) == IF id \in Ids(active) THEN active[id].claim ELSE quarantine[id].claim

FindDuplicate(claim) == {id \in Held : SameClaim(ClaimOf(id), claim)}

(* commit records turn zero, commit_observation the turn of the claim. *)
Commit(claim, turn) ==
  /\ FindDuplicate(claim) = {}
  /\ Cardinality(Ids(active)) + Cardinality(Ids(quarantine)) < MaxCommitments
  /\ nextId \notin Held
  /\ active' = Filed(active, nextId, Entry(claim, turn))
  /\ lineage' = Filed(lineage, nextId, <<Event("Committed", turn)>>)
  /\ nextId' = nextId + 1
  /\ UNCHANGED <<quarantine, contradictions>>

(* Neither duplicates nor the limit are looked at, and no event is recorded. *)
QuarantineObservation(claim, turn) ==
  /\ quarantine' = Filed(quarantine, nextId, Entry(claim, turn))
  /\ nextId' = nextId + 1
  /\ UNCHANGED <<active, lineage, contradictions>>

ReviseUnrecorded(id, claim, turn) ==
  /\ id \in Ids(active)
  /\ active' = [active EXCEPT ![id] = Entry(claim, turn)]
  /\ UNCHANGED <<lineage, quarantine, contradictions, nextId>>

Revise(id, claim, turn) ==
  /\ id \in Ids(active)
  /\ active' = [active EXCEPT ![id] = Entry(claim, turn)]
  /\ lineage' = Filed(lineage, id, Append(History(id), Event("Revised", turn)))
  /\ UNCHANGED <<quarantine, contradictions, nextId>>

(* The ids are taken as given. *)
Contradict(left, right, turn) ==
  /\ contradictions' = Append(contradictions, [left |-> left, right |-> right, turn |-> turn])
  /\ UNCHANGED <<active, quarantine, lineage, nextId>>

PromoteMatchingQuarantine(topic, case, turn) ==
  LET promoted == {id \in Ids(quarantine) : /\ quarantine[id].claim.topic = topic
                                            /\ quarantine[id].claim.case = case}
  IN  /\ quarantine' = [id \in Ids(quarantine) \ promoted |-> quarantine[id]]
      /\ active' = [id \in Ids(active) \cup promoted |->
                      IF id \in promoted THEN Entry(quarantine[id].claim, turn) ELSE active[id]]
      /\ lineage' = [id \in Ids(lineage) \cup promoted |->
                       IF id \in promoted THEN Append(History(id), Event("Promoted", turn))
                       ELSE lineage[id]]
      /\ UNCHANGED <<contradictions, nextId>>

ClaimInit ==
  /\ active = <<>> /\ quarantine = <<>> /\ lineage = <<>>
  /\ contradictions = <<>> /\ nextId = 0

ClaimNext ==
  \/ \E c \in Claims, t \in Turns \cup {0} : nextId < MaxClaims /\ Commit(c, t)
  \/ \E c \in Claims, t \in Turns : nextId < MaxClaims /\ QuarantineObservation(c, t)
  \/ \E id \in 0 .. MaxClaims, c \in Claims, t \in Turns :
       Len(History(id)) < MaxEvents /\ Revise(id, c, t)
  \/ \E left, right \in 0 .. MaxClaims : contradictions = <<>>
                                         /\ left < right /\ Contradict(left, right, 1)
  \/ \E c \in Claims, t \in Turns : PromoteMatchingQuarantine(c.topic, c.case, t)

ClaimSpec == ClaimInit /\ [][ClaimNext]_claimVars
----------------------------------------------------------------------------
(***************************************************************************)
(* No operation loses a claim, gives its identifier to another, or changes *)
(* what is actively claimed without saying so: an active entry is what the *)
(* last event of its lineage left, and every change appends to the lineage.*)
(***************************************************************************)
ClaimsKeepTheirHistory ==
  [][/\ Held \subseteq Ids(active') \cup Ids(quarantine')
     /\ \A id \in Ids(active') :
          /\ lineage'[id][Len(lineage'[id])].turn = active'[id].turn
          /\ (id \notin Ids(active) \/ active'[id] # active[id]) =>
               /\ Len(lineage'[id]) = Len(History(id)) + 1
               /\ History(id) = SubSeq(lineage'[id], 1, Len(History(id)))]_claimVars
=============================================================================
