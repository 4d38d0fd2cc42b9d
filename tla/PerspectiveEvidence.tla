------------------------ MODULE PerspectiveEvidence -----------------------
(***************************************************************************)
(* The fact-grounded evidence of a session (qxfx0-self/fact_perspective):  *)
(* opinions on concepts, each grounded in curated facts, and the bounded   *)
(* list of episodes that explains every revision.  A turn hands the claims *)
(* of its rendered plan to integrate_curated_claims; saving and loading    *)
(* check the whole with validate_perspective_against_pack.                 *)
(*                                                                         *)
(* Facts are names with a subject and the facts they counter or follow     *)
(* from; the confidence of an opinion is left out.                         *)
(***************************************************************************)
EXTENDS Integers, Sequences, FiniteSets

CONSTANTS
  Facts, Concepts,      \* the active FactRegistry
  SubjectOf,            \* the concept each fact is about
  Counters, FollowsFrom,\* pairs <<fact, fact it counters or follows from>>
  Plans,                \* claim lists a turn may render
  NoPolarity,           \* previous polarity of a first episode
  MaxOpinions, MaxEpisodes, MaxEvidenceTurns

Roles == {"Thesis", "Counterpoint", "Consequence", "Support", "DialogueAct"}
BeliefPolarities == {"Affirmed", "Qualified"}

FactAssumption ==
  /\ IsFiniteSet(Facts) /\ IsFiniteSet(Concepts)
  /\ SubjectOf \in [Facts -> Concepts]
  /\ Counters \subseteq Facts \X Facts
  /\ FollowsFrom \subseteq Facts \X Facts
  /\ Plans \subseteq Seq([role : Roles, fact : Facts])
  /\ NoPolarity \notin BeliefPolarities
  /\ {MaxOpinions, MaxEpisodes, MaxEvidenceTurns} \subseteq Nat \ {0}

(* A fact counters or follows from another, never both, and never counters *)
(* itself: so in the shipped pack, though the loader does not insist.      *)
PackAssumption ==
  /\ Counters \cap FollowsFrom = {}
  /\ \A f \in Facts : <<f, f>> \notin Counters

(* What an opinion with primary fact f can come to rest on, and room for   *)
(* an episode about each such fact under any opinions that may be held.    *)
Basis(f) == {f} \cup {g \in Facts : <<g, f>> \in Counters \cup FollowsFrom}

RoomAssumption ==
  \A P \in SUBSET Facts : Cardinality(P) <= MaxOpinions =>
    Cardinality(UNION {Basis(f) : f \in P}) <= MaxEpisodes

VARIABLES
  opinions,   \* concept -> [primary, polarity, grounding, revision]
  episodes,   \* retained episodes, oldest first
  nextEpisode,\* next_episode_id
  turnSeq,    \* completed turns of the session
  accepted    \* history: plans that were integrated

evidenceVars == <<opinions, episodes, nextEpisode, turnSeq, accepted>>

Perspective == [opinions |-> opinions, episodes |-> episodes, nextId |-> nextEpisode]

Has(p, c) == c \in DOMAIN p.opinions
Hold(p, c, o) == [p EXCEPT !.opinions = [k \in DOMAIN @ \cup {c} |->
                                          IF k = c THEN o ELSE @[k]]]

(* append_episode: past the bound the oldest episodes are drained.         *)
AppendEpisode(p, turn, c, previous, resulting, cited, reason) ==
  LET all == Append(p.episodes, [id |-> p.nextId, turn |-> turn, topic |-> c,
                                 previous |-> previous, resulting |-> resulting,
                                 cited |-> cited, reason |-> reason])
      excess == Len(all) - MaxEpisodes
  IN  [opinions |-> p.opinions, nextId |-> p.nextId + 1,
       episodes |-> IF excess > 0 THEN SubSeq(all, excess + 1, Len(all)) ELSE all]

(* A step of integration: the perspective so far, and whether it succeeded *)
Ok(p) == [ok |-> TRUE, p |-> p]
Err(p) == [ok |-> FALSE, p |-> p]

(* establish_opinion: the first thesis on a concept affirms it.            *)
Establish(p, turn, f) ==
  LET c == SubjectOf[f]
  IN  IF Has(p, c)
        THEN IF p.opinions[c].primary = f THEN Ok(p) ELSE Err(p)
        ELSE Ok(AppendEpisode(
               Hold(p, c, [primary |-> f, polarity |-> "Affirmed",
                          grounding |-> {f}, revision |-> 1]),
               turn, c, NoPolarity, "Affirmed", {f}, "Established"))

(* A further fact about an established primary, cited once.                *)
Ground(p, turn, f, polarity, reason) ==
  LET c == SubjectOf[f]
      o == p.opinions[c]
  IN  IF f \in o.grounding
        THEN p
        ELSE AppendEpisode(
               Hold(p, c, [primary |-> o.primary, polarity |-> polarity,
                           grounding |-> o.grounding \cup {f}, revision |-> o.revision + 1]),
               turn, c, o.polarity, polarity, {o.primary, f}, reason)

(* Mutants: a counterpoint that leaves the polarity, and one that is       *)
(* recorded again each time it is cited.                                   *)
QualifySilently(p, turn, f) ==
  LET c == SubjectOf[f]
  IN  IF Has(p, c) /\ <<f, p.opinions[c].primary>> \in Counters
        THEN Ok(Ground(p, turn, f, p.opinions[c].polarity, "Qualified")) ELSE Err(p)

QualifyAgain(p, turn, f) ==
  LET c == SubjectOf[f]
  IN  IF Has(p, c) /\ <<f, p.opinions[c].primary>> \in Counters
        THEN Ok(AppendEpisode(
               Hold(p, c, [p.opinions[c] EXCEPT !.polarity = "Qualified", !.revision = @ + 1,
                                               !.grounding = @ \cup {f}]),
               turn, c, p.opinions[c].polarity, "Qualified",
               {p.opinions[c].primary, f}, "Qualified"))
        ELSE Err(p)

(* qualify_opinion: a counterpoint to the primary fact qualifies.          *)
Qualify(p, turn, f) ==
  LET c == SubjectOf[f]
  IN  IF Has(p, c) /\ <<f, p.opinions[c].primary>> \in Counters
        THEN Ok(Ground(p, turn, f, "Qualified", "Qualified")) ELSE Err(p)

(* reinforce_opinion: a consequence of the primary fact keeps polarity.    *)
Reinforce(p, turn, f) ==
  LET c == SubjectOf[f]
  IN  IF Has(p, c) /\ <<f, p.opinions[c].primary>> \in FollowsFrom
        THEN Ok(Ground(p, turn, f, p.opinions[c].polarity, "Reinforced")) ELSE Err(p)

IntegrateClaim(p, turn, claim) ==
  CASE claim.role = "Thesis"       -> Establish(p, turn, claim.fact)
    [] claim.role = "Counterpoint" -> Qualify(p, turn, claim.fact)
    [] OTHER                       -> Reinforce(p, turn, claim.fact)

(* What is refused before any claim is integrated.                         *)
Admissible(p, claims) ==
  /\ \A i \in 1 .. Len(claims) : claims[i].role # "DialogueAct"
  /\ \A i, j \in 1 .. Len(claims) : SubjectOf[claims[i].fact] = SubjectOf[claims[j].fact]
  /\ Has(p, SubjectOf[claims[1].fact]) \/ Cardinality(DOMAIN p.opinions) < MaxOpinions

(* The perspective after each prefix of a plan; an error ends the work.    *)
IntegrateNext(r, turn, claim) ==
  IF r.ok THEN IntegrateClaim(r.p, turn, claim) ELSE r

Through(p, turn, claims) ==
  LET through[n \in 0 .. Len(claims)] ==
        IF n = 0 THEN Ok(p) ELSE IntegrateNext(through[n - 1], turn, claims[n])
  IN  through

(* integrate_curated_claims: all claims on a copy, or none.                *)
Integrate(p, turn, claims) ==
  IF claims = <<>> THEN Ok(p)
  ELSE IF ~Admissible(p, claims) THEN Err(p)
  ELSE LET end == Through(p, turn, claims)[Len(claims)]
       IN  IF end.ok THEN end ELSE Err(p)

(* Mutant: what was integrated before the failing claim is kept.           *)
GroundedTurnPartially(claims) ==
  LET end == Through(Perspective, turnSeq + 1, claims)[Len(claims)]
  IN  /\ turnSeq < MaxEvidenceTurns
      /\ opinions' = end.p.opinions
      /\ episodes' = end.p.episodes
      /\ nextEpisode' = end.p.nextId
      /\ turnSeq' = turnSeq + 1
      /\ accepted' = IF end.ok THEN accepted \cup {claims} ELSE accepted

(* An answered turn integrates its plan; one that errs is rolled back.     *)
GroundedTurn(claims) ==
  LET end == Integrate(Perspective, turnSeq + 1, claims)
  IN  /\ turnSeq < MaxEvidenceTurns
      /\ opinions' = end.p.opinions
      /\ episodes' = end.p.episodes
      /\ nextEpisode' = end.p.nextId
      /\ turnSeq' = IF end.ok THEN turnSeq + 1 ELSE turnSeq
      /\ accepted' = IF end.ok THEN accepted \cup {claims} ELSE accepted

(* A turn without a receipt leaves the perspective alone.                  *)
OtherTurn ==
  /\ turnSeq < MaxEvidenceTurns
  /\ turnSeq' = turnSeq + 1
  /\ UNCHANGED <<opinions, episodes, nextEpisode, accepted>>

EvidenceInit ==
  /\ opinions = << >> /\ episodes = << >> /\ nextEpisode = 0
  /\ turnSeq = 0 /\ accepted = {}

EvidenceNext == OtherTurn \/ \E claims \in Plans : GroundedTurn(claims)

EvidenceSpec == EvidenceInit /\ [][EvidenceNext]_evidenceVars

----------------------------------------------------------------------------
(* resolve_render_stance on a concept and the thesis being rendered.       *)
HasCounterpoint(o) == \E f \in o.grounding : <<f, o.primary>> \in Counters

RenderStance(p, c, thesis) ==
  IF ~Has(p, c) THEN "Neutral"
  ELSE LET o == p.opinions[c]
       IN  IF /\ SubjectOf[thesis] = c
              /\ o.primary = thesis /\ thesis \in o.grounding
              /\ \A f \in o.grounding : SubjectOf[f] = c
              /\ (o.polarity = "Qualified") <=> HasCounterpoint(o)
             THEN o.polarity ELSE "Error"

EpisodesOf(p, c) == {i \in 1 .. Len(p.episodes) : p.episodes[i].topic = c}

(* The reason of an episode and what it must then say and cite.            *)
ReasonHolds(e, o) ==
  /\ o.primary \in e.cited
  /\ \A f \in e.cited : SubjectOf[f] = e.topic
  /\ CASE e.reason = "Established" -> /\ e.previous = NoPolarity
                                      /\ e.resulting = "Affirmed"
       [] e.reason = "Qualified"   -> /\ e.previous # NoPolarity
                                      /\ e.resulting = "Qualified"
                                      /\ \E f \in e.cited : <<f, o.primary>> \in Counters
       [] e.reason = "Reinforced"  -> /\ e.previous = e.resulting
                                      /\ \E f \in e.cited : <<f, o.primary>> \in FollowsFrom

OpinionValid(c, o) ==
  /\ o.primary \in o.grounding
  /\ \A f \in o.grounding : SubjectOf[f] = c
  /\ (o.polarity = "Qualified") <=> HasCounterpoint(o)
  /\ o.revision > 0

(* Episodes are ordered, about opinions held, and continue one another.    *)
EpisodesValid(p) ==
  /\ \A i \in 1 .. Len(p.episodes) :
       LET e == p.episodes[i]
       IN  /\ e.id < p.nextId /\ e.turn > 0
           /\ Has(p, e.topic) /\ ReasonHolds(e, p.opinions[e.topic])
  /\ \A i, j \in 1 .. Len(p.episodes) : i < j =>
       /\ p.episodes[i].id < p.episodes[j].id
       /\ p.episodes[i].turn <= p.episodes[j].turn
  /\ \A i, j \in 1 .. Len(p.episodes) :
       /\ i < j
       /\ p.episodes[i].topic = p.episodes[j].topic
       /\ \A k \in i + 1 .. j - 1 : p.episodes[k].topic # p.episodes[i].topic
       => p.episodes[j].previous = p.episodes[i].resulting

(* Every opinion is explained by the episodes that remain.                 *)
OpinionExplained(p, c) ==
  LET mine == EpisodesOf(p, c)
  IN  /\ mine # {}
      /\ Cardinality(mine) <= p.opinions[c].revision
      /\ \E last \in mine :
           /\ \A i \in mine : i <= last
           /\ p.episodes[last].resulting = p.opinions[c].polarity

(* validate_perspective_against_pack, on which save and load insist.       *)
Validates(p) ==
  /\ Cardinality(DOMAIN p.opinions) <= MaxOpinions
  /\ Len(p.episodes) <= MaxEpisodes
  /\ \A c \in DOMAIN p.opinions : OpinionValid(c, p.opinions[c])
  /\ EpisodesValid(p)
  /\ \A c \in DOMAIN p.opinions : OpinionExplained(p, c)

----------------------------------------------------------------------------
(***************************************************************************)
(* What the operators build the validator accepts: a session that grounds  *)
(* its turns can always be saved and loaded again.                         *)
(***************************************************************************)
AlwaysLoadable == Validates(Perspective)

(***************************************************************************)
(* "Replaying the same plan is idempotent and creates no duplicate         *)
(* episodes": once a plan was integrated, integrating it again at any      *)
(* later turn changes nothing, whatever other plans came between.          *)
(***************************************************************************)
ReplayIsIdempotent ==
  \A claims \in accepted :
    Integrate(Perspective, turnSeq + 1, claims) = Ok(Perspective)

(***************************************************************************)
(* Only whole plans count: the facts an opinion rests on are exactly those *)
(* of the plans that were integrated, none of one that failed half-way,    *)
(* and its stance renders for its own thesis, Qualified exactly when one   *)
(* of those plans brought a counterpoint.                                  *)
(***************************************************************************)
OnlyWholePlans ==
  LET claimed == UNION {{claims[i] : i \in DOMAIN claims} : claims \in accepted}
  IN  /\ UNION {opinions[c].grounding : c \in DOMAIN opinions} = {cl.fact : cl \in claimed}
      /\ \A c \in DOMAIN opinions :
           RenderStance(Perspective, c, opinions[c].primary)
             = IF \E cl \in claimed : cl.role = "Counterpoint" /\ SubjectOf[cl.fact] = c
                 THEN "Qualified" ELSE "Affirmed"
============================================================================
