--------------------------- MODULE TurnPipeline ---------------------------
(***************************************************************************)
(* One dialogue turn of qxfx0-pipeline: process_turn_internal and the      *)
(* stages prepare, route, plan_shadow, render, finalize, guard, persist.   *)
(*                                                                         *)
(* The stages mutate the session state in place.  A stage that fails puts  *)
(* the snapshot back; a turn the guard refuses keeps its dialogue and      *)
(* governance bookkeeping and gets its semantic state back.  The module    *)
(* follows one session through turns, failures, refusals and restarts.     *)
(*                                                                         *)
(* Text is abstract: a topic is one of a few names with the attributes the *)
(* code tests (in the seed graph, short, self-referential), a response is  *)
(* a verdict of the guard.  Turn counts and limits are small constants.    *)
(***************************************************************************)
EXTENDS Integers, Sequences, FiniteSets

CONSTANTS
  SeedAtoms,      \* topics of the seed graph
  NewTopics,      \* topics outside it, longer than two characters
  ShortTopics,    \* topics outside it of at most two characters
  SelfTopics,     \* "я", "ты", "qxfx0", "система"
  World,          \* the atom "мир" that new topics hang from
  Derived,        \* an atom of derive_atoms
  SeedEdges,      \* edges of the seed graph
  Packs, NoPack,  \* knowledge pack sets and the empty fingerprint
  Modes,          \* proposition modes users produce
  Renderers,      \* renderer authorities a caller asks for
  Rollouts,       \* fact-grounded rollouts a caller asks for
  MaxAtoms, MaxEdges,           \* MAX_RUNTIME_ATOMS, MAX_RUNTIME_EDGES
  HistoryCap,                   \* 10_000 history and governance entries
  WitnessCap,                   \* trajectory_capacity
  ClaimCap, OpinionCap,         \* MAX_COMMITMENTS, MAX_PERSPECTIVE_OPINIONS
  DoubtAngst, CommitAngst, CollapseAngst,   \* 0.7, 0.75 and 0.9 in steps of angst
  ContradictionLevel,           \* counterfactual above which it is a tag
  FieldStart, FieldMax,         \* 0.5 and 1.0 in steps of 0.1
  MaxTurns                      \* bound on completed turns

Topics == SeedAtoms \cup NewTopics \cup ShortTopics
Atoms == Topics \cup {World, Derived}
AllModes == {"Challenge", "Define", "Connect", "Assert", "Reflect",
             "Greeting", "Purpose", "WorldCause"}
ASSUME TopicAssumption ==
  /\ IsFiniteSet(Topics)
  /\ SeedAtoms # {}
  /\ SeedAtoms \cap (NewTopics \cup ShortTopics) = {}
  /\ NewTopics \cap ShortTopics = {}
  /\ SelfTopics \subseteq Topics
  /\ World \notin Topics /\ Derived \notin Topics /\ World # Derived
  /\ Modes \subseteq AllModes
  /\ Renderers \subseteq {"legacy", "audited", "v2"}
  /\ Rollouts \subseteq {"Disabled", "TraceOnly", "Enabled"}
  /\ NoPack \notin Packs

(***************************************************************************)
(* Every edge that grows comes with a new atom, so a graph that starts     *)
(* with SeedEdges edges can only reach the edge limit through the atom     *)
(* limit; the shipped limits (10000 atoms, 20000 edges) leave that room.   *)
(***************************************************************************)
ASSUME LimitAssumption ==
  /\ \A n \in {SeedEdges, MaxAtoms, MaxEdges, HistoryCap, WitnessCap, ClaimCap,
               OpinionCap, DoubtAngst, CommitAngst, CollapseAngst,
               ContradictionLevel, FieldStart, FieldMax, MaxTurns} : n \in Nat \ {0}
  /\ Cardinality(SeedAtoms) <= MaxAtoms
  /\ SeedEdges + MaxAtoms - Cardinality(SeedAtoms) < MaxEdges
  /\ DoubtAngst <= CommitAngst /\ CommitAngst < CollapseAngst
  /\ FieldStart <= FieldMax

VARIABLES
  state,      \* SystemState of the session
  snapshot,   \* process_turn_internal's clone of it, taken before the stages
  stage,      \* the stage that runs next
  turn,       \* the typed turn context handed from stage to stage
  packs,      \* the active knowledge pack set of the process
  answered    \* history: turns whose response reached the user, with topic

vars == <<state, snapshot, stage, turn, packs, answered>>

EmptyGraph == [seeded |-> FALSE, atoms |-> {}, grown |-> {}]
SeedGraph  == [seeded |-> TRUE, atoms |-> SeedAtoms, grown |-> {}]
EdgeCount(g) == (IF g.seeded THEN SeedEdges ELSE 0) + Cardinality(g.grown)

NoCache == [built |-> FALSE, count |-> 0, of |-> EmptyGraph]

FreshEssence == [angst |-> 0, witnesses |-> <<>>, commitment |-> 0, resets |-> 0]

FreshSemantic(g) ==
  [graph |-> g, cache |-> NoCache, essence |-> FreshEssence, claims |-> {},
   opinions |-> {}, fingerprint |-> NoPack,
   confidence |-> FieldStart, counterfactual |-> FieldStart]

(* fresh_state seeds the graph; a library caller may pass the default state. *)
FreshState(g) ==
  [turnCount |-> 0, history |-> <<>>, conversation |-> "Idle", log |-> <<>>,
   decision |-> "none", semantic |-> FreshSemantic(g)]

NoTurn == [topic |-> World, mode |-> "Greeting", renderer |-> "legacy",
           rollout |-> "Disabled", known |-> FALSE, planReady |-> FALSE,
           receipt |-> FALSE, status |-> "none"]

LastN(s, n) == IF Len(s) > n THEN SubSeq(s, Len(s) - n + 1, Len(s)) ELSE s

----------------------------------------------------------------------------
(* SystemState::validate, clause by clause.                                *)
GraphValid(g) ==
  /\ Cardinality(g.atoms) <= MaxAtoms
  /\ EdgeCount(g) <= MaxEdges
  /\ \A e \in g.grown : e.from \in g.atoms /\ e.to \in g.atoms

LogReplays(log) ==
  \A i \in 1 .. Len(log) - 1 : log[i].turn <= log[i + 1].turn

CacheValid(sem) ==
  sem.cache.built => /\ sem.cache.count = EdgeCount(sem.graph)
                     /\ sem.cache.count > 0

Validate(s) ==
  /\ Len(s.history) <= s.turnCount
  /\ Len(s.history) <= HistoryCap
  /\ Len(s.log) <= HistoryCap
  /\ GraphValid(s.semantic.graph)
  /\ Cardinality(s.semantic.claims) <= ClaimCap
  /\ Len(s.semantic.essence.witnesses) <= WitnessCap
  /\ Cardinality(s.semantic.opinions) <= OpinionCap
  /\ LogReplays(s.log)
  /\ s.semantic.confidence \in 0 .. FieldMax
  /\ s.semantic.counterfactual \in 0 .. FieldMax
  /\ CacheValid(s.semantic)

----------------------------------------------------------------------------
(***************************************************************************)
(* The turn starts: an invalid session is turned away untouched, otherwise *)
(* the snapshot is taken and an empty graph is seeded.                     *)
(***************************************************************************)
Begin ==
  /\ stage = "idle"
  /\ state.turnCount < MaxTurns
  /\ Validate(state)
  /\ snapshot' = state
  /\ state' = IF EdgeCount(state.semantic.graph) = 0
                THEN [state EXCEPT !.semantic.graph = SeedGraph]
                ELSE state
  /\ \E topic \in Topics, mode \in Modes,
        renderer \in Renderers, rollout \in Rollouts :
       /\ rollout # "Disabled" => renderer = "audited"
       /\ turn' = [NoTurn EXCEPT !.topic = topic, !.mode = mode,
                     !.renderer = renderer, !.rollout = rollout]
  /\ stage' = "prepare"
  /\ UNCHANGED <<packs, answered>>

(* Stage 1: the deliberation's decision, and whether the topic is known.   *)
Prepare ==
  /\ stage = "prepare"
  /\ state' = [state EXCEPT !.decision = "allowed"]
  /\ turn' = [turn EXCEPT !.known = turn.topic \in state.semantic.graph.atoms]
  /\ stage' = "route"
  /\ UNCHANGED <<snapshot, packs, answered>>

(* proposition_to_event: the mode and the knowledge of the topic.          *)
Event(mode, known) ==
  CASE mode = "Challenge" -> "ChallengeReceived"
    [] mode = "Greeting"  -> "StartConversation"
    [] mode = "Reflect" /\ known -> "ReflectRequest"
    [] mode \notin {"Challenge", "Greeting", "Reflect"} /\ known -> "ReadyToReason"
    [] OTHER -> "UserMessage"

(* transition: the rows of the conversation machine; no row, no move.      *)
Transition(from, event) ==
  CASE from = "Idle" /\ event \in {"StartConversation", "UserMessage"} -> "Greeting"
    [] from = "Idle" /\ event \in {"ReadyToReason", "ChallengeReceived"} -> "Reasoning"
    [] from \in {"Idle", "Greeting", "Reasoning"} /\ event = "ReflectRequest" -> "Reflecting"
    [] from \in {"Greeting", "Reflecting", "Clarifying"} /\ event = "UserMessage"
         -> "InformationGathering"
    [] from = "InformationGathering" /\ event = "ReadyToReason" -> "Reasoning"
    [] OTHER -> from

(* Stage 2: the conversation machine moves before anything is rendered.    *)
Route ==
  /\ stage = "route"
  /\ state' = [state EXCEPT
                 !.conversation = Transition(@, Event(turn.mode, turn.known))]
  /\ stage' = "plan_shadow"
  /\ UNCHANGED <<snapshot, turn, packs, answered>>

(* Stage 3: a plan on a curated topic may come out ready.                  *)
PlanShadow ==
  /\ stage = "plan_shadow"
  /\ \E ready \in BOOLEAN :
       /\ ready => turn.topic \in SeedAtoms
       /\ turn' = [turn EXCEPT !.planReady = ready]
  /\ stage' = "render"
  /\ UNCHANGED <<state, snapshot, packs, answered>>

(* cached_semantic_network: reused while the number of edges is the same.  *)
CachedNetwork(sem) ==
  LET count == EdgeCount(sem.graph)
  IN  IF sem.cache.built /\ sem.cache.count = count
        THEN sem
        ELSE [sem EXCEPT !.cache = [built |-> TRUE, count |-> count, of |-> sem.graph]]

AuditedRender == turn.renderer = "audited" /\ turn.planReady

(***************************************************************************)
(* Stage 4: the V2 surface and an audited plan leave the state alone, the  *)
(* legacy renderers read the graph through the network cache.  An audited  *)
(* plan that was rendered gives a receipt when the rollout observes.       *)
(***************************************************************************)
Render ==
  /\ stage = "render"
  /\ state' = IF turn.renderer = "v2" \/ AuditedRender
                THEN state
                ELSE [state EXCEPT !.semantic = CachedNetwork(@)]
  /\ turn' = [turn EXCEPT !.receipt = AuditedRender /\ turn.rollout # "Disabled"]
  /\ stage' = "finalize"
  /\ UNCHANGED <<snapshot, packs, answered>>

(* Mutant: commits again on every turn above the threshold.                *)
WitnessRecommits(ess, t) ==
  LET angst == IF ess.angst < CollapseAngst THEN ess.angst + 1 ELSE ess.angst
  IN  [ess EXCEPT
         !.witnesses = LastN(Append(@, t), WitnessCap),
         !.angst = angst,
         !.commitment = IF angst >= CommitAngst THEN t ELSE @]

(***************************************************************************)
(* witness_essence, should_commit_essence, commit_essence: every turn is   *)
(* witnessed and accrues angst (the divergence is at least one half by its *)
(* definition in finalize_stage; conatus stays above its floor because the *)
(* field never falls below its start, so only angst commits).  Angst above *)
(* the collapse level makes no further difference and is not counted.      *)
(***************************************************************************)
Witness(ess, t) ==
  LET angst == IF ess.angst < CollapseAngst THEN ess.angst + 1 ELSE ess.angst
  IN  [ess EXCEPT
         !.witnesses = LastN(Append(@, t), WitnessCap),
         !.angst = angst,
         !.commitment = IF @ = 0 /\ angst >= CommitAngst THEN t ELSE @]

(* collapse_essence, on a self-referential topic under the highest angst.  *)
Collapse(ess, topic) ==
  IF ess.angst >= CollapseAngst /\ topic \in SelfTopics
    THEN [angst |-> 0, witnesses |-> <<>>, commitment |-> 0, resets |-> ess.resets + 1]
    ELSE ess

ReservedAtoms(g, topic) ==
  (IF topic \in g.atoms THEN 0 ELSE 1) + (IF World \in g.atoms THEN 0 ELSE 1)

CanRegisterTopic(g, topic) ==
  \/ topic \in g.atoms
  \/ /\ topic \notin ShortTopics
     /\ Cardinality(g.atoms) + ReservedAtoms(g, topic) <= MaxAtoms
     /\ EdgeCount(g) < MaxEdges

(* derive_atoms: the one rule whose tags a session can show.               *)
GrowDerived(g, topic, tagged) ==
  IF /\ tagged
     /\ CanRegisterTopic(g, topic)
     /\ Derived \notin g.atoms
     /\ Cardinality(g.atoms) < MaxAtoms - ReservedAtoms(g, topic)
     /\ EdgeCount(g) < MaxEdges
    THEN [g EXCEPT !.atoms = @ \cup {Derived},
                   !.grown = @ \cup {[from |-> Derived, to |-> topic, topic |-> topic]}]
    ELSE g

(* Mutant: the topic's edge is added, its source atom is forgotten.        *)
GrowTopicWithoutWorld(g, before, topic) ==
  IF topic \notin before.atoms /\ CanRegisterTopic(before, topic)
    THEN [g EXCEPT !.atoms = @ \cup {topic},
                   !.grown = @ \cup {[from |-> World, to |-> topic, topic |-> topic]}]
    ELSE g

(* The growth decision was taken on the graph before derivation.           *)
GrowTopic(g, before, topic) ==
  IF topic \notin before.atoms /\ CanRegisterTopic(before, topic)
    THEN [g EXCEPT !.atoms = @ \cup {topic, World},
                   !.grown = @ \cup {[from |-> World, to |-> topic, topic |-> topic]}]
    ELSE g

Grow(g, topic, tagged) == GrowTopic(GrowDerived(g, topic, tagged), g, topic)

(* commit_observation: a duplicate or a full store changes nothing.        *)
Claim(claims, topic, t, fresh) ==
  IF fresh /\ Cardinality(claims) < ClaimCap
    THEN claims \cup {[topic |-> topic, turn |-> t]}
    ELSE claims

(* Mutant: the count is brought up to date, the network is not.            *)
InvalidateCacheRecounts(sem, before) == [sem EXCEPT !.cache.count = EdgeCount(sem.graph)]

(* A changed edge count drops the cached network.                          *)
InvalidateCache(sem, before) ==
  IF EdgeCount(sem.graph) # EdgeCount(before) THEN [sem EXCEPT !.cache = NoCache] ELSE sem

(* Stage 5: the self layer, graph growth, the commitment, the cache.       *)
Finalize ==
  /\ stage = "finalize"
  /\ LET sem == state.semantic
         t == state.turnCount + 1
         witnessed == Witness(sem.essence, t)
         tagged == /\ sem.counterfactual > ContradictionLevel
                   /\ witnessed.angst >= DoubtAngst
     IN \E fresh \in BOOLEAN :
          state' = [state EXCEPT !.semantic = InvalidateCache(
                      [sem EXCEPT !.essence = Collapse(witnessed, turn.topic),
                                  !.graph = Grow(@, turn.topic, tagged),
                                  !.claims = Claim(@, turn.topic, t, fresh)],
                      sem.graph)]
  /\ stage' = "guard"
  /\ UNCHANGED <<snapshot, turn, packs, answered>>

(* Stage 6: the verdict becomes the turn decision.                         *)
Guard ==
  /\ stage = "guard"
  /\ \E status \in {"allowed", "warned", "blocked"} :
       /\ turn' = [turn EXCEPT !.status = status]
       /\ state' = [state EXCEPT !.decision = status]
  /\ stage' = "fact_grounded"
  /\ UNCHANGED <<snapshot, packs, answered>>

(* validate_pack_fingerprint                                               *)
FingerprintAccepted(sem) ==
  IF sem.fingerprint = NoPack THEN sem.opinions = {} ELSE sem.fingerprint = packs

HasOpinion(sem, topic) == \E o \in sem.opinions : o.topic = topic

(* What finalize_fact_grounded_state refuses.                              *)
GroundingFails ==
  /\ turn.status # "blocked"
  /\ turn.receipt
  /\ \/ ~FingerprintAccepted(state.semantic)
     \/ /\ turn.rollout = "Enabled"
        /\ ~HasOpinion(state.semantic, turn.topic)
        /\ Cardinality(state.semantic.opinions) >= OpinionCap

(* integrate_curated_claims and the binding of the session to its packs.   *)
Integrate(sem) ==
  [sem EXCEPT
     !.opinions = IF HasOpinion(sem, turn.topic) THEN @
                  ELSE @ \cup {[topic |-> turn.topic, pack |-> packs]},
     !.fingerprint = IF @ = NoPack THEN packs ELSE @]

(* An answered, receipted turn under an authorizing rollout is integrated. *)
FactGrounded ==
  /\ stage = "fact_grounded"
  /\ ~(GroundingFails /\ turn.rollout = "Enabled")
  /\ state' = IF /\ turn.receipt /\ turn.rollout = "Enabled"
                 /\ turn.status # "blocked"
                THEN [state EXCEPT !.semantic = Integrate(@)]
                ELSE state
  /\ stage' = "persist"
  /\ UNCHANGED <<snapshot, turn, packs, answered>>

(* The governance event of the turn, with persist_stage's trim.            *)
Logged(s, status) ==
  LastN(Append(s.log, [turn |-> s.turnCount + 1, status |-> status]), HistoryCap)

(* Mutants: a refused turn gives back only one of the two.                 *)
RejectKeepsSemantic(s) == [s EXCEPT !.conversation = snapshot.conversation]

RejectKeepsConversation(s) == [s EXCEPT !.semantic = snapshot.semantic]

(* A refused turn gives its semantic and conversation state back.          *)
Reject(s) == [s EXCEPT !.semantic = snapshot.semantic,
                       !.conversation = snapshot.conversation]

(* State sync: the turn is counted and its text kept, refused or not.      *)
Sync(s, status) ==
  [s EXCEPT !.turnCount = @ + 1, !.history = LastN(Append(@, status), HistoryCap)]

Capped(n) == IF n < FieldMax THEN n + 1 ELSE n

(* Field adjustments: familiar topics raise confidence, others doubt.      *)
AdjustField(sem, topic) ==
  IF topic \in sem.graph.atoms
    THEN [sem EXCEPT !.confidence = Capped(@)]
    ELSE [sem EXCEPT !.counterfactual = Capped(@)]

(* Stage 7 and the rest of process_turn_internal.                          *)
Persist ==
  /\ stage = "persist"
  /\ LET logged == [state EXCEPT !.log = Logged(state, state.decision)]
     IN  IF turn.status = "blocked"
           THEN /\ state' = Sync(Reject(logged), turn.status)
                /\ UNCHANGED answered
           ELSE /\ state' = [Sync(logged, turn.status) EXCEPT
                               !.semantic = AdjustField(@, turn.topic)]
                /\ answered' = answered \cup
                     {[turn |-> state.turnCount + 1, topic |-> turn.topic]}
  /\ stage' = "idle"
  /\ UNCHANGED <<snapshot, turn, packs>>

(* Mutant: the rollback forgets the decision prepare_stage had taken.      *)
StageFailsKeepsDecision ==
  /\ \/ stage = "plan_shadow"
     \/ stage = "render" /\ turn.renderer = "v2"
  /\ state' = [snapshot EXCEPT !.decision = state.decision]
  /\ stage' = "idle"
  /\ UNCHANGED <<snapshot, turn, packs, answered>>

(* Stages that can return an error put the snapshot back.                  *)
StageFails ==
  /\ \/ stage = "plan_shadow"
     \/ stage = "render" /\ turn.renderer = "v2"
     \/ stage = "finalize" /\ turn.receipt /\ turn.rollout = "Enabled"
     \/ stage = "fact_grounded" /\ GroundingFails /\ turn.rollout = "Enabled"
  /\ state' = snapshot
  /\ stage' = "idle"
  /\ UNCHANGED <<snapshot, turn, packs, answered>>

(***************************************************************************)
(* Saved and loaded by another process, perhaps with other packs: caches   *)
(* are not stored, and load_state refuses a session bound to other packs.  *)
(***************************************************************************)
Restart ==
  /\ stage = "idle"
  /\ \E p \in Packs :
       /\ state.semantic.fingerprint \in {NoPack, p}
       /\ packs' = p
       /\ packs' # packs \/ state.semantic.cache.built
  /\ state' = [state EXCEPT !.semantic.cache = NoCache]
  /\ UNCHANGED <<snapshot, stage, turn, answered>>

Init ==
  /\ state \in {FreshState(EmptyGraph), FreshState(SeedGraph)}
  /\ snapshot = state
  /\ stage = "idle"
  /\ turn = NoTurn
  /\ packs \in Packs
  /\ answered = {}

Next ==
  \/ Begin \/ Prepare \/ Route \/ PlanShadow \/ Render \/ Finalize \/ Guard
  \/ FactGrounded \/ Persist \/ StageFails \/ Restart

Spec == Init /\ [][Next]_vars
----------------------------------------------------------------------------
Idle == stage = "idle"
(***************************************************************************)
(* Whatever a turn did (grew the graph up to its limits, failed half-way,  *)
(* was refused after growing), the session it leaves passes validate(), so *)
(* the next turn and the next save are never refused.                      *)
(***************************************************************************)
ValidBetweenTurns == Idle => Validate(state)

(***************************************************************************)
(* "A rejected response must not mutate semantic/self state": every        *)
(* witness, commitment claim and grown edge a session holds between turns  *)
(* comes from a turn whose response reached the user.                      *)
(***************************************************************************)
RefusedTurnsTeachNothing ==
  Idle =>
    LET sem == state.semantic
        turns == {a.turn : a \in answered}
    IN  /\ \A i \in 1 .. Len(sem.essence.witnesses) : sem.essence.witnesses[i] \in turns
        /\ sem.essence.commitment \in turns \cup {0}
        /\ \A c \in sem.claims : [turn |-> c.turn, topic |-> c.topic] \in answered
        /\ \A e \in sem.graph.grown : e.topic \in {a.topic : a \in answered}

(***************************************************************************)
(* Between turns the dialogue history, the governance log and the turn     *)
(* decision tell one story: same length, same verdicts, consecutive turns  *)
(* ending at the turn count, and the decision is that of the last entry.   *)
(* A failed turn, which is in none of them, must not disturb this.         *)
(***************************************************************************)
LogTellsTheHistory ==
  Idle =>
    LET n == Len(state.log)
    IN  /\ Len(state.history) = n
        /\ \A i \in 1 .. n : /\ state.log[i].status = state.history[i]
                             /\ state.log[i].turn = state.turnCount - n + i
        /\ state.decision = IF n = 0 THEN "none" ELSE state.log[n].status

(***************************************************************************)
(* The network cache is recognised by the number of edges alone.  When it  *)
(* would be reused it was built from exactly the current graph, although   *)
(* graphs grow, are given back and grow differently.                       *)
(***************************************************************************)
CacheHitIsFresh ==
  LET sem == state.semantic
  IN  sem.cache.built /\ sem.cache.count = EdgeCount(sem.graph) => sem.cache.of = sem.graph

(***************************************************************************)
(* From one turn boundary to the next an essence commitment is kept as it  *)
(* is unless a collapse, recorded as a reset event, cleared it.            *)
(***************************************************************************)
CommitmentEndsInCollapse ==
  [][stage' = "idle" /\ snapshot.semantic.essence.commitment # 0
       => \/ /\ state'.semantic.essence.commitment = snapshot.semantic.essence.commitment
             /\ state'.semantic.essence.resets = snapshot.semantic.essence.resets
          \/ /\ state'.semantic.essence.commitment = 0
             /\ state'.semantic.essence.resets = snapshot.semantic.essence.resets + 1]_stage

(***************************************************************************)
(* "Unknown topic -> valence drifts negative (uncertainty)": an answered   *)
(* turn whose topic the session did not know raises its counterfactual and *)
(* not its confidence.                                                     *)
(***************************************************************************)
UnknownTopicRaisesDoubt ==
  [][stage = "persist" /\ turn.status # "blocked" /\ ~turn.known
       => state'.semantic.confidence = state.semantic.confidence]_vars

(***************************************************************************)
(* The staged turn implements the whole one: seen at turn boundaries, with *)
(* the snapshot standing for the session while stages run, a turn answers, *)
(* refuses or has not happened.  SessionStore relies on it when it takes a *)
(* turn of the pipeline as one step on the loaded session.                 *)
(***************************************************************************)
Boundary == IF Idle THEN state ELSE snapshot

Outcomes == INSTANCE TurnOutcomes WITH
  count     <- Boundary.turnCount,
  verdict   <- Boundary.decision,
  knowledge <- [atoms    |-> Boundary.semantic.graph.atoms,
                edges    |-> Boundary.semantic.graph.grown,
                claims   |-> Boundary.semantic.claims,
                opinions |-> Boundary.semantic.opinions],
  self      <- <<Boundary.semantic.essence, Boundary.semantic.confidence,
                 Boundary.semantic.counterfactual>>,
  talk      <- Boundary.conversation

(* The staged pipeline is an implementation of whole turns.                *)
ImplementsOutcomes == Outcomes!Spec
============================================================================
