------------------------- MODULE TurnPipelineProofs -------------------------
(***************************************************************************)
(* Proofs about TurnPipeline, for any topics, packs, limits and any number *)
(* of turns, failures, refusals and restarts.                              *)
(***************************************************************************)
EXTENDS TurnPipeline, FiniteSetTheorems, SequenceTheorems, TLAPS

LEMMA Limits ==
  /\ SeedEdges \in Nat \ {0} /\ MaxAtoms \in Nat \ {0} /\ MaxEdges \in Nat \ {0}
  /\ HistoryCap \in Nat \ {0} /\ WitnessCap \in Nat \ {0}
  /\ ClaimCap \in Nat \ {0} /\ OpinionCap \in Nat \ {0}
  /\ CommitAngst \in Nat \ {0} /\ CollapseAngst \in Nat \ {0}
  /\ FieldStart \in Nat \ {0} /\ FieldMax \in Nat \ {0} /\ FieldStart <= FieldMax
  BY LimitAssumption

LEMMA SeedIsFinite ==
  /\ SeedAtoms \subseteq Atoms /\ IsFiniteSet(SeedAtoms)
  /\ Cardinality(SeedAtoms) \in Nat /\ Cardinality(SeedAtoms) <= MaxAtoms
  BY TopicAssumption, LimitAssumption, FS_Subset, FS_CardinalityType DEF Topics, Atoms

(* The last n entries of a sequence. *)
LEMMA LastNFacts ==
  ASSUME NEW S, NEW s \in Seq(S), NEW n \in Nat
  PROVE  /\ LastN(s, n) \in Seq(S)
         /\ Len(LastN(s, n)) = IF Len(s) > n THEN n ELSE Len(s)
         /\ \A i \in 1 .. Len(LastN(s, n)) :
              LastN(s, n)[i] = s[Len(s) - Len(LastN(s, n)) + i]
<1>1. CASE Len(s) > n
  <2>1. \A i \in Len(s) - n + 1 .. Len(s) : s[i] \in S
    BY <1>1, ElementOfSeq
  <2>2. /\ LastN(s, n) \in Seq(S) /\ Len(LastN(s, n)) = n
        /\ \A i \in 1 .. n : LastN(s, n)[i] = s[Len(s) - n + 1 + i - 1]
    BY <1>1, <2>1, SubSeqProperties DEF LastN
  <2> QED BY <1>1, <2>2
<1>2. CASE ~(Len(s) > n)
  BY <1>2 DEF LastN
<1> QED BY <1>1, <1>2

-----------------------------------------------------------------------------
(* Graphs: every grown edge hangs between atoms and came with an atom.      *)
Graph == [seeded : BOOLEAN, atoms : SUBSET Atoms,
          grown : SUBSET [from : Atoms, to : Atoms, topic : Topics]]

GraphInv(g) ==
  /\ g \in Graph /\ IsFiniteSet(g.atoms) /\ IsFiniteSet(g.grown)
  /\ \A e \in g.grown : e.from \in g.atoms /\ e.to \in g.atoms
  /\ Cardinality(g.atoms) <= MaxAtoms
  /\ g.seeded => Cardinality(g.grown) + Cardinality(SeedAtoms) <= Cardinality(g.atoms)
  /\ ~g.seeded => g = EmptyGraph

LEMMA EmptyGraphInv == GraphInv(EmptyGraph) /\ EdgeCount(EmptyGraph) = 0
<1>1. IsFiniteSet({}) /\ Cardinality({}) = 0
  BY FS_EmptySet
<1> QED BY <1>1, Limits DEF EmptyGraph, GraphInv, Graph, EdgeCount

LEMMA SeedGraphInv == GraphInv(SeedGraph) /\ SeedGraph.seeded
<1>1. IsFiniteSet({}) /\ Cardinality({}) = 0
  BY FS_EmptySet
<1> QED BY <1>1, Limits, SeedIsFinite DEF SeedGraph, GraphInv, Graph

LEMMA EdgeCounts ==
  ASSUME NEW g, GraphInv(g)
  PROVE  /\ EdgeCount(g) \in Nat
         /\ g.seeded => EdgeCount(g) > 0
         /\ ~g.seeded => EdgeCount(g) = 0
         /\ GraphValid(g)
<1>1. Cardinality(g.grown) \in Nat /\ Cardinality(g.atoms) \in Nat
  BY FS_CardinalityType DEF GraphInv
<1>2. EdgeCount(g) \in Nat /\ (g.seeded => EdgeCount(g) > 0)
  BY <1>1, Limits DEF EdgeCount
<1>3. ~g.seeded => EdgeCount(g) = 0
  BY EmptyGraphInv DEF GraphInv
<1>4. EdgeCount(g) <= MaxEdges
  <2>1. CASE g.seeded
    BY <2>1, <1>1, Limits, SeedIsFinite, LimitAssumption DEF EdgeCount, GraphInv
  <2> QED BY <2>1, <1>3, Limits
<1> QED BY <1>2, <1>3, <1>4 DEF GraphValid, GraphInv

(* One more edge, with one or more atoms that were not there. *)
LEMMA AddEdge ==
  ASSUME NEW g, GraphInv(g), g.seeded, NEW e \in [from : Atoms, to : Atoms, topic : Topics],
         e \notin g.grown, NEW new \in SUBSET Atoms, IsFiniteSet(new),
         e.from \in g.atoms \cup new, e.to \in g.atoms \cup new,
         Cardinality(g.atoms) < Cardinality(g.atoms \cup new),
         Cardinality(g.atoms \cup new) <= MaxAtoms
  PROVE  LET h == [g EXCEPT !.atoms = @ \cup new, !.grown = @ \cup {e}]
         IN  GraphInv(h) /\ h.seeded /\ EdgeCount(h) = EdgeCount(g) + 1
<1> DEFINE h == [g EXCEPT !.atoms = @ \cup new, !.grown = @ \cup {e}]
<1>1. /\ h \in Graph /\ h.seeded
      /\ h.atoms = g.atoms \cup new /\ h.grown = g.grown \cup {e}
  BY DEF GraphInv, Graph
<1> HIDE DEF h
<1>2. IsFiniteSet(h.grown) /\ Cardinality(h.grown) = Cardinality(g.grown) + 1
  <2>1. IsFiniteSet(g.grown)
    BY DEF GraphInv
  <2>2. /\ IsFiniteSet(g.grown \cup {e})
        /\ Cardinality(g.grown \cup {e}) = Cardinality(g.grown) + 1
    BY <2>1, FS_AddElement
  <2> QED BY <2>2, <1>1
<1>3. IsFiniteSet(h.atoms)
  <2>1. IsFiniteSet(g.atoms)
    BY DEF GraphInv
  <2>2. IsFiniteSet(g.atoms \cup new)
    BY <2>1, FS_Union
  <2> QED BY <2>2, <1>1
<1>4. /\ Cardinality(g.grown) \in Nat /\ Cardinality(g.atoms) \in Nat
      /\ Cardinality(h.atoms) \in Nat
  BY <1>3, FS_CardinalityType DEF GraphInv
<1>5. GraphInv(h)
  BY <1>1, <1>2, <1>3, <1>4, SeedIsFinite DEF GraphInv
<1>6. EdgeCount(h) = EdgeCount(g) + 1
  BY <1>1, <1>2, <1>4, Limits DEF EdgeCount
<1> QED BY <1>1, <1>5, <1>6 DEF h

(* The topic with the atom it hangs from, where there is room for them.     *)
LEMMA ReservedFits ==
  ASSUME NEW g, GraphInv(g), NEW topic \in Topics, topic \notin g.atoms,
         CanRegisterTopic(g, topic)
  PROVE  /\ Cardinality(g.atoms) \in Nat
         /\ Cardinality(g.atoms \cup {topic, World}) = Cardinality(g.atoms) + ReservedAtoms(g, topic)
         /\ ReservedAtoms(g, topic) \in {1, 2}
         /\ Cardinality(g.atoms \cup {topic, World}) <= MaxAtoms
<1>1. IsFiniteSet(g.atoms) /\ World # topic
  BY TopicAssumption DEF GraphInv
<1>2. /\ IsFiniteSet(g.atoms \cup {topic})
      /\ Cardinality(g.atoms \cup {topic}) = Cardinality(g.atoms) + 1
  BY <1>1, FS_AddElement
<1>3. Cardinality((g.atoms \cup {topic}) \cup {World})
        = IF World \in g.atoms \cup {topic} THEN Cardinality(g.atoms \cup {topic})
          ELSE Cardinality(g.atoms \cup {topic}) + 1
  BY <1>2, FS_AddElement
<1>4. (g.atoms \cup {topic}) \cup {World} = g.atoms \cup {topic, World}
  OBVIOUS
<1>5. Cardinality(g.atoms) \in Nat
  BY <1>1, FS_CardinalityType
<1>6. ReservedAtoms(g, topic) = IF World \in g.atoms THEN 1 ELSE 2
  BY DEF ReservedAtoms
<1>7. Cardinality(g.atoms \cup {topic, World}) = Cardinality(g.atoms) + ReservedAtoms(g, topic)
  BY <1>1, <1>2, <1>3, <1>4, <1>5, <1>6
<1>8. Cardinality(g.atoms) + ReservedAtoms(g, topic) <= MaxAtoms
  BY DEF CanRegisterTopic
<1> QED BY <1>5, <1>6, <1>7, <1>8

(* What growth does to a graph: limits and references hold, nothing is lost, *)
(* what is new is about the topic, and the edge count tells whether it grew. *)
Grown(g, h, topic) ==
  /\ GraphInv(h) /\ h.seeded
  /\ g.atoms \subseteq h.atoms /\ g.grown \subseteq h.grown
  /\ \A e \in h.grown \ g.grown : e.topic = topic
  /\ EdgeCount(h) = EdgeCount(g) => h = g

LEMMA GrowthIsSound ==
  ASSUME NEW g, GraphInv(g), g.seeded, NEW topic \in Topics, NEW tagged
  PROVE  Grown(g, Grow(g, topic, tagged), topic)
<1> DEFINE derivedEdge == [from |-> Derived, to |-> topic, topic |-> topic]
           topicEdge == [from |-> World, to |-> topic, topic |-> topic]
           WithDerived(x) == [x EXCEPT !.atoms = @ \cup {Derived}, !.grown = @ \cup {derivedEdge}]
           WithTopic(x) == [x EXCEPT !.atoms = @ \cup {topic, World}, !.grown = @ \cup {topicEdge}]
           derives == /\ tagged /\ CanRegisterTopic(g, topic) /\ Derived \notin g.atoms
                      /\ Cardinality(g.atoms) < MaxAtoms - ReservedAtoms(g, topic)
                      /\ EdgeCount(g) < MaxEdges
           new == topic \notin g.atoms /\ CanRegisterTopic(g, topic)
<1>1. GrowDerived(g, topic, tagged) = IF derives THEN WithDerived(g) ELSE g
  BY DEF GrowDerived
<1>2. \A x : GrowTopic(x, g, topic) = IF new THEN WithTopic(x) ELSE x
  BY DEF GrowTopic
<1>3. /\ g \in Graph /\ derivedEdge \in [from : Atoms, to : Atoms, topic : Topics]
      /\ topicEdge \in [from : Atoms, to : Atoms, topic : Topics]
      /\ {Derived} \in SUBSET Atoms /\ {topic, World} \in SUBSET Atoms
      /\ topicEdge # derivedEdge /\ Derived \notin {topic, World}
  BY TopicAssumption DEF Atoms, GraphInv
<1>4. /\ derivedEdge.from = Derived /\ derivedEdge.to = topic /\ derivedEdge.topic = topic
      /\ topicEdge.from = World /\ topicEdge.to = topic /\ topicEdge.topic = topic
  OBVIOUS
<1>5. Cardinality(g.atoms) \in Nat /\ EdgeCount(g) \in Nat
  BY EdgeCounts, FS_CardinalityType DEF GraphInv
<1>6. ASSUME NEW x, GraphInv(x), x.seeded, topic \in x.atoms, Derived \notin x.atoms,
             Cardinality(x.atoms) < MaxAtoms
      PROVE  /\ GraphInv(WithDerived(x)) /\ WithDerived(x).seeded
             /\ EdgeCount(WithDerived(x)) = EdgeCount(x) + 1
             /\ WithDerived(x).atoms = x.atoms \cup {Derived}
             /\ WithDerived(x).grown = x.grown \cup {derivedEdge}
  <2>1. derivedEdge \notin x.grown /\ x \in Graph /\ IsFiniteSet(x.atoms)
    BY <1>6, <1>4 DEF GraphInv
  <2>2. /\ IsFiniteSet({Derived})
        /\ Cardinality(x.atoms \cup {Derived}) = Cardinality(x.atoms) + 1
    <3>1. IsFiniteSet({Derived})
      BY FS_Singleton
    <3> QED BY <2>1, <1>6, <3>1, FS_AddElement
  <2>3. Cardinality(x.atoms) \in Nat
    BY <2>1, FS_CardinalityType
  <2>4. /\ derivedEdge.from \in x.atoms \cup {Derived}
        /\ derivedEdge.to \in x.atoms \cup {Derived}
        /\ Cardinality(x.atoms) < Cardinality(x.atoms \cup {Derived})
        /\ Cardinality(x.atoms \cup {Derived}) <= MaxAtoms
    BY <1>6, <1>4, <2>2, <2>3, Limits
  <2> HIDE DEF derivedEdge
  <2>5. /\ GraphInv(WithDerived(x)) /\ WithDerived(x).seeded
        /\ EdgeCount(WithDerived(x)) = EdgeCount(x) + 1
    BY <1>3, <1>6, <2>1, <2>2, <2>4, AddEdge
  <2>6. /\ WithDerived(x).atoms = x.atoms \cup {Derived}
        /\ WithDerived(x).grown = x.grown \cup {derivedEdge}
    BY <2>1 DEF Graph
  <2> QED BY <2>5, <2>6
<1>7. ASSUME new
      PROVE  /\ GraphInv(WithTopic(g)) /\ WithTopic(g).seeded
             /\ EdgeCount(WithTopic(g)) = EdgeCount(g) + 1
             /\ WithTopic(g).atoms = g.atoms \cup {topic, World}
             /\ WithTopic(g).grown = g.grown \cup {topicEdge}
             /\ Cardinality(WithTopic(g).atoms) = Cardinality(g.atoms) + ReservedAtoms(g, topic)
             /\ ReservedAtoms(g, topic) \in {1, 2}
  <2>1. topicEdge \notin g.grown /\ IsFiniteSet({topic, World})
    <3>1. IsFiniteSet({topic}) /\ IsFiniteSet({World})
      BY FS_Singleton
    <3>2. IsFiniteSet({topic} \cup {World})
      BY <3>1, FS_Union
    <3>3. {topic} \cup {World} = {topic, World}
      OBVIOUS
    <3>4. topicEdge \notin g.grown
      BY <1>7, <1>4 DEF GraphInv
    <3> QED BY <3>2, <3>3, <3>4
  <2>2. /\ Cardinality(g.atoms \cup {topic, World}) = Cardinality(g.atoms) + ReservedAtoms(g, topic)
        /\ ReservedAtoms(g, topic) \in {1, 2}
        /\ Cardinality(g.atoms \cup {topic, World}) <= MaxAtoms
    BY <1>7, ReservedFits
  <2>3. /\ topicEdge.from \in g.atoms \cup {topic, World}
        /\ topicEdge.to \in g.atoms \cup {topic, World}
        /\ Cardinality(g.atoms) < Cardinality(g.atoms \cup {topic, World})
    BY <1>4, <1>5, <2>2
  <2> HIDE DEF topicEdge
  <2>4. /\ GraphInv(WithTopic(g)) /\ WithTopic(g).seeded
        /\ EdgeCount(WithTopic(g)) = EdgeCount(g) + 1
    BY <1>3, <2>1, <2>2, <2>3, AddEdge
  <2>5. /\ WithTopic(g).atoms = g.atoms \cup {topic, World}
        /\ WithTopic(g).grown = g.grown \cup {topicEdge}
    BY <1>3 DEF Graph
  <2> QED BY <2>2, <2>4, <2>5
<1>8. ReservedAtoms(g, topic) \in {0, 1, 2}
  BY DEF ReservedAtoms
<1>9. CASE ~derives /\ ~new
  BY <1>9, <1>1, <1>2 DEF Grow, Grown
<1>10. CASE ~derives /\ new
  <2>1. Grow(g, topic, tagged) = WithTopic(g)
    BY <1>10, <1>1, <1>2 DEF Grow
  <2> HIDE DEF WithTopic, topicEdge
  <2> QED BY <1>4, <1>5, <1>7, <1>10, <2>1 DEF Grown
<1>11. CASE derives /\ ~new
  <2>1. topic \in g.atoms
    BY <1>11
  <2>2. Grow(g, topic, tagged) = WithDerived(g)
    BY <1>11, <1>1, <1>2 DEF Grow
  <2>3. Cardinality(g.atoms) < MaxAtoms
    BY <1>5, <1>8, <1>11, Limits
  <2> HIDE DEF WithDerived, derivedEdge
  <2>4. /\ GraphInv(WithDerived(g)) /\ WithDerived(g).seeded
        /\ EdgeCount(WithDerived(g)) = EdgeCount(g) + 1
        /\ WithDerived(g).atoms = g.atoms \cup {Derived}
        /\ WithDerived(g).grown = g.grown \cup {derivedEdge}
    BY <1>6, <1>11, <2>1, <2>3
  <2> HIDE DEF derives, new
  <2> QED BY <1>4, <1>5, <2>2, <2>4 DEF Grown
<1>12. CASE derives /\ new
  <2>1. /\ GraphInv(WithTopic(g)) /\ WithTopic(g).seeded
        /\ topic \in WithTopic(g).atoms /\ Derived \notin WithTopic(g).atoms
    <3> HIDE DEF WithTopic
    <3> QED BY <1>3, <1>7, <1>12
  <2>2. Cardinality(WithTopic(g).atoms) < MaxAtoms
    <3> HIDE DEF WithTopic
    <3> QED BY <1>5, <1>7, <1>12, Limits
  <2>3. Grow(g, topic, tagged) = WithTopic(WithDerived(g))
    BY <1>12, <1>1, <1>2 DEF Grow
  <2>4. WithTopic(WithDerived(g)) = WithDerived(WithTopic(g))
    BY <1>3 DEF Graph
  <2> HIDE DEF WithTopic, WithDerived, topicEdge, derivedEdge
  <2>5. /\ GraphInv(WithDerived(WithTopic(g))) /\ WithDerived(WithTopic(g)).seeded
        /\ EdgeCount(WithDerived(WithTopic(g))) = EdgeCount(WithTopic(g)) + 1
        /\ WithDerived(WithTopic(g)).atoms = WithTopic(g).atoms \cup {Derived}
        /\ WithDerived(WithTopic(g)).grown = WithTopic(g).grown \cup {derivedEdge}
    BY <1>6, <2>1, <2>2
  <2> HIDE DEF derives, new
  <2>6. EdgeCount(WithDerived(WithTopic(g))) = EdgeCount(g) + 2
    BY <1>5, <1>7, <1>12, <2>5
  <2>7. /\ WithDerived(WithTopic(g)).atoms = g.atoms \cup {topic, World, Derived}
        /\ WithDerived(WithTopic(g)).grown = g.grown \cup {topicEdge, derivedEdge}
    BY <1>7, <1>12, <2>5
  <2> QED BY <1>4, <1>5, <2>3, <2>4, <2>5, <2>6, <2>7 DEF Grown
<1> QED BY <1>9, <1>10, <1>11, <1>12
-----------------------------------------------------------------------------
(* What a session is made of. *)
Statuses == {"none", "allowed", "warned", "blocked"}
Talks == {"Idle", "Greeting", "Reasoning", "Reflecting", "InformationGathering", "Clarifying"}
Stages == {"idle", "prepare", "route", "plan_shadow", "render", "finalize", "guard",
           "fact_grounded", "persist"}

Essence == [angst : Nat, witnesses : Seq(Nat), commitment : Nat, resets : Nat]

Semantic ==
  [graph : Graph, cache : [built : BOOLEAN, count : Nat, of : Graph], essence : Essence,
   claims : SUBSET [topic : Topics, turn : Nat], opinions : SUBSET [topic : Topics, pack : Packs],
   fingerprint : Packs \cup {NoPack}, confidence : Nat, counterfactual : Nat]

Entry == [turn : Nat, status : Statuses]

Session ==
  [turnCount : Nat, history : Seq(Statuses), conversation : Talks,
   log : Seq(Entry), decision : Statuses, semantic : Semantic]

TurnContext ==
  [topic : Topics \cup {World}, mode : AllModes, renderer : {"legacy", "audited", "v2"},
   rollout : {"Disabled", "TraceOnly", "Enabled"}, known : BOOLEAN, planReady : BOOLEAN,
   receipt : BOOLEAN, status : Statuses]

(* Semantic state within its limits, whose cache, if any, is of its graph.  *)
SemanticInv(sem) ==
  /\ sem \in Semantic /\ GraphInv(sem.graph)
  /\ sem.cache.built => /\ sem.graph.seeded /\ sem.cache.of = sem.graph
                        /\ sem.cache.count = EdgeCount(sem.graph)
  /\ IsFiniteSet(sem.claims) /\ Cardinality(sem.claims) <= ClaimCap
  /\ IsFiniteSet(sem.opinions) /\ Cardinality(sem.opinions) <= OpinionCap
  /\ Len(sem.essence.witnesses) <= WitnessCap
  /\ sem.confidence <= FieldMax /\ sem.counterfactual <= FieldMax

TypeInv ==
  /\ state \in Session /\ snapshot \in Session
  /\ SemanticInv(state.semantic) /\ SemanticInv(snapshot.semantic)
  /\ stage \in Stages /\ turn \in TurnContext /\ packs \in Packs
  /\ answered \in SUBSET [turn : Nat, topic : Topics]
  /\ ~Idle => state.semantic.graph.seeded /\ turn.topic \in Topics

(* The bookkeeping of a session tells one story. *)
BooksAgree(count, history, log) ==
  LET n == Len(log)
  IN  /\ Len(history) = n /\ n <= HistoryCap /\ n <= count
      /\ \A i \in 1 .. n : log[i].status = history[i] /\ log[i].turn = count - n + i

TellsOneStory(s) ==
  /\ BooksAgree(s.turnCount, s.history, s.log)
  /\ s.decision = IF Len(s.log) = 0 THEN "none" ELSE s.log[Len(s.log)].status

(* No stage before the last touches the books, and the guard's verdict is   *)
(* the decision from there on.                                              *)
StoryInv ==
  /\ TellsOneStory(Boundary)
  /\ ~Idle => /\ state.turnCount = snapshot.turnCount
              /\ state.history = snapshot.history /\ state.log = snapshot.log
  /\ stage \in {"fact_grounded", "persist"} =>
       turn.status # "none" /\ state.decision = turn.status

(* Everything learned comes from one of these turns. *)
LearnedFrom(sem, turns) ==
  LET numbers == {a.turn : a \in turns}
  IN  /\ \A i \in 1 .. Len(sem.essence.witnesses) : sem.essence.witnesses[i] \in numbers
      /\ sem.essence.commitment \in numbers \cup {0}
      /\ \A c \in sem.claims : [turn |-> c.turn, topic |-> c.topic] \in turns
      /\ \A e \in sem.graph.grown : e.topic \in {a.topic : a \in turns}

AfterFinalize == {"guard", "fact_grounded", "persist"}
Current == [turn |-> state.turnCount + 1, topic |-> turn.topic]

LearnInv ==
  /\ LearnedFrom(Boundary.semantic, answered)
  /\ ~Idle => LearnedFrom(state.semantic,
                IF stage \in AfterFinalize THEN answered \cup {Current} ELSE answered)

(* A commitment is as it was, or a recorded collapse has cleared it. *)
KeptOrCollapsed(old, new) ==
  old.commitment # 0 =>
    \/ new.commitment = old.commitment /\ new.resets = old.resets
    \/ new.commitment = 0 /\ new.resets = old.resets + 1

(* Within a turn the session only learns. *)
GrowthInv ==
  ~Idle =>
    LET old == snapshot.semantic
        new == state.semantic
    IN  /\ old.graph.atoms \subseteq new.graph.atoms /\ old.graph.grown \subseteq new.graph.grown
        /\ old.claims \subseteq new.claims /\ old.opinions \subseteq new.opinions
        /\ KeptOrCollapsed(old.essence, new.essence)
        /\ stage \notin AfterFinalize => new.essence = old.essence

PipelineInv == TypeInv /\ StoryInv /\ LearnInv /\ GrowthInv
-----------------------------------------------------------------------------
(* What each operation on the semantic state does. *)
LEMMA FreshSemanticInv ==
  ASSUME NEW g, GraphInv(g)
  PROVE  SemanticInv(FreshSemantic(g))
<1>1. IsFiniteSet({}) /\ Cardinality({}) = 0
  BY FS_EmptySet
<1>2. NoCache \in [built : BOOLEAN, count : Nat, of : Graph]
  BY EmptyGraphInv DEF NoCache, GraphInv
<1>3. FreshSemantic(g) \in Semantic
  BY <1>2, Limits DEF FreshSemantic, FreshEssence, Semantic, Essence, GraphInv
<1> QED BY <1>1, <1>3, Limits DEF FreshSemantic, FreshEssence, SemanticInv, NoCache

LEMMA SeedingInv ==
  ASSUME NEW sem, SemanticInv(sem), EdgeCount(sem.graph) = 0
  PROVE  LET new == [sem EXCEPT !.graph = SeedGraph]
         IN  /\ SemanticInv(new) /\ new.graph = SeedGraph
             /\ \A f \in DOMAIN sem \ {"graph"} : new[f] = sem[f]
             /\ sem.graph = EmptyGraph
<1>1. ~sem.graph.seeded /\ sem.graph = EmptyGraph
  BY EdgeCounts DEF SemanticInv, GraphInv
<1>2. [sem EXCEPT !.graph = SeedGraph] \in Semantic
  BY SeedGraphInv DEF SemanticInv, Semantic, GraphInv
<1> QED BY <1>1, <1>2, SeedGraphInv DEF SemanticInv, Semantic

LEMMA CacheInv ==
  ASSUME NEW sem, SemanticInv(sem), sem.graph.seeded
  PROVE  /\ SemanticInv(CachedNetwork(sem))
         /\ \A f \in DOMAIN sem \ {"cache"} : CachedNetwork(sem)[f] = sem[f]
<1>1. EdgeCount(sem.graph) \in Nat
  BY EdgeCounts DEF SemanticInv
<1>2. CachedNetwork(sem) \in Semantic
  BY <1>1 DEF SemanticInv, Semantic, CachedNetwork, GraphInv
<1> QED BY <1>1, <1>2 DEF SemanticInv, Semantic, CachedNetwork

LEMMA NoCacheInv ==
  ASSUME NEW sem, SemanticInv(sem)
  PROVE  LET new == [sem EXCEPT !.cache = NoCache]
         IN  /\ SemanticInv(new)
             /\ \A f \in DOMAIN sem \ {"cache"} : new[f] = sem[f]
<1>1. NoCache \in [built : BOOLEAN, count : Nat, of : Graph] /\ ~NoCache.built
  BY EmptyGraphInv DEF NoCache, GraphInv
<1>2. [sem EXCEPT !.cache = NoCache] \in Semantic
  BY <1>1 DEF SemanticInv, Semantic
<1> QED BY <1>1, <1>2 DEF SemanticInv, Semantic

LEMMA AdjustInv ==
  ASSUME NEW sem, SemanticInv(sem), NEW topic
  PROVE  /\ SemanticInv(AdjustField(sem, topic))
         /\ \A f \in DOMAIN sem \ {"confidence", "counterfactual"} :
              AdjustField(sem, topic)[f] = sem[f]
<1>1. \A n \in Nat : n <= FieldMax => Capped(n) \in Nat /\ Capped(n) <= FieldMax
  BY Limits DEF Capped
<1>2. sem.confidence \in Nat /\ sem.counterfactual \in Nat
  BY DEF SemanticInv, Semantic
<1>3. AdjustField(sem, topic) \in Semantic
  BY <1>1, <1>2 DEF SemanticInv, Semantic, AdjustField
<1> QED BY <1>1, <1>2, <1>3 DEF SemanticInv, Semantic, AdjustField

(* A turn's witness, commitment or collapse. *)
LEMMA EssenceStep ==
  ASSUME NEW ess \in Essence, Len(ess.witnesses) <= WitnessCap, NEW t \in Nat \ {0}, NEW topic
  PROVE  LET new == Collapse(Witness(ess, t), topic)
         IN  /\ new \in Essence /\ Len(new.witnesses) <= WitnessCap
             /\ \A i \in 1 .. Len(new.witnesses) :
                  new.witnesses[i] = t
                  \/ \E j \in 1 .. Len(ess.witnesses) : new.witnesses[i] = ess.witnesses[j]
             /\ new.commitment \in {ess.commitment, t, 0}
             /\ KeptOrCollapsed(ess, new)
<1> DEFINE longer == Append(ess.witnesses, t)
           last == LastN(longer, WitnessCap)
           angst == IF ess.angst < CollapseAngst THEN ess.angst + 1 ELSE ess.angst
           commitment == IF ess.commitment = 0 /\ angst >= CommitAngst THEN t ELSE ess.commitment
           witnessed == [ess EXCEPT !.witnesses = last, !.angst = angst, !.commitment = commitment]
<1>1. /\ ess.witnesses \in Seq(Nat) /\ ess.angst \in Nat
      /\ ess.commitment \in Nat /\ ess.resets \in Nat
  BY DEF Essence
<1>2. /\ longer \in Seq(Nat) /\ Len(longer) = Len(ess.witnesses) + 1
      /\ \A i \in 1 .. Len(longer) :
           longer[i] = IF i <= Len(ess.witnesses) THEN ess.witnesses[i] ELSE t
  BY <1>1
<1>3. /\ last \in Seq(Nat) /\ Len(last) <= WitnessCap
      /\ \A i \in 1 .. Len(last) : last[i] = longer[Len(longer) - Len(last) + i]
      /\ Len(last) <= Len(longer)
  <2> HIDE DEF longer, last
  <2>1. Len(longer) \in Nat /\ WitnessCap \in Nat /\ longer \in Seq(Nat)
    BY <1>2, LenProperties, Limits
  <2>2. /\ last \in Seq(Nat)
        /\ Len(last) = IF Len(longer) > WitnessCap THEN WitnessCap ELSE Len(longer)
        /\ \A i \in 1 .. Len(last) : last[i] = longer[Len(longer) - Len(last) + i]
    BY <2>1, LastNFacts DEF last
  <2>3. Len(last) <= WitnessCap /\ Len(last) <= Len(longer)
    BY <2>1, <2>2
  <2> QED BY <2>2, <2>3
<1>4. \A i \in 1 .. Len(last) :
        last[i] = t \/ \E j \in 1 .. Len(ess.witnesses) : last[i] = ess.witnesses[j]
  <2> HIDE DEF longer, last
  <2> TAKE i \in 1 .. Len(last)
  <2>1. Len(longer) - Len(last) + i \in 1 .. Len(longer)
    BY <1>2, <1>3, LenProperties
  <2> DEFINE j == Len(longer) - Len(last) + i
  <2>2. last[i] = longer[j] /\ Len(ess.witnesses) \in Nat /\ j \in 1 .. Len(longer)
    BY <1>1, <1>3, <2>1, LenProperties
  <2> HIDE DEF j
  <2>3. CASE j <= Len(ess.witnesses)
    <3>1. j \in 1 .. Len(ess.witnesses)
      BY <2>2, <2>3
    <3>2. longer[j] = ess.witnesses[j]
      BY <1>2, <2>2, <2>3
    <3> QED BY <2>2, <3>1, <3>2
  <2>4. CASE ~(j <= Len(ess.witnesses))
    BY <1>2, <2>2, <2>4
  <2> QED BY <2>3, <2>4
<1>5. Witness(ess, t) = witnessed
  BY DEF Witness
<1>6. angst \in Nat /\ commitment \in Nat
  BY <1>1, Limits
<1> HIDE DEF last, angst, commitment
<1>7. /\ witnessed \in Essence /\ witnessed.witnesses = last /\ witnessed.angst = angst
      /\ witnessed.commitment = commitment /\ witnessed.resets = ess.resets
  BY <1>3, <1>6 DEF Essence
<1>8. commitment \in {ess.commitment, t} /\ (ess.commitment # 0 => commitment = ess.commitment)
  BY DEF commitment
<1> HIDE DEF witnessed
<1>9. CASE witnessed.angst >= CollapseAngst /\ topic \in SelfTopics
  <2>1. Collapse(witnessed, topic)
          = [angst |-> 0, witnesses |-> <<>>, commitment |-> 0, resets |-> witnessed.resets + 1]
    BY <1>9 DEF Collapse
  <2> QED BY <1>1, <1>5, <1>7, <2>1, Limits DEF Essence, KeptOrCollapsed
<1>10. CASE ~(witnessed.angst >= CollapseAngst /\ topic \in SelfTopics)
  <2>1. Collapse(witnessed, topic) = witnessed
    BY <1>10 DEF Collapse
  <2> QED BY <1>3, <1>4, <1>5, <1>7, <1>8, <2>1 DEF KeptOrCollapsed
<1> QED BY <1>9, <1>10

(* The claim of a turn. *)
LEMMA ClaimStep ==
  ASSUME NEW claims \in SUBSET [topic : Topics, turn : Nat], IsFiniteSet(claims),
         Cardinality(claims) <= ClaimCap, NEW topic \in Topics, NEW t \in Nat, NEW fresh
  PROVE  LET new == Claim(claims, topic, t, fresh)
         IN  /\ new \in SUBSET [topic : Topics, turn : Nat] /\ IsFiniteSet(new)
             /\ Cardinality(new) <= ClaimCap
             /\ claims \subseteq new /\ new \subseteq claims \cup {[topic |-> topic, turn |-> t]}
<1> DEFINE c == [topic |-> topic, turn |-> t]
<1>1. /\ IsFiniteSet(claims \cup {c})
      /\ Cardinality(claims \cup {c}) = IF c \in claims THEN Cardinality(claims)
                                        ELSE Cardinality(claims) + 1
  BY FS_AddElement
<1>2. Cardinality(claims) \in Nat
  BY FS_CardinalityType
<1>3. CASE fresh /\ Cardinality(claims) < ClaimCap
  <2>1. Claim(claims, topic, t, fresh) = claims \cup {c}
    BY <1>3 DEF Claim
  <2>2. c \in [topic : Topics, turn : Nat]
    OBVIOUS
  <2> HIDE DEF c
  <2>3. Cardinality(claims \cup {c}) <= ClaimCap
    BY <1>1, <1>2, <1>3, Limits
  <2>4. /\ claims \cup {c} \in SUBSET [topic : Topics, turn : Nat]
        /\ claims \subseteq claims \cup {c}
    BY <2>2
  <2> QED BY <1>1, <2>1, <2>3, <2>4 DEF c
<1>4. CASE ~(fresh /\ Cardinality(claims) < ClaimCap)
  BY <1>4 DEF Claim
<1> QED BY <1>3, <1>4

(* What finalize makes of the semantic state. *)
Finalized(sem, topic, t, tagged, fresh) ==
  InvalidateCache([sem EXCEPT !.essence = Collapse(Witness(sem.essence, t), topic),
                              !.graph = Grow(@, topic, tagged),
                              !.claims = Claim(@, topic, t, fresh)],
                  sem.graph)

(* Finalize stays within the limits and keeps a cache only of a graph that  *)
(* did not change; what it adds is of this turn.                            *)
LEMMA FinalizedInv ==
  ASSUME NEW sem, SemanticInv(sem), sem.graph.seeded, NEW topic \in Topics,
         NEW t \in Nat \ {0}, NEW tagged, NEW fresh
  PROVE  LET new == Finalized(sem, topic, t, tagged, fresh)
         IN  /\ SemanticInv(new) /\ Grown(sem.graph, new.graph, topic)
             /\ new.essence = Collapse(Witness(sem.essence, t), topic)
             /\ sem.claims \subseteq new.claims
             /\ new.claims \subseteq sem.claims \cup {[topic |-> topic, turn |-> t]}
             /\ new.opinions = sem.opinions
<1> DEFINE essence == Collapse(Witness(sem.essence, t), topic)
           graph == Grow(sem.graph, topic, tagged)
           claims == Claim(sem.claims, topic, t, fresh)
           learned == [sem EXCEPT !.essence = essence, !.graph = graph, !.claims = claims]
           new == Finalized(sem, topic, t, tagged, fresh)
<1>1. /\ sem \in Semantic /\ GraphInv(sem.graph) /\ sem.essence \in Essence
      /\ Len(sem.essence.witnesses) <= WitnessCap
      /\ sem.claims \in SUBSET [topic : Topics, turn : Nat]
      /\ IsFiniteSet(sem.claims) /\ Cardinality(sem.claims) <= ClaimCap
  BY DEF SemanticInv, Semantic
<1>2. Grown(sem.graph, graph, topic)
  BY <1>1, GrowthIsSound
<1>3. essence \in Essence /\ Len(essence.witnesses) <= WitnessCap
  BY <1>1, EssenceStep
<1>4. /\ claims \in SUBSET [topic : Topics, turn : Nat] /\ IsFiniteSet(claims)
      /\ Cardinality(claims) <= ClaimCap /\ sem.claims \subseteq claims
      /\ claims \subseteq sem.claims \cup {[topic |-> topic, turn |-> t]}
  BY <1>1, ClaimStep
<1>5. new = IF EdgeCount(learned.graph) # EdgeCount(sem.graph)
              THEN [learned EXCEPT !.cache = NoCache] ELSE learned
  BY DEF Finalized, InvalidateCache
<1> HIDE DEF essence, graph, claims, new
<1>6. GraphInv(graph) /\ graph \in Graph
  BY <1>2 DEF Grown, GraphInv
<1>7. /\ learned \in Semantic /\ learned.graph = graph /\ learned.essence = essence
      /\ learned.claims = claims /\ learned.opinions = sem.opinions
      /\ learned.cache = sem.cache /\ learned.confidence = sem.confidence
      /\ learned.counterfactual = sem.counterfactual
  BY <1>1, <1>3, <1>4, <1>6 DEF Semantic
<1> HIDE DEF learned
<1>8. CASE EdgeCount(graph) # EdgeCount(sem.graph)
  <2>1. NoCache \in [built : BOOLEAN, count : Nat, of : Graph] /\ ~NoCache.built
    BY EmptyGraphInv DEF NoCache, GraphInv
  <2>2. /\ new \in Semantic /\ new.graph = graph /\ new.essence = essence
        /\ new.claims = claims /\ new.opinions = sem.opinions
        /\ new.cache = NoCache /\ new.confidence = sem.confidence
        /\ new.counterfactual = sem.counterfactual
    BY <1>5, <1>7, <1>8, <2>1 DEF Semantic
  <2>3. SemanticInv(new)
    BY <1>3, <1>4, <1>6, <2>1, <2>2 DEF SemanticInv
  <2> QED BY <1>2, <1>4, <2>2, <2>3 DEF essence, new
<1>9. CASE EdgeCount(graph) = EdgeCount(sem.graph)
  <2>1. graph = sem.graph /\ new = learned
    BY <1>2, <1>5, <1>7, <1>9 DEF Grown
  <2>2. SemanticInv(new)
    BY <1>3, <1>4, <1>6, <1>7, <2>1 DEF SemanticInv
  <2> QED BY <1>2, <1>4, <1>7, <2>1, <2>2 DEF essence, new
<1> QED BY <1>8, <1>9

(* An integrated turn adds at most its own opinion, and binds the session. *)
LEMMA IntegrateInv ==
  ASSUME NEW sem, SemanticInv(sem), turn.topic \in Topics, packs \in Packs,
         HasOpinion(sem, turn.topic) \/ Cardinality(sem.opinions) < OpinionCap
  PROVE  /\ SemanticInv(Integrate(sem))
         /\ sem.opinions \subseteq Integrate(sem).opinions
         /\ \A f \in DOMAIN sem \ {"opinions", "fingerprint"} : Integrate(sem)[f] = sem[f]
<1> DEFINE o == [topic |-> turn.topic, pack |-> packs]
           opinions == IF HasOpinion(sem, turn.topic) THEN sem.opinions
                       ELSE sem.opinions \cup {o}
           fingerprint == IF sem.fingerprint = NoPack THEN packs ELSE sem.fingerprint
<1>1. /\ sem \in Semantic /\ IsFiniteSet(sem.opinions)
      /\ Cardinality(sem.opinions) <= OpinionCap
      /\ sem.opinions \in SUBSET [topic : Topics, pack : Packs]
      /\ sem.fingerprint \in Packs \cup {NoPack}
  BY DEF SemanticInv, Semantic
<1>2. Integrate(sem) = [sem EXCEPT !.opinions = opinions, !.fingerprint = fingerprint]
  BY DEF Integrate
<1>3. fingerprint \in Packs \cup {NoPack}
  BY <1>1
<1>4. /\ IsFiniteSet(opinions) /\ Cardinality(opinions) <= OpinionCap
      /\ opinions \in SUBSET [topic : Topics, pack : Packs] /\ sem.opinions \subseteq opinions
  <2>1. CASE HasOpinion(sem, turn.topic)
    BY <1>1, <2>1
  <2>2. CASE ~HasOpinion(sem, turn.topic)
    <3>1. o \in [topic : Topics, pack : Packs] /\ Cardinality(sem.opinions) < OpinionCap
      BY <2>2
    <3>2. opinions = sem.opinions \cup {o}
      BY <2>2
    <3> HIDE DEF o, opinions
    <3>3. /\ IsFiniteSet(sem.opinions \cup {o})
          /\ Cardinality(sem.opinions \cup {o})
               = IF o \in sem.opinions THEN Cardinality(sem.opinions)
                 ELSE Cardinality(sem.opinions) + 1
      BY <1>1, FS_AddElement
    <3>4. Cardinality(sem.opinions) \in Nat
      BY <1>1, FS_CardinalityType
    <3>5. Cardinality(opinions) <= OpinionCap
      BY <3>1, <3>2, <3>3, <3>4, Limits
    <3> QED BY <1>1, <3>1, <3>2, <3>3, <3>5
  <2> QED BY <2>1, <2>2
<1> HIDE DEF opinions, fingerprint
<1>5. /\ Integrate(sem) \in Semantic /\ Integrate(sem).opinions = opinions
      /\ \A f \in DOMAIN sem \ {"opinions", "fingerprint"} : Integrate(sem)[f] = sem[f]
  BY <1>1, <1>2, <1>3, <1>4 DEF Semantic
<1>6. SemanticInv(Integrate(sem))
  BY <1>1, <1>4, <1>5 DEF SemanticInv, Semantic
<1> QED BY <1>4, <1>5, <1>6
-----------------------------------------------------------------------------
(* One more turn in the books, trimmed to their limit. *)
LEMMA BooksStep ==
  ASSUME NEW count \in Nat, NEW history \in Seq(Statuses), NEW log \in Seq(Entry),
         BooksAgree(count, history, log), NEW status \in Statuses
  PROVE  LET h == LastN(Append(history, status), HistoryCap)
             l == LastN(Append(log, [turn |-> count + 1, status |-> status]), HistoryCap)
         IN  /\ h \in Seq(Statuses) /\ l \in Seq(Entry) /\ BooksAgree(count + 1, h, l)
             /\ Len(l) > 0 /\ l[Len(l)].status = status
<1> DEFINE entry == [turn |-> count + 1, status |-> status]
           hs == Append(history, status)
           ls == Append(log, entry)
           h == LastN(hs, HistoryCap)
           l == LastN(ls, HistoryCap)
           n == Len(log)
           m == Len(l)
<1>1. /\ entry \in Entry /\ entry.turn = count + 1 /\ entry.status = status
  BY DEF Entry
<1>2. n \in Nat /\ Len(history) = n /\ n <= count /\ HistoryCap \in Nat /\ HistoryCap > 0
  BY Limits, LenProperties DEF BooksAgree
<1>3. \A i \in 1 .. n : log[i].status = history[i] /\ log[i].turn = count - n + i
  BY DEF BooksAgree
<1> HIDE DEF entry
<1>4. /\ hs \in Seq(Statuses) /\ Len(hs) = n + 1
      /\ \A i \in 1 .. n + 1 : hs[i] = IF i <= n THEN history[i] ELSE status
  BY <1>2
<1>5. /\ ls \in Seq(Entry) /\ Len(ls) = n + 1
      /\ \A i \in 1 .. n + 1 : ls[i] = IF i <= n THEN log[i] ELSE entry
  BY <1>1, <1>2
<1> HIDE DEF n
<1>6. \A i \in 1 .. n + 1 : ls[i].status = hs[i] /\ ls[i].turn = count - n + i
  <2> TAKE i \in 1 .. n + 1
  <2>1. CASE i <= n
    BY <1>2, <1>3, <1>4, <1>5, <2>1
  <2>2. CASE ~(i <= n)
    BY <1>1, <1>2, <1>4, <1>5, <2>2
  <2> QED BY <2>1, <2>2
<1> HIDE DEF hs, ls
<1>7. /\ h \in Seq(Statuses) /\ Len(h) = IF Len(hs) > HistoryCap THEN HistoryCap ELSE Len(hs)
      /\ \A i \in 1 .. Len(h) : h[i] = hs[Len(hs) - Len(h) + i]
  BY <1>2, <1>4, LastNFacts
<1>8. /\ l \in Seq(Entry) /\ m = IF Len(ls) > HistoryCap THEN HistoryCap ELSE Len(ls)
      /\ \A i \in 1 .. m : l[i] = ls[Len(ls) - m + i]
  BY <1>2, <1>5, LastNFacts
<1> HIDE DEF h, l, m
<1>9. m \in Nat /\ Len(h) = m /\ m <= HistoryCap /\ m <= n + 1 /\ m > 0
  BY <1>2, <1>4, <1>5, <1>7, <1>8
<1>10. \A i \in 1 .. m : l[i].status = h[i] /\ l[i].turn = count + 1 - m + i
  <2> TAKE i \in 1 .. m
  <2>1. n + 1 - m + i \in 1 .. n + 1
    BY <1>2, <1>9
  <2>2. l[i] = ls[n + 1 - m + i]
    <3>1. l[i] = ls[Len(ls) - m + i]
      BY <1>8
    <3>2. Len(ls) = n + 1
      BY <1>5
    <3> QED BY <1>2, <1>9, <3>1, <3>2
  <2>4. h[i] = hs[n + 1 - m + i]
    <3>1. h[i] = hs[Len(hs) - m + i]
      BY <1>7, <1>9
    <3>2. Len(hs) = n + 1
      BY <1>4
    <3> QED BY <1>2, <1>9, <3>1, <3>2
  <2>3. count - n + (n + 1 - m + i) = count + 1 - m + i
    BY <1>2, <1>9
  <2> QED BY <1>6, <2>1, <2>2, <2>3, <2>4
<1>11. l[m].status = status
  <2>1. l[m] = ls[n + 1]
    <3>1. m \in 1 .. m /\ n + 1 - m + m = n + 1
      BY <1>2, <1>9
    <3>2. l[m] = ls[Len(ls) - m + m]
      BY <1>8, <3>1
    <3> QED BY <1>5, <3>1, <3>2
  <2>2. hs[n + 1] = status
    BY <1>2, <1>4
  <2> QED BY <1>2, <1>6, <2>1, <2>2
<1>12. BooksAgree(count + 1, h, l) /\ Len(l) = m
  <2>1. m <= count + 1
    BY <1>2, <1>9
  <2> QED BY <1>9, <1>10, <2>1 DEF BooksAgree, m
<1> QED BY <1>7, <1>8, <1>9, <1>11, <1>12 DEF h, l, hs, ls, entry

(* A session with another semantic state. *)
LEMMA WithSemantic ==
  ASSUME NEW s \in Session, NEW sem, SemanticInv(sem)
  PROVE  LET new == [s EXCEPT !.semantic = sem]
         IN  /\ new \in Session /\ new.semantic = sem
             /\ new.turnCount = s.turnCount /\ new.history = s.history
             /\ new.log = s.log /\ new.decision = s.decision
             /\ new.conversation = s.conversation
  BY DEF Session, SemanticInv

(* A stage that learns nothing but opinions. *)
SameLearning(old, new) ==
  /\ new.graph = old.graph /\ new.essence = old.essence
  /\ new.claims = old.claims /\ old.opinions \subseteq new.opinions

LEMMA QuietStage ==
  ASSUME PipelineInv, ~Idle, stage' \in Stages, stage' # "idle",
         stage' \in AfterFinalize <=> stage \in AfterFinalize,
         UNCHANGED <<snapshot, packs, answered>>,
         turn' \in TurnContext, turn'.topic = turn.topic,
         state' \in Session, SemanticInv(state'.semantic),
         SameLearning(state.semantic, state'.semantic),
         state'.turnCount = state.turnCount, state'.history = state.history,
         state'.log = state.log,
         stage' \in {"fact_grounded", "persist"} =>
           turn'.status # "none" /\ state'.decision = turn'.status
  PROVE  PipelineInv'
<1>1. TypeInv'
  BY DEF PipelineInv, TypeInv, Idle, SameLearning
<1>2. StoryInv'
  BY DEF PipelineInv, StoryInv, Idle, Boundary
<1>3. LearnInv'
  BY DEF PipelineInv, LearnInv, LearnedFrom, Idle, Boundary, SameLearning, Current
<1>4. GrowthInv'
  BY DEF PipelineInv, GrowthInv, Idle, SameLearning
<1> QED BY <1>1, <1>2, <1>3, <1>4 DEF PipelineInv
-----------------------------------------------------------------------------
(* The invariant holds at the start and over every stage. *)
LEMMA InitEstablishes == Init => PipelineInv
<1> SUFFICES ASSUME Init PROVE PipelineInv
  OBVIOUS
<1>1. PICK g \in {EmptyGraph, SeedGraph} : state = FreshState(g)
  BY DEF Init
<1>2. GraphInv(g) /\ g.grown = {}
  <2>1. GraphInv(g)
    BY EmptyGraphInv, SeedGraphInv
  <2>2. EmptyGraph.grown = {} /\ SeedGraph.grown = {}
    BY DEF EmptyGraph, SeedGraph
  <2> QED BY <2>1, <2>2
<1>3. SemanticInv(FreshSemantic(g))
  BY <1>2, FreshSemanticInv
<1>4. state \in Session /\ state.semantic = FreshSemantic(g)
  BY <1>1, <1>3 DEF FreshState, Session, SemanticInv, Statuses, Talks
<1>5. TypeInv
  BY <1>3, <1>4 DEF Init, TypeInv, NoTurn, TurnContext, Idle, Stages, Statuses, AllModes
<1>6. StoryInv
  <2>1. /\ state.log = <<>> /\ state.history = <<>> /\ state.turnCount = 0
        /\ state.decision = "none"
    BY <1>1 DEF FreshState
  <2>2. BooksAgree(0, <<>>, <<>>)
    BY Limits DEF BooksAgree
  <2> QED BY <2>1, <2>2 DEF Init, StoryInv, TellsOneStory, Boundary, Idle
<1>7. LearnInv
  BY <1>2, <1>4 DEF Init, LearnInv, LearnedFrom, Boundary, Idle, FreshSemantic, FreshEssence
<1> QED BY <1>5, <1>6, <1>7 DEF PipelineInv, GrowthInv, Idle, Init

LEMMA BeginKeeps ==
  ASSUME PipelineInv, Begin
  PROVE  PipelineInv'
<1> DEFINE seeded == [state.semantic EXCEPT !.graph = SeedGraph]
<1>1. /\ state \in Session /\ SemanticInv(state.semantic) /\ snapshot' = state
      /\ stage' = "prepare" /\ packs' = packs /\ answered' = answered /\ Idle
  BY DEF PipelineInv, TypeInv, Begin, Idle
<1>2. /\ SemanticInv(state'.semantic) /\ state' \in Session
      /\ state'.semantic.graph.seeded
      /\ state.semantic.graph.atoms \subseteq state'.semantic.graph.atoms
      /\ state'.semantic.graph.grown = state.semantic.graph.grown
      /\ state'.semantic.claims = state.semantic.claims
      /\ state'.semantic.opinions = state.semantic.opinions
      /\ state'.semantic.essence = state.semantic.essence
      /\ state'.turnCount = state.turnCount /\ state'.history = state.history
      /\ state'.log = state.log
  <2>1. CASE EdgeCount(state.semantic.graph) = 0
    <3>1. /\ SemanticInv(seeded) /\ seeded.graph = SeedGraph
          /\ state.semantic.graph = EmptyGraph
          /\ \A f \in DOMAIN state.semantic \ {"graph"} : seeded[f] = state.semantic[f]
      BY <1>1, <2>1, SeedingInv
    <3>2. state' = [state EXCEPT !.semantic = seeded]
      BY <2>1 DEF Begin
    <3>3. /\ seeded.claims = state.semantic.claims /\ seeded.opinions = state.semantic.opinions
          /\ seeded.essence = state.semantic.essence
      BY <1>1, <3>1 DEF SemanticInv, Semantic
    <3> HIDE DEF seeded
    <3>4. /\ state' \in Session /\ state'.semantic = seeded
          /\ state'.turnCount = state.turnCount /\ state'.history = state.history
          /\ state'.log = state.log
      BY <1>1, <3>1, <3>2, WithSemantic
    <3> QED BY <3>1, <3>3, <3>4 DEF SeedGraph, EmptyGraph
  <2>2. CASE EdgeCount(state.semantic.graph) # 0
    <3>1. state' = state
      BY <2>2 DEF Begin
    <3>2. state.semantic.graph.seeded
      BY <1>1, <2>2, EdgeCounts DEF SemanticInv
    <3> QED BY <1>1, <3>1, <3>2
  <2> QED BY <2>1, <2>2
<1>3. turn' \in TurnContext /\ turn'.topic \in Topics
  <2>1. PICK topic \in Topics, mode \in Modes, renderer \in Renderers, rollout \in Rollouts :
          turn' = [NoTurn EXCEPT !.topic = topic, !.mode = mode,
                     !.renderer = renderer, !.rollout = rollout]
    BY DEF Begin
  <2> QED BY <2>1, TopicAssumption DEF NoTurn, TurnContext, Statuses
<1>4. TypeInv'
  BY <1>1, <1>2, <1>3 DEF PipelineInv, TypeInv, Idle, Stages
<1>5. StoryInv'
  BY <1>1, <1>2 DEF PipelineInv, StoryInv, Boundary, Idle
<1>6. LearnInv'
  BY <1>1, <1>2 DEF PipelineInv, LearnInv, LearnedFrom, Boundary, Idle, AfterFinalize
<1>7. GrowthInv'
  BY <1>1, <1>2 DEF GrowthInv, Idle, KeptOrCollapsed
<1> QED BY <1>4, <1>5, <1>6, <1>7 DEF PipelineInv

LEMMA PrepareKeeps ==
  ASSUME PipelineInv, Prepare
  PROVE  PipelineInv'
<1>1. state \in Session /\ SemanticInv(state.semantic) /\ turn \in TurnContext /\ ~Idle
  BY DEF PipelineInv, TypeInv, Prepare, Idle
<1>2. /\ state' \in Session /\ state'.semantic = state.semantic
      /\ state'.turnCount = state.turnCount /\ state'.history = state.history
      /\ state'.log = state.log
  BY <1>1 DEF Prepare, Session, Statuses
<1>3. turn' \in TurnContext /\ turn'.topic = turn.topic
  <2> DEFINE known == turn.topic \in state.semantic.graph.atoms
  <2>1. known \in BOOLEAN /\ turn' = [turn EXCEPT !.known = known]
    BY DEF Prepare
  <2> HIDE DEF known
  <2> QED BY <1>1, <2>1 DEF TurnContext
<1>4. SameLearning(state.semantic, state'.semantic)
  BY <1>2 DEF SameLearning
<1> QED BY <1>1, <1>2, <1>3, <1>4, QuietStage DEF Prepare, Stages, AfterFinalize

LEMMA RouteKeeps ==
  ASSUME PipelineInv, Route
  PROVE  PipelineInv'
<1>1. state \in Session /\ SemanticInv(state.semantic) /\ turn \in TurnContext /\ ~Idle
  BY DEF PipelineInv, TypeInv, Route, Idle
<1>2. \A c \in Talks : \A e : Transition(c, e) \in Talks
  BY DEF Transition, Talks
<1>3. /\ state' \in Session /\ state'.semantic = state.semantic
      /\ state'.turnCount = state.turnCount /\ state'.history = state.history
      /\ state'.log = state.log
  <2>1. Transition(state.conversation, Event(turn.mode, turn.known)) \in Talks
    BY <1>1, <1>2 DEF Session
  <2> QED BY <1>1, <2>1 DEF Route, Session
<1>4. SameLearning(state.semantic, state'.semantic)
  BY <1>3 DEF SameLearning
<1> QED BY <1>1, <1>3, <1>4, QuietStage DEF Route, Stages, AfterFinalize

LEMMA PlanShadowKeeps ==
  ASSUME PipelineInv, PlanShadow
  PROVE  PipelineInv'
<1>1. state \in Session /\ SemanticInv(state.semantic) /\ turn \in TurnContext /\ ~Idle
  BY DEF PipelineInv, TypeInv, PlanShadow, Idle
<1>2. turn' \in TurnContext /\ turn'.topic = turn.topic
  BY <1>1 DEF PlanShadow, TurnContext
<1>3. SameLearning(state.semantic, state'.semantic)
  BY DEF PlanShadow, SameLearning
<1> QED BY <1>1, <1>2, <1>3, QuietStage DEF PlanShadow, Stages, AfterFinalize

LEMMA RenderKeeps ==
  ASSUME PipelineInv, Render
  PROVE  PipelineInv'
<1>1. /\ state \in Session /\ SemanticInv(state.semantic) /\ turn \in TurnContext /\ ~Idle
      /\ state.semantic.graph.seeded
  BY DEF PipelineInv, TypeInv, Render, Idle
<1>2. turn' \in TurnContext /\ turn'.topic = turn.topic
  <2>1. (AuditedRender /\ turn.rollout # "Disabled") \in BOOLEAN
    BY DEF AuditedRender
  <2> HIDE DEF AuditedRender
  <2> QED BY <1>1, <2>1 DEF Render, TurnContext
<1>3. /\ state' \in Session /\ SemanticInv(state'.semantic)
      /\ state'.turnCount = state.turnCount /\ state'.history = state.history
      /\ state'.log = state.log /\ SameLearning(state.semantic, state'.semantic)
  <2> DEFINE cached == CachedNetwork(state.semantic)
  <2>1. /\ SemanticInv(cached)
        /\ \A f \in DOMAIN state.semantic \ {"cache"} : cached[f] = state.semantic[f]
    BY <1>1, CacheInv
  <2>2. SameLearning(state.semantic, cached)
    BY <1>1, <2>1 DEF SameLearning, SemanticInv, Semantic
  <2>3. state' = state \/ state' = [state EXCEPT !.semantic = cached]
    BY DEF Render
  <2> HIDE DEF cached
  <2>4. CASE state' = state
    BY <1>1, <2>4 DEF SameLearning
  <2>5. CASE state' = [state EXCEPT !.semantic = cached]
    BY <1>1, <2>1, <2>2, <2>5, WithSemantic
  <2> QED BY <2>3, <2>4, <2>5
<1> QED BY <1>1, <1>2, <1>3, QuietStage DEF Render, Stages, AfterFinalize

LEMMA GuardKeeps ==
  ASSUME PipelineInv, Guard
  PROVE  PipelineInv'
<1>1. state \in Session /\ SemanticInv(state.semantic) /\ turn \in TurnContext /\ ~Idle
  BY DEF PipelineInv, TypeInv, Guard, Idle
<1>2. PICK status \in {"allowed", "warned", "blocked"} :
        /\ turn' = [turn EXCEPT !.status = status]
        /\ state' = [state EXCEPT !.decision = status]
  BY DEF Guard
<1>3. /\ state' \in Session /\ state'.semantic = state.semantic
      /\ state'.turnCount = state.turnCount /\ state'.history = state.history
      /\ state'.log = state.log /\ state'.decision = status
  BY <1>1, <1>2 DEF Session, Statuses
<1>4. turn' \in TurnContext /\ turn'.topic = turn.topic /\ turn'.status = status
  BY <1>1, <1>2 DEF TurnContext, Statuses
<1>5. SameLearning(state.semantic, state'.semantic)
  BY <1>3 DEF SameLearning
<1> QED BY <1>1, <1>3, <1>4, <1>5, QuietStage DEF Guard, Stages, AfterFinalize

LEMMA FactGroundedKeeps ==
  ASSUME PipelineInv, FactGrounded
  PROVE  PipelineInv'
<1>1. /\ state \in Session /\ SemanticInv(state.semantic) /\ turn \in TurnContext /\ ~Idle
      /\ turn.topic \in Topics /\ packs \in Packs
      /\ turn.status # "none" /\ state.decision = turn.status
  BY DEF PipelineInv, TypeInv, StoryInv, FactGrounded, Idle
<1>2. /\ state' \in Session /\ SemanticInv(state'.semantic)
      /\ state'.turnCount = state.turnCount /\ state'.history = state.history
      /\ state'.log = state.log /\ state'.decision = state.decision
      /\ SameLearning(state.semantic, state'.semantic)
  <2> DEFINE integrates == /\ turn.receipt /\ turn.rollout = "Enabled"
                           /\ turn.status # "blocked"
             bound == Integrate(state.semantic)
  <2>1. CASE integrates
    <3>1. state' = [state EXCEPT !.semantic = bound]
      BY <2>1 DEF FactGrounded
    <3>2. HasOpinion(state.semantic, turn.topic)
            \/ Cardinality(state.semantic.opinions) < OpinionCap
      <4>1. Cardinality(state.semantic.opinions) \in Nat
        BY <1>1, FS_CardinalityType DEF SemanticInv
      <4>2. HasOpinion(state.semantic, turn.topic)
              \/ ~(Cardinality(state.semantic.opinions) >= OpinionCap)
        BY <2>1 DEF FactGrounded, GroundingFails
      <4> QED BY <4>1, <4>2, Limits
    <3>3. /\ SemanticInv(bound) /\ state.semantic.opinions \subseteq bound.opinions
          /\ \A f \in DOMAIN state.semantic \ {"opinions", "fingerprint"} :
               bound[f] = state.semantic[f]
      BY <1>1, <3>2, IntegrateInv
    <3>4. SameLearning(state.semantic, bound)
      BY <1>1, <3>3 DEF SameLearning, SemanticInv, Semantic
    <3> HIDE DEF bound
    <3> QED BY <1>1, <3>1, <3>3, <3>4, WithSemantic
  <2>2. CASE ~integrates
    <3>1. state' = state
      BY <2>2 DEF FactGrounded
    <3> QED BY <1>1, <3>1 DEF SameLearning
  <2> QED BY <2>1, <2>2
<1> QED BY <1>1, <1>2, QuietStage DEF FactGrounded, Stages, AfterFinalize

LEMMA FinalizeKeeps ==
  ASSUME PipelineInv, Finalize
  PROVE  PipelineInv'
<1> DEFINE old == state.semantic
           t == state.turnCount + 1
           tagged == /\ old.counterfactual > ContradictionLevel
                     /\ Witness(old.essence, t).angst >= DoubtAngst
<1>1. /\ state \in Session /\ SemanticInv(old) /\ turn \in TurnContext /\ ~Idle
      /\ turn.topic \in Topics /\ old.graph.seeded /\ t \in Nat \ {0}
      /\ stage \notin AfterFinalize /\ old \in Semantic /\ old.essence \in Essence
      /\ Len(old.essence.witnesses) <= WitnessCap
  BY DEF PipelineInv, TypeInv, Finalize, Idle, AfterFinalize, Session, SemanticInv, Semantic
<1>2. PICK fresh \in BOOLEAN :
        state' = [state EXCEPT !.semantic = Finalized(old, turn.topic, t, tagged, fresh)]
  BY DEF Finalize, Finalized
<1> DEFINE new == Finalized(old, turn.topic, t, tagged, fresh)
<1> HIDE DEF tagged
<1>3. /\ SemanticInv(new) /\ Grown(old.graph, new.graph, turn.topic)
      /\ new.essence = Collapse(Witness(old.essence, t), turn.topic)
      /\ old.claims \subseteq new.claims
      /\ new.claims \subseteq old.claims \cup {[topic |-> turn.topic, turn |-> t]}
      /\ new.opinions = old.opinions
  BY <1>1, FinalizedInv
<1>4. /\ \A i \in 1 .. Len(new.essence.witnesses) :
           new.essence.witnesses[i] = t
           \/ \E j \in 1 .. Len(old.essence.witnesses) :
                new.essence.witnesses[i] = old.essence.witnesses[j]
      /\ new.essence.commitment \in {old.essence.commitment, t, 0}
      /\ KeptOrCollapsed(old.essence, new.essence)
  <2> HIDE DEF new, t
  <2> QED BY <1>1, <1>3, EssenceStep
<1> HIDE DEF new, t
<1>5. /\ state' \in Session /\ state'.semantic = new
      /\ state'.turnCount = state.turnCount /\ state'.history = state.history
      /\ state'.log = state.log
  BY <1>1, <1>2, <1>3, WithSemantic DEF new
<1>6. /\ stage' = "guard" /\ snapshot' = snapshot /\ turn' = turn /\ packs' = packs
      /\ answered' = answered
  BY DEF Finalize
<1>7. TypeInv'
  BY <1>1, <1>3, <1>5, <1>6 DEF PipelineInv, TypeInv, Idle, Stages, Grown
<1>8. StoryInv'
  BY <1>1, <1>5, <1>6 DEF PipelineInv, StoryInv, Boundary, Idle
<1>9. LearnInv'
  <2> DEFINE turns == answered \cup {Current}
  <2>1. Current = [turn |-> t, topic |-> turn.topic] /\ Current' = Current
    BY <1>5, <1>6 DEF Current, t
  <2>2. LearnedFrom(old, answered)
    BY <1>1 DEF PipelineInv, LearnInv
  <2>3. Current.turn = t /\ Current.topic = turn.topic /\ answered \subseteq turns
    BY <2>1
  <2>4. t \in {a.turn : a \in turns} /\ turn.topic \in {a.topic : a \in turns}
    BY <2>3
  <2>5. /\ {a.turn : a \in answered} \subseteq {a.turn : a \in turns}
        /\ {a.topic : a \in answered} \subseteq {a.topic : a \in turns}
    OBVIOUS
  <2> HIDE DEF turns
  <2>6. /\ \A i \in 1 .. Len(new.essence.witnesses) :
             new.essence.witnesses[i] \in {a.turn : a \in turns}
        /\ new.essence.commitment \in {a.turn : a \in turns} \cup {0}
    BY <1>4, <2>2, <2>4, <2>5 DEF LearnedFrom
  <2>7. \A c \in new.claims : [turn |-> c.turn, topic |-> c.topic] \in turns
    <3>1. Current \in turns
      BY DEF turns
    <3>2. ASSUME NEW c \in new.claims PROVE [turn |-> c.turn, topic |-> c.topic] \in turns
      <4>1. CASE c \in old.claims
        BY <2>2, <2>3, <4>1 DEF LearnedFrom
      <4>2. CASE c = [topic |-> turn.topic, turn |-> t]
        <5>1. [turn |-> c.turn, topic |-> c.topic] = Current
          BY <2>1, <4>2
        <5> QED BY <3>1, <5>1
      <4> QED BY <1>3, <4>1, <4>2
    <3> QED BY <3>2
  <2>8. \A e \in new.graph.grown : e.topic \in {a.topic : a \in turns}
    BY <1>3, <2>2, <2>4, <2>5 DEF LearnedFrom, Grown
  <2>9. LearnedFrom(new, turns)
    BY <2>6, <2>7, <2>8 DEF LearnedFrom
  <2>10. stage' \in AfterFinalize /\ ~Idle' /\ Boundary' = Boundary
    BY <1>1, <1>6 DEF AfterFinalize, Idle, Boundary
  <2> QED BY <1>5, <1>6, <2>1, <2>9, <2>10 DEF turns, PipelineInv, LearnInv
<1>10. GrowthInv'
  BY <1>1, <1>3, <1>4, <1>5, <1>6
     DEF PipelineInv, GrowthInv, Idle, AfterFinalize, Grown, KeptOrCollapsed
<1> QED BY <1>7, <1>8, <1>9, <1>10 DEF PipelineInv

(* At a boundary only the session's own story and lessons count. *)
LEMMA BoundaryKeeps ==
  ASSUME PipelineInv, stage' = "idle", UNCHANGED snapshot, turn' = turn, packs' \in Packs,
         state' \in Session, SemanticInv(state'.semantic), TellsOneStory(state'),
         answered' \in SUBSET [turn : Nat, topic : Topics],
         LearnedFrom(state'.semantic, answered')
  PROVE  PipelineInv'
<1>1. TypeInv'
  BY DEF PipelineInv, TypeInv, Idle, Stages
<1>2. StoryInv' /\ LearnInv' /\ GrowthInv'
  BY DEF StoryInv, LearnInv, GrowthInv, Boundary, Idle
<1> QED BY <1>1, <1>2 DEF PipelineInv

LEMMA StageFailsKeeps ==
  ASSUME PipelineInv, StageFails
  PROVE  PipelineInv'
<1>1. ~Idle /\ state' = snapshot
  BY DEF StageFails, Idle
<1>2. /\ state' \in Session /\ SemanticInv(state'.semantic) /\ packs' \in Packs
      /\ TellsOneStory(state') /\ LearnedFrom(state'.semantic, answered')
      /\ answered' \in SUBSET [turn : Nat, topic : Topics]
  BY <1>1 DEF PipelineInv, TypeInv, StoryInv, LearnInv, Boundary, StageFails
<1> QED BY <1>2, BoundaryKeeps DEF StageFails

LEMMA RestartKeeps ==
  ASSUME PipelineInv, Restart
  PROVE  PipelineInv'
<1> DEFINE bare == [state.semantic EXCEPT !.cache = NoCache]
<1>1. /\ Idle /\ stage' = "idle" /\ packs' \in Packs
      /\ state \in Session /\ SemanticInv(state.semantic)
  BY DEF Restart, Idle, PipelineInv, TypeInv
<1>2. state' = [state EXCEPT !.semantic = bare]
  BY <1>1 DEF Restart, Session
<1>3. /\ SemanticInv(bare)
      /\ \A f \in DOMAIN state.semantic \ {"cache"} : bare[f] = state.semantic[f]
  BY <1>1, NoCacheInv
<1>4. /\ bare.graph = state.semantic.graph /\ bare.essence = state.semantic.essence
      /\ bare.claims = state.semantic.claims
  BY <1>1, <1>3 DEF SemanticInv, Semantic
<1> HIDE DEF bare
<1>5. /\ state' \in Session /\ state'.semantic = bare /\ state'.turnCount = state.turnCount
      /\ state'.history = state.history /\ state'.log = state.log
      /\ state'.decision = state.decision
  BY <1>1, <1>2, <1>3, WithSemantic
<1>6. TellsOneStory(state')
  BY <1>1, <1>5 DEF PipelineInv, StoryInv, TellsOneStory, Boundary
<1>7. LearnedFrom(state'.semantic, answered')
  BY <1>1, <1>4, <1>5 DEF PipelineInv, LearnInv, LearnedFrom, Boundary, Restart
<1>8. answered' \in SUBSET [turn : Nat, topic : Topics]
  BY DEF PipelineInv, TypeInv, Restart
<1> QED BY <1>1, <1>3, <1>5, <1>6, <1>7, <1>8, BoundaryKeeps DEF Restart

(* State sync counts the turn and keeps its text. *)
LEMMA SyncFacts ==
  ASSUME NEW s \in Session, NEW status, NEW history \in Seq(Statuses),
         history = LastN(Append(s.history, status), HistoryCap)
  PROVE  LET new == Sync(s, status)
         IN  /\ new \in Session /\ new.turnCount = s.turnCount + 1 /\ new.history = history
             /\ new.log = s.log /\ new.decision = s.decision /\ new.semantic = s.semantic
<1>1. Sync(s, status) = [s EXCEPT !.turnCount = s.turnCount + 1, !.history = history]
  BY DEF Sync
<1>2. s.turnCount + 1 \in Nat
  BY DEF Session
<1> QED BY <1>1, <1>2 DEF Session

LEMMA PersistKeeps ==
  ASSUME PipelineInv, Persist
  PROVE  PipelineInv'
<1> DEFINE status == turn.status
           log == Logged(state, state.decision)
           history == LastN(Append(state.history, status), HistoryCap)
           t == state.turnCount + 1
<1>1. /\ ~Idle /\ stage' = "idle" /\ snapshot' = snapshot /\ turn' = turn /\ packs' \in Packs
      /\ state \in Session /\ SemanticInv(state.semantic)
      /\ snapshot \in Session /\ SemanticInv(snapshot.semantic)
      /\ status \in Statuses /\ turn.topic \in Topics /\ stage \in AfterFinalize
      /\ answered \in SUBSET [turn : Nat, topic : Topics]
  BY DEF Persist, Idle, PipelineInv, TypeInv, TurnContext, AfterFinalize
<1>2. /\ state.decision = status /\ BooksAgree(state.turnCount, state.history, state.log)
      /\ state.turnCount \in Nat /\ state.history \in Seq(Statuses) /\ state.log \in Seq(Entry)
      /\ state.conversation \in Talks /\ snapshot.conversation \in Talks
  BY <1>1 DEF PipelineInv, StoryInv, TellsOneStory, Boundary, Session, Persist
<1>3. log = LastN(Append(state.log, [turn |-> t, status |-> status]), HistoryCap)
  BY <1>2 DEF Logged
<1>4. /\ history \in Seq(Statuses) /\ log \in Seq(Entry) /\ BooksAgree(t, history, log)
      /\ Len(log) > 0 /\ log[Len(log)].status = status
  <2> HIDE DEF log, history, status
  <2> QED BY <1>1, <1>2, <1>3, BooksStep DEF history
<1> HIDE DEF log, history, t
<1>5. CASE status = "blocked"
  <2>1. state' = Sync(Reject([state EXCEPT !.log = log]), status) /\ answered' = answered
    BY <1>5 DEF Persist, log
  <2>2. /\ state' \in Session /\ state'.semantic = snapshot.semantic
        /\ state'.turnCount = t /\ state'.history = history /\ state'.log = log
        /\ state'.decision = status
    <3> DEFINE given == Reject([state EXCEPT !.log = log])
    <3>1. /\ given \in Session /\ given.semantic = snapshot.semantic /\ given.log = log
          /\ given.turnCount = state.turnCount /\ given.history = state.history
          /\ given.decision = status
      BY <1>1, <1>2, <1>4 DEF Reject, Session
    <3> HIDE DEF given, status
    <3>2. history = LastN(Append(given.history, status), HistoryCap)
      BY <3>1 DEF history
    <3> QED BY <1>4, <2>1, <3>1, <3>2, SyncFacts DEF given, t
  <2>3. TellsOneStory(state')
    BY <1>4, <2>2 DEF TellsOneStory
  <2>4. LearnedFrom(state'.semantic, answered')
    BY <1>1, <2>1, <2>2 DEF PipelineInv, LearnInv, Boundary
  <2> QED BY <1>1, <2>1, <2>2, <2>3, <2>4, BoundaryKeeps
<1>6. CASE status # "blocked"
  <2> DEFINE adjusted == AdjustField(state.semantic, turn.topic)
             logged == [state EXCEPT !.log = log]
  <2>1. /\ state' = [Sync(logged, status) EXCEPT !.semantic = AdjustField(@, turn.topic)]
        /\ answered' = answered \cup {Current}
    BY <1>6 DEF Persist, log, Current, Logged
  <2>2. /\ SemanticInv(adjusted)
        /\ \A f \in DOMAIN state.semantic \ {"confidence", "counterfactual"} :
             adjusted[f] = state.semantic[f]
    BY <1>1, AdjustInv
  <2>3. /\ adjusted.graph = state.semantic.graph /\ adjusted.essence = state.semantic.essence
        /\ adjusted.claims = state.semantic.claims
    BY <1>1, <2>2 DEF SemanticInv, Semantic
  <2>4. /\ Sync(logged, status) \in Session /\ Sync(logged, status).semantic = state.semantic
        /\ Sync(logged, status).turnCount = t /\ Sync(logged, status).history = history
        /\ Sync(logged, status).log = log /\ Sync(logged, status).decision = status
    <3>1. /\ logged \in Session /\ logged.semantic = state.semantic /\ logged.log = log
          /\ logged.turnCount = state.turnCount /\ logged.history = state.history
          /\ logged.decision = status
      BY <1>1, <1>2, <1>4 DEF Session
    <3> HIDE DEF logged, status
    <3>2. history = LastN(Append(logged.history, status), HistoryCap)
      BY <3>1 DEF history
    <3> QED BY <1>4, <3>1, <3>2, SyncFacts DEF t
  <2>5. state' = [Sync(logged, status) EXCEPT !.semantic = adjusted]
    BY <2>1, <2>4 DEF Session
  <2> HIDE DEF adjusted, logged, status
  <2>6. /\ state' \in Session /\ state'.semantic = adjusted
        /\ state'.turnCount = t /\ state'.history = history /\ state'.log = log
        /\ state'.decision = status
    BY <2>2, <2>4, <2>5, WithSemantic
  <2>7. TellsOneStory(state')
    BY <1>4, <2>6 DEF TellsOneStory
  <2>8. LearnedFrom(state'.semantic, answered')
    BY <1>1, <2>1, <2>3, <2>6 DEF PipelineInv, LearnInv, LearnedFrom
  <2>9. answered' \in SUBSET [turn : Nat, topic : Topics]
    BY <1>1, <1>2, <2>1 DEF Current
  <2> QED BY <1>1, <2>2, <2>6, <2>7, <2>8, <2>9, BoundaryKeeps
<1> QED BY <1>5, <1>6
-----------------------------------------------------------------------------
LEMMA StepKeeps ==
  ASSUME PipelineInv, [Next]_vars
  PROVE  PipelineInv'
<1>1. CASE UNCHANGED vars
  <2>1. /\ state' = state /\ snapshot' = snapshot /\ stage' = stage /\ turn' = turn
        /\ packs' = packs /\ answered' = answered
    BY <1>1 DEF vars
  <2>2. TypeInv'
    BY <2>1 DEF PipelineInv, TypeInv, Idle
  <2>3. StoryInv'
    BY <2>1 DEF PipelineInv, StoryInv, Boundary, Idle
  <2>4. LearnInv'
    BY <2>1 DEF PipelineInv, LearnInv, Boundary, Idle, Current
  <2>5. GrowthInv'
    BY <2>1 DEF PipelineInv, GrowthInv, Idle
  <2> QED BY <2>2, <2>3, <2>4, <2>5 DEF PipelineInv
<1>2. CASE Begin
  BY <1>2, BeginKeeps
<1>3. CASE Prepare
  BY <1>3, PrepareKeeps
<1>4. CASE Route
  BY <1>4, RouteKeeps
<1>5. CASE PlanShadow
  BY <1>5, PlanShadowKeeps
<1>6. CASE Render
  BY <1>6, RenderKeeps
<1>7. CASE Finalize
  BY <1>7, FinalizeKeeps
<1>8. CASE Guard
  BY <1>8, GuardKeeps
<1>9. CASE FactGrounded
  BY <1>9, FactGroundedKeeps
<1>10. CASE Persist
  BY <1>10, PersistKeeps
<1>11. CASE StageFails
  BY <1>11, StageFailsKeeps
<1>12. CASE Restart
  BY <1>12, RestartKeeps
<1> QED BY <1>1, <1>2, <1>3, <1>4, <1>5, <1>6, <1>7, <1>8, <1>9, <1>10, <1>11, <1>12 DEF Next

(* The inductive invariant: sessions and turns are well formed and within   *)
(* their limits, the cache is of the graph, the books of the session before *)
(* the turn agree and no stage disturbs them, and what is learned comes     *)
(* from answered turns or the turn that is running.                         *)
THEOREM InvariantHolds == Spec => []PipelineInv
<1>1. Init => PipelineInv
  BY InitEstablishes
<1>2. PipelineInv /\ [Next]_vars => PipelineInv'
  BY StepKeeps
<1> QED BY <1>1, <1>2, PTL DEF Spec

(* Between turns history, governance log and turn decision tell one story,  *)
(* whatever failed, was refused or was trimmed in between.                  *)
THEOREM HistoryAndLogAgree == Spec => []LogTellsTheHistory
<1>1. PipelineInv => LogTellsTheHistory
  BY DEF PipelineInv, StoryInv, TellsOneStory, BooksAgree, Boundary, Idle, LogTellsTheHistory
<1> QED BY <1>1, InvariantHolds, PTL

(* A response the guard refused leaves nothing behind in what the session   *)
(* has learned: it all comes from turns the user saw answered.              *)
THEOREM OnlyAnswersTeach == Spec => []RefusedTurnsTeachNothing
<1>1. PipelineInv => RefusedTurnsTeachNothing
  BY DEF PipelineInv, LearnInv, LearnedFrom, Boundary, Idle, RefusedTurnsTeachNothing
<1> QED BY <1>1, InvariantHolds, PTL

(* A network cache that would be reused, which only its edge count decides, *)
(* was built from the session's current graph.                              *)
THEOREM CacheIsOfTheGraph == Spec => []CacheHitIsFresh
<1>1. PipelineInv => CacheHitIsFresh
  BY DEF PipelineInv, TypeInv, SemanticInv, CacheHitIsFresh
<1> QED BY <1>1, InvariantHolds, PTL

(* Whatever a turn did, the session it leaves passes validate().            *)
THEOREM SessionsStayValid == Spec => []ValidBetweenTurns
<1> DEFINE sem == state.semantic
<1>1. ASSUME PipelineInv, Idle PROVE Validate(state)
  <2>1. state \in Session /\ SemanticInv(sem) /\ TellsOneStory(state)
    BY <1>1 DEF PipelineInv, TypeInv, StoryInv, Boundary
  <2>2. /\ state.turnCount \in Nat /\ Len(state.log) \in Nat
        /\ Len(state.history) = Len(state.log) /\ Len(state.log) <= HistoryCap
        /\ Len(state.log) <= state.turnCount
        /\ \A i \in 1 .. Len(state.log) : state.log[i].turn = state.turnCount - Len(state.log) + i
    BY <2>1, LenProperties DEF TellsOneStory, BooksAgree, Session
  <2>3. LogReplays(state.log)
    <3> SUFFICES ASSUME NEW i \in 1 .. Len(state.log) - 1
                 PROVE  state.log[i].turn <= state.log[i + 1].turn
      BY DEF LogReplays
    <3>1. i \in 1 .. Len(state.log) /\ i + 1 \in 1 .. Len(state.log)
      BY <2>2
    <3>2. /\ state.log[i].turn = state.turnCount - Len(state.log) + i
          /\ state.log[i + 1].turn = state.turnCount - Len(state.log) + (i + 1)
      BY <2>2, <3>1
    <3> QED BY <2>2, <3>1, <3>2
  <2>4. GraphValid(sem.graph) /\ CacheValid(sem)
    <3>1. GraphInv(sem.graph)
      BY <2>1 DEF SemanticInv
    <3> QED BY <2>1, <3>1, EdgeCounts DEF SemanticInv, CacheValid
  <2>5. sem.confidence \in 0 .. FieldMax /\ sem.counterfactual \in 0 .. FieldMax
    BY <2>1, Limits DEF SemanticInv, Semantic
  <2> QED BY <2>1, <2>2, <2>3, <2>4, <2>5 DEF Validate, SemanticInv
<1>2. PipelineInv => ValidBetweenTurns
  BY <1>1 DEF ValidBetweenTurns
<1> QED BY <1>2, InvariantHolds, PTL
-----------------------------------------------------------------------------
(* What a step does to the session at turn boundaries. *)
LEMMA AnsweredTurn ==
  ASSUME PipelineInv, Persist, turn.status # "blocked"
  PROVE  /\ state'.turnCount = snapshot.turnCount + 1
         /\ state'.decision = turn.status /\ turn.status \in {"allowed", "warned"}
         /\ state'.semantic.essence = state.semantic.essence
         /\ state'.semantic.graph = state.semantic.graph
         /\ state'.semantic.claims = state.semantic.claims
         /\ state'.semantic.opinions = state.semantic.opinions
<1>1. /\ state \in Session /\ SemanticInv(state.semantic) /\ turn.status \in Statuses
      /\ turn.status # "none" /\ state.decision = turn.status
      /\ state.turnCount = snapshot.turnCount
  BY DEF PipelineInv, TypeInv, StoryInv, Persist, Idle, TurnContext
<1> DEFINE logged == [state EXCEPT !.log = Logged(state, state.decision)]
           adjusted == AdjustField(state.semantic, turn.topic)
<1>2. state' = [Sync(logged, turn.status) EXCEPT !.semantic = AdjustField(@, turn.topic)]
  BY DEF Persist
<1>3. /\ Sync(logged, turn.status).semantic = state.semantic
      /\ Sync(logged, turn.status).turnCount = state.turnCount + 1
      /\ Sync(logged, turn.status).decision = state.decision
      /\ {"semantic", "turnCount", "decision"} \subseteq DOMAIN Sync(logged, turn.status)
  BY <1>1 DEF Sync, Session
<1> HIDE DEF logged
<1>4. /\ state'.semantic = adjusted /\ state'.turnCount = state.turnCount + 1
      /\ state'.decision = state.decision
  BY <1>2, <1>3
<1>5. \A f \in DOMAIN state.semantic \ {"confidence", "counterfactual"} :
        adjusted[f] = state.semantic[f]
  BY <1>1, AdjustInv
<1> HIDE DEF adjusted
<1>6. /\ adjusted.graph = state.semantic.graph /\ adjusted.essence = state.semantic.essence
      /\ adjusted.claims = state.semantic.claims /\ adjusted.opinions = state.semantic.opinions
  BY <1>1, <1>5 DEF SemanticInv, Semantic
<1> QED BY <1>1, <1>4, <1>6 DEF Statuses

LEMMA RefusedTurn ==
  ASSUME PipelineInv, Persist, turn.status = "blocked"
  PROVE  /\ state'.turnCount = snapshot.turnCount + 1 /\ state'.decision = "blocked"
         /\ state'.semantic = snapshot.semantic
         /\ state'.conversation = snapshot.conversation
<1>1. /\ state \in Session /\ state.decision = turn.status
      /\ state.turnCount = snapshot.turnCount
  BY DEF PipelineInv, TypeInv, StoryInv, Persist, Idle
<1>2. state' = Sync(Reject([state EXCEPT !.log = Logged(state, state.decision)]), turn.status)
  BY DEF Persist
<1> QED BY <1>1, <1>2 DEF Sync, Reject, Session

(* Every other step leaves the session as it was at the boundary, except    *)
(* that a restart drops its cache.                                          *)
LEMMA NoTurnYet ==
  ASSUME PipelineInv, [Next]_vars, ~Persist
  PROVE  /\ Boundary'.turnCount = Boundary.turnCount
         /\ Boundary'.decision = Boundary.decision
         /\ Boundary'.conversation = Boundary.conversation
         /\ \A f \in DOMAIN Boundary.semantic \ {"cache"} :
              Boundary'.semantic[f] = Boundary.semantic[f]
<1>1. CASE UNCHANGED vars
  BY <1>1 DEF vars, Boundary, Idle
<1>2. CASE Begin
  BY <1>2 DEF Begin, Boundary, Idle
<1>3. CASE Prepare \/ Route \/ PlanShadow \/ Render \/ Finalize \/ Guard \/ FactGrounded
  <2>1. ~Idle /\ ~Idle' /\ snapshot' = snapshot
    BY <1>3 DEF Prepare, Route, PlanShadow, Render, Finalize, Guard, FactGrounded, Idle
  <2> QED BY <2>1 DEF Boundary
<1>4. CASE StageFails
  BY <1>4 DEF StageFails, Boundary, Idle
<1>5. CASE Restart
  <2> DEFINE bare == [state.semantic EXCEPT !.cache = NoCache]
  <2>1. state \in Session /\ SemanticInv(state.semantic) /\ Idle /\ Idle'
    BY <1>5 DEF PipelineInv, TypeInv, Restart, Idle
  <2>2. state' = [state EXCEPT !.semantic = bare]
    BY <1>5, <2>1 DEF Restart, Session
  <2>3. \A f \in DOMAIN state.semantic \ {"cache"} : bare[f] = state.semantic[f]
    BY <2>1, NoCacheInv
  <2> HIDE DEF bare
  <2>4. /\ state'.semantic = bare /\ state'.turnCount = state.turnCount
        /\ state'.decision = state.decision /\ state'.conversation = state.conversation
    BY <2>1, <2>2 DEF Session
  <2> QED BY <2>1, <2>3, <2>4 DEF Boundary
<1> QED BY <1>1, <1>2, <1>3, <1>4, <1>5 DEF Next

(* From boundary to boundary an essence commitment is kept unless a         *)
(* recorded collapse cleared it, whether the turn was answered, refused or  *)
(* failed half-way.                                                         *)
THEOREM CommitmentKept == Spec => CommitmentEndsInCollapse
<1> DEFINE old == snapshot.semantic.essence
           end == state'.semantic.essence
           A == stage' = "idle" /\ snapshot.semantic.essence.commitment # 0
                  => \/ /\ state'.semantic.essence.commitment = snapshot.semantic.essence.commitment
                        /\ state'.semantic.essence.resets = snapshot.semantic.essence.resets
                     \/ /\ state'.semantic.essence.commitment = 0
                        /\ state'.semantic.essence.resets = snapshot.semantic.essence.resets + 1
<1>1. ASSUME PipelineInv, [Next]_vars PROVE A \/ stage' = stage
  <2> SUFFICES ASSUME stage' = "idle", stage # "idle", old.commitment # 0
               PROVE  A
    OBVIOUS
  <2>1. Persist \/ StageFails
    BY <1>1 DEF Next, vars, Begin, Prepare, Route, PlanShadow, Render, Finalize, Guard,
                FactGrounded, Restart
  <2>2. CASE StageFails
    BY <2>2 DEF StageFails
  <2>3. CASE Persist /\ turn.status = "blocked"
    BY <1>1, <2>3, RefusedTurn
  <2>4. CASE Persist /\ turn.status # "blocked"
    <3>1. end = state.semantic.essence
      BY <1>1, <2>4, AnsweredTurn
    <3>2. KeptOrCollapsed(old, state.semantic.essence)
      BY <1>1 DEF PipelineInv, GrowthInv, Idle
    <3> QED BY <3>1, <3>2 DEF KeptOrCollapsed
  <2> QED BY <2>1, <2>2, <2>3, <2>4
<1>2. PipelineInv /\ [Next]_vars => [A]_stage
  BY <1>1
<1>3. Spec => []PipelineInv
  BY InvariantHolds
<1> QED BY <1>2, <1>3, PTL DEF Spec, CommitmentEndsInCollapse

LEMMA InitImplements == Init => Outcomes!Init
  BY DEF Init, Outcomes!Init, FreshState, Boundary, Idle

LEMMA StepImplements ==
  ASSUME PipelineInv, [Next]_vars
  PROVE  [Outcomes!Next]_Outcomes!vars
<1>1. CASE Persist /\ turn.status # "blocked"
  <2>1. ~Idle /\ Idle' /\ Boundary = snapshot /\ Boundary' = state'
    BY <1>1 DEF Persist, Idle, Boundary
  <2>2. /\ snapshot.semantic.graph.atoms \subseteq state.semantic.graph.atoms
        /\ snapshot.semantic.graph.grown \subseteq state.semantic.graph.grown
        /\ snapshot.semantic.claims \subseteq state.semantic.claims
        /\ snapshot.semantic.opinions \subseteq state.semantic.opinions
    BY <2>1 DEF PipelineInv, GrowthInv
  <2>3. /\ state'.turnCount = snapshot.turnCount + 1
        /\ state'.decision \in {"allowed", "warned"}
        /\ state'.semantic.graph = state.semantic.graph
        /\ state'.semantic.claims = state.semantic.claims
        /\ state'.semantic.opinions = state.semantic.opinions
    BY <1>1, AnsweredTurn
  <2>4. Outcomes!Answer
    BY <2>1, <2>2, <2>3 DEF Outcomes!Answer
  <2> QED BY <2>4 DEF Outcomes!Next
<1>2. CASE Persist /\ turn.status = "blocked"
  <2>1. ~Idle /\ Idle' /\ Boundary = snapshot /\ Boundary' = state'
    BY <1>2 DEF Persist, Idle, Boundary
  <2>2. Outcomes!Refuse
    BY <1>2, <2>1, RefusedTurn DEF Outcomes!Refuse
  <2> QED BY <2>2 DEF Outcomes!Next
<1>3. CASE ~Persist
  <2>1. /\ Boundary'.turnCount = Boundary.turnCount
        /\ Boundary'.decision = Boundary.decision
        /\ Boundary'.conversation = Boundary.conversation
        /\ \A f \in DOMAIN Boundary.semantic \ {"cache"} :
             Boundary'.semantic[f] = Boundary.semantic[f]
    BY <1>3, NoTurnYet
  <2>2. Boundary.semantic \in Semantic
    BY DEF PipelineInv, TypeInv, Boundary, SemanticInv
  <2>3. /\ Boundary'.semantic.graph = Boundary.semantic.graph
        /\ Boundary'.semantic.claims = Boundary.semantic.claims
        /\ Boundary'.semantic.opinions = Boundary.semantic.opinions
        /\ Boundary'.semantic.essence = Boundary.semantic.essence
        /\ Boundary'.semantic.confidence = Boundary.semantic.confidence
        /\ Boundary'.semantic.counterfactual = Boundary.semantic.counterfactual
    BY <2>1, <2>2 DEF Semantic
  <2> QED BY <2>1, <2>3 DEF Outcomes!vars
<1> QED BY <1>1, <1>2, <1>3

(* The staged turn implements the whole one: seen at turn boundaries a turn *)
(* is answered and the session only learns, or refused and only the books   *)
(* move, or it has not happened.                                            *)
THEOREM StagesImplementTurns == Spec => ImplementsOutcomes
<1>1. Init => Outcomes!Init
  BY InitImplements
<1>2. PipelineInv /\ [Next]_vars => [Outcomes!Next]_Outcomes!vars
  BY StepImplements
<1>3. Spec => []PipelineInv
  BY InvariantHolds
<1>4. Spec => Outcomes!Spec
  BY <1>1, <1>2, <1>3, PTL DEF Spec, Outcomes!Spec
<1> QED BY <1>4 DEF ImplementsOutcomes
=============================================================================
