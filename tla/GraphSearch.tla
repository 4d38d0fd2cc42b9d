---------------------------- MODULE GraphSearch -----------------------------
(***************************************************************************)
(* What a legacy turn finds in the runtime graph: activation spread over    *)
(* the weighted network, the predicates chosen from it, the bridge from    *)
(* the topic of the turn before, and the ranked paths of a definition.     *)
(***************************************************************************)
EXTENDS Integers, Sequences, FiniteSets
LOCAL INSTANCE SequencesExt

CONSTANTS
  None,
  Names,       \* atoms and topics in alphabetical order
  RelTypes,    \* relation types in declaration order
  Favoured,    \* per type, the field components that raise it and by how many tenths
  Supporting, Qualifying, Counters,  \* the types that ground, qualify and oppose
  Contrasts,   \* the types that tell two things apart
  Seeds,       \* graphs a session starts from
  Growth,      \* edges later turns add
  MaxEdges,    \* bound: edges of the graph
  Profiles     \* the self layer as a turn carries it to the graph: hundredths

VARIABLES edges, network, lastTopic, consolidation, asked, found

searchVars == <<edges, network, lastTopic, consolidation, asked, found>>

Least(S) == CHOOSE x \in S : \A y \in S : x <= y
Greatest(S) == CHOOSE x \in S : \A y \in S : y <= x
Place(sequence, x) == CHOOSE i \in DOMAIN sequence : sequence[i] = x
InOrderOf(S, Precedes(_, _)) ==
  [k \in 1..Cardinality(S) |->
     CHOOSE x \in S : Cardinality({y \in S : Precedes(y, x)}) = k - 1]
FirstOf(sequence, n) == SubSeq(sequence, 1, IF Len(sequence) < n THEN Len(sequence) ELSE n)
AtomsOf(g) == {e.from : e \in Range(g)} \cup {e.to : e \in Range(g)}
-----------------------------------------------------------------------------
(* The network. Weights are twentieths: explicit edges by how often they    *)
(* repeat, and pairs named by one sentence where no explicit edge stands.  *)
Unit == 8000
Repeats(g, pair) == Cardinality({i \in DOMAIN g : <<g[i].from, g[i].to>> = pair})
SubstratePairs(g) ==
  UNION {{pair \in (e.names \cap AtomsOf(g)) \X (e.names \cap AtomsOf(g)) : pair[1] # pair[2]} :
           e \in Range(g)}
WeightOver(g, explicit, most) ==
  [pair \in explicit \cup SubstratePairs(g) |->
     IF pair \in explicit THEN (20 * Repeats(g, pair)) \div most ELSE 6]
BuildNetwork(g) ==
  LET explicit == {<<e.from, e.to>> : e \in Range(g)}
  IN  WeightOver(g, explicit, Greatest({1} \cup {Repeats(g, pair) : pair \in explicit}))

CachedNetwork ==
  IF network # None /\ network.count = Len(edges) THEN network
  ELSE [count |-> Len(edges), weight |-> BuildNetwork(edges)]

(* One hop, halved: an atom keeps the activation of the hop that reached it. *)
SpreadOnce_Raises(weight, act) ==
  LET new == {pair[2] : pair \in {p \in DOMAIN weight : p[1] \in DOMAIN act}}
  IN  [n \in DOMAIN act \cup new |->
         Greatest((IF n \in DOMAIN act THEN {act[n]} ELSE {})
                  \cup {(act[p[1]] * weight[p]) \div 40 :
                          p \in {q \in DOMAIN weight : q[1] \in DOMAIN act /\ q[2] = n}})]
SpreadOnce(weight, act) ==
  LET new == {pair[2] : pair \in {p \in DOMAIN weight : p[1] \in DOMAIN act}} \ DOMAIN act
  IN  [n \in DOMAIN act \cup new |->
         IF n \in DOMAIN act THEN act[n]
         ELSE Greatest({(act[p[1]] * weight[p]) \div 40 :
                          p \in {q \in DOMAIN weight : q[1] \in DOMAIN act /\ q[2] = n}})]
Activate(weight, seeds) ==
  SpreadOnce(weight, SpreadOnce(weight, SpreadOnce(weight, [s \in seeds |-> Unit])))
At(act, atom) == IF atom \in DOMAIN act THEN act[atom] ELSE 0
-----------------------------------------------------------------------------
(* Scores. A bias is in thousandths; a predicate's score adds the activation *)
(* of its two ends.                                                         *)
Bias(profile, type) ==
  Favoured[type].tenths
    * (IF Favoured[type].by = {} THEN 100 ELSE Greatest({profile[c] : c \in Favoured[type].by}))
ScorePred(profile, e, act) ==
  Bias(profile, e.type) * (20 * Unit + 3 * (At(act, e.from) + At(act, e.to)))
Above(score, thousandths) == score > thousandths * 20 * Unit

TopicEdges(g, topic) == {i \in DOMAIN g : g[i].topic = topic}
TopicAtoms(g, topic) == UNION {{g[i].from, g[i].to} : i \in TopicEdges(g, topic)}
TopicsOf(g) == {e.topic : e \in Range(g)}
GenericityLimit(g) ==
  (3 * Len(g) + Cardinality(TopicsOf(g)) - 1) \div Cardinality(TopicsOf(g))

(* from, then to, then type; then the order the edges were added in.        *)
CanonicallyBefore(g, i, j) ==
  LET Key(k) == <<Place(Names, g[k].from), Place(Names, g[k].to), Place(RelTypes, g[k].type), k>>
      differ == {n \in 1..4 : Key(i)[n] # Key(j)[n]}
  IN  differ # {} /\ \E n \in differ : (\A m \in differ : n <= m) /\ Key(i)[n] < Key(j)[n]
ByScore(g, S, score) ==
  InOrderOf(S, LAMBDA i, j : \/ score[i] > score[j]
                             \/ score[i] = score[j] /\ CanonicallyBefore(g, i, j))
Scores(g, S, profile, act) == [i \in S |-> ScorePred(profile, g[i], act)]
Chosen(g, score, threshold) ==
  ByScore(g, {i \in DOMAIN score : Above(score[i], threshold)}, score)

SelectPredicates(g, profile, topic, act) ==
  Chosen(g, Scores(g, TopicEdges(g, topic), profile, act), 100)
OwnPredicates(g, profile, topic) ==
  FirstOf(Chosen(g, Scores(g, TopicEdges(g, topic), profile, << >>), 50), 3)

(* Another topic lends its best predicate, the first added of equals.       *)
BestOf(S, score) ==
  LET good == {i \in S : 3 * score[i] > 1500 * 20 * Unit}
  IN  IF good = {} THEN {}
      ELSE {CHOOSE i \in good : \A j \in good : score[i] > score[j] \/ (score[i] = score[j] /\ i <= j)}
Lenders(g, topic, act) ==
  {t \in TopicsOf(g) \ {topic} :
     /\ Cardinality(TopicEdges(g, t)) <= GenericityLimit(g)
     /\ \E a \in TopicAtoms(g, t) : At(act, a) > Unit \div 20
     /\ \E a \in TopicAtoms(g, t) : At(act, a) >= (3 * Unit) \div 20}
Borrowed(g, lenders, score) ==
  InOrderOf(UNION {BestOf(TopicEdges(g, t), score) : t \in lenders},
            LAMBDA i, j : \/ score[i] > score[j]
                          \/ /\ score[i] = score[j]
                             /\ Place(Names, g[i].topic) < Place(Names, g[j].topic))
SameRelation(e, f) == e.from = f.from /\ e.to = f.to /\ e.type = f.type
WithoutRepeats(g, chosen, next) ==
  IF \E i \in Range(chosen) : SameRelation(g[i], g[next]) THEN chosen ELSE Append(chosen, next)
AddBorrowed(g, own, lent) ==
  FoldLeft(LAMBDA chosen, next : WithoutRepeats(g, chosen, next), own, FirstOf(lent, 3 - Len(own)))
ComposeFromActivation(g, profile, topic, act) ==
  AddBorrowed(g, OwnPredicates(g, profile, topic),
              Borrowed(g, Lenders(g, topic, act), Scores(g, DOMAIN g, profile, act)))
Select(g, profile, topic, weight) ==
  LET composed == ComposeFromActivation(g, profile, topic, Activate(weight, TopicAtoms(g, topic)))
  IN  IF composed # << >> THEN composed
      ELSE SelectPredicates(g, profile, topic, Activate(weight, {topic}))
-----------------------------------------------------------------------------
(* Walks are sequences of edge numbers.                                     *)
EndOf(g, p) == g[p[Len(p)]].to
FirstSteps(g, start) == {<<i>> : i \in {j \in DOMAIN g : g[j].from = start}}
Longer(g, walks) ==
  UNION {{Append(p, i) : i \in {j \in DOMAIN g : g[j].from = EndOf(g, p)}} : p \in walks}
WalksUpTo(g, n, start) ==
  LET one == FirstSteps(g, start)
      two == Longer(g, one)
  IN  CASE n = 1 -> one [] n = 2 -> one \cup two [] n = 3 -> one \cup two \cup Longer(g, two)
FoundBefore(p, q) ==
  \/ Len(p) < Len(q)
  \/ /\ Len(p) = Len(q)
     /\ \E k \in DOMAIN p : p[k] < q[k] /\ \A j \in 1..k - 1 : p[j] = q[j]

(* The queue hands out walks in the order they were found, three edges deep. *)
Bridge(g, from, to) ==
  LET walks == {p \in WalksUpTo(g, 3, from) : EndOf(g, p) = to}
  IN  IF walks = {} THEN << >> ELSE CHOOSE p \in walks : \A q \in walks : ~FoundBefore(q, p)

(* Paths of a definition: the longest visit four different atoms and are    *)
(* told once however often an edge repeats; scores are thousandths and take *)
(* the default field, so the turn's own field never reorders them.          *)
Middling == [conf |-> 50, cf |-> 50, consolid |-> 50, reson |-> 50]
FirstOfKind(g, i) == ~\E j \in DOMAIN g : j < i /\ SameRelation(g[j], g[i])
Admissible(g, start, p) ==
  CASE Len(p) = 1 -> TRUE
    [] Len(p) = 2 -> EndOf(g, p) # start
    [] Len(p) = 3 -> /\ Cardinality({start} \cup {g[p[k]].to : k \in 1..3}) = 4
                     /\ \A k \in 1..3 : FirstOfKind(g, p[k])
FindPaths(g, depth, start) ==
  {p \in WalksUpTo(g, depth, start) : Admissible(g, start, p)}
Grade(g, p) ==
  FoldLeft(LAMBDA sum, i : sum + Bias(Middling, g[i].type) - 150,
           IF g[p[1]].rationale THEN 2000 ELSE 0, p)
Outranks(g, p, q) ==
  \/ Grade(g, p) > Grade(g, q)
  \/ /\ Grade(g, p) = Grade(g, q)
     /\ \/ g[p[1]].text < g[q[1]].text
        \/ g[p[1]].text = g[q[1]].text /\ FoundBefore(p, q)
SelectTopPaths(g, n, start, depth) ==
  FirstOf(InOrderOf(FindPaths(g, depth, start), LAMBDA p, q : Outranks(g, p, q)), n)
PathDepth(profile) ==
  IF profile.conatus > 120 THEN 3 ELSE IF profile.conatus > 60 THEN 2 ELSE 1
PathCount(profile) ==
  IF profile.conatus > 120 THEN 5 ELSE IF profile.conatus > 60 THEN 3 ELSE 1
ComposeDefinition(g, profile, n, topic) ==
  LET paths == SelectTopPaths(g, n, topic, PathDepth(profile))
  IN  [kind |-> "definition", topic |-> topic, depth |-> PathDepth(profile), paths |-> paths,
       because |-> [k \in DOMAIN paths |->
                      FirstOf(SelectTopPaths(g, 3, EndOf(g, paths[k]), 2), 1)],
       but |-> InOrderOf({i \in DOMAIN g : g[i].from = topic /\ g[i].type \in Counters}, <)]

(* What the graph holds for a proposition and against it; a reflection      *)
(* without support falls back to the definition.                            *)
Engaged(g, subject, types) == InOrderOf({i \in DOMAIN g : g[i].from = subject /\ g[i].type \in types}, <)
Told(subject, walk) == [kind |-> "answer", topic |-> subject, paths |-> <<walk>>]
ComposeAbout(g, profile, mode, subject, object) ==
  LET for == Engaged(g, subject, Supporting)
      against == Engaged(g, subject, Counters)
      about == for \o Engaged(g, subject, Qualifying)
  IN  CASE mode = "define" -> ComposeDefinition(g, profile, PathCount(profile), subject)
        [] mode = "reflect" -> IF about = << >> THEN ComposeDefinition(g, profile, 3, subject)
                               ELSE Told(subject, about)
        [] mode = "connect" -> [kind |-> "connection", topic |-> object,
                                paths |-> Bridge(g, subject, object)]
        [] mode \in {"challenge", "assert"} -> Told(subject, for \o against)

(* A distinction is any contrast of the left side, whatever it stands       *)
(* against, and only then a way from left to right.                         *)
RenderDistinction(g, left, right) ==
  LET Contrasting(S) == {i \in S : g[i].type \in Contrasts}
      out == Contrasting({i \in DOMAIN g : g[i].from = left})
      in == Contrasting({i \in DOMAIN g : g[i].to = left})
  IN  [kind |-> "distinction", topic |-> left, from |-> right,
       paths |-> IF out # {} THEN <<<<Least(out)>>>>
                 ELSE IF in # {} THEN <<<<Least(in)>>>>
                 ELSE IF Bridge(g, left, right) # << >> THEN <<Bridge(g, left, right)>>
                 ELSE << >>]
-----------------------------------------------------------------------------
SearchInit ==
  /\ edges \in Seeds
  /\ network = None
  /\ lastTopic = None
  /\ consolidation = 95
  /\ asked = None
  /\ found = None

(* A turn learns an edge and lets the network go.                           *)
Learn ==
  /\ Len(edges) < MaxEdges
  /\ \E e \in Growth : edges' = Append(edges, e)
  /\ network' = None
  /\ asked' = None
  /\ found' = None
  /\ UNCHANGED <<lastTopic, consolidation>>

Answer(g, profile, topic, fresh, bridge) ==
  [kind |-> "turn", topic |-> topic, act |-> Activate(fresh.weight, {topic}), paths |-> bridge,
   chosen |-> Select(g, profile, topic, fresh.weight)]
Bridging(topic) ==
  IF lastTopic \in {None, topic} THEN << >> ELSE Bridge(edges, lastTopic, topic)
AskTurn ==
  \E topic \in Range(Names), profile \in Profiles :
    LET mood == [profile EXCEPT !.consolid = consolidation]
    IN  /\ network' = CachedNetwork
        /\ asked' = [from |-> lastTopic, topic |-> topic]
        /\ found' = Answer(edges, mood, topic, network', Bridging(topic))
        /\ consolidation' = IF Bridging(topic) = << >> THEN consolidation
                            ELSE Least({100, consolidation + 5})
        /\ lastTopic' = topic
        /\ UNCHANGED edges
Compose ==
  \E subject \in Range(Names), object \in Range(Names), profile \in Profiles,
     mode \in {"define", "reflect", "connect", "challenge", "assert"} :
    /\ (mode = "connect") = (subject # object)
    /\ found' = ComposeAbout(edges, profile, mode, subject, object)
    /\ asked' = [from |-> subject, topic |-> object]
    /\ UNCHANGED <<edges, network, lastTopic, consolidation>>
Distinguish ==
  \E left \in Range(Names), right \in Range(Names) :
    /\ left # right
    /\ found' = RenderDistinction(edges, left, right)
    /\ asked' = [from |-> right, topic |-> left]
    /\ network' = CachedNetwork
    /\ UNCHANGED <<edges, lastTopic, consolidation>>
SearchNext == Learn \/ AskTurn \/ Compose \/ Distinguish
-----------------------------------------------------------------------------
(* An atom the spreading reaches carries the best product of halved weights *)
(* over the shortest ways that reach it, and none three hops away is missed. *)
Hop(weight, best) ==
  [n \in DOMAIN best |->
     Greatest({0} \cup {(best[p[1]] * weight[p]) \div 40 : p \in {q \in DOMAIN weight : q[2] = n}})]
BestInHops(weight, topic) ==
  LET none == [n \in Range(Names) |-> IF n = topic THEN Unit ELSE 0]
      one == Hop(weight, none)
      two == Hop(weight, one)
  IN  <<none, one, two, Hop(weight, two)>>
ActivationIsBestRoute ==
  (found # None /\ found.kind = "turn") =>
    LET best == BestInHops(network.weight, found.topic)
    IN  \A atom \in Range(Names) :
          LET hops == {k \in DOMAIN best : best[k][atom] > 0}
          IN  IF hops = {} THEN atom \notin DOMAIN found.act
              ELSE /\ atom \in DOMAIN found.act
                   /\ found.act[atom] = best[Least(hops)][atom]

(* A bridge between two topics is a chain from the one to the other than    *)
(* which none is shorter, and is missing only where three edges do not      *)
(* reach; of the paths of a definition none that was left out starts from a *)
(* relation with its reason given while a told one does not, nor has the    *)
(* same start and a higher sum of biases for its length.                    *)
Merit(g, p) ==
  FoldLeft(LAMBDA sum, i : sum + Bias(Middling, g[i].type), 0, p) - 150 * Len(p)
RoutesAreBest ==
  /\ (found # None /\ found.kind \in {"turn", "connection"} /\ asked.from \notin {None, asked.topic}) =>
       LET reaching == {p \in WalksUpTo(edges, 3, asked.from) : EndOf(edges, p) = asked.topic}
       IN  IF reaching = {} THEN found.paths = << >>
           ELSE found.paths \in reaching /\ \A p \in reaching : Len(found.paths) <= Len(p)
  /\ (found # None /\ found.kind = "definition") =>
       \A told \in Range(found.paths),
          left \in FindPaths(edges, found.depth, found.topic) \ Range(found.paths) :
         \/ edges[told[1]].rationale /\ ~edges[left[1]].rationale
         \/ /\ edges[told[1]].rationale = edges[left[1]].rationale
            /\ Merit(edges, told) >= Merit(edges, left)

(* Whatever the graph is asked, nothing better than what it tells was       *)
(* within reach: activation, bridges and the paths of a definition.         *)
SearchFindsTheBest == ActivationIsBestRoute /\ RoutesAreBest
=============================================================================
