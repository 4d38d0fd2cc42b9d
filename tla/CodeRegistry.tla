---------------------------- MODULE CodeRegistry ----------------------------
(***************************************************************************)
(* The code registry: functions and their relations, the edges that types  *)
(* draw between them, and the orchestrator that answers a question with    *)
(* the best function and its alternatives.                                 *)
(***************************************************************************)
EXTENDS CodeTypes, TLC

CONSTANTS
  None,
  Batch,       \* the functions of the tables: what is written, and what it declares
  Links,       \* the relations of the tables
  Late,        \* functions registered once the registry is in use
  InOrder,     \* every identifier and name, in alphabetical order
  Queries      \* the questions: the keywords each contains and its language

VARIABLES graph, phase, query, answer

codeVars == <<graph, phase, query, answer>>

IsBefore(a, b) == FirstOf(InOrder, {a}) < FirstOf(InOrder, {b})
-----------------------------------------------------------------------------
ConvertAtom(input) ==
  [id |-> input.id, lang |-> input.lang, kind |-> input.kind, name |-> input.name,
   words |-> input.words, tags |-> input.tags]
  @@ ParseSignature(input.signature, input.lang, input.owner)
AddAtom(g, atom) ==
  [g EXCEPT !.atoms = {a \in @ : a.id # atom.id} \cup {atom}]
AddRelation(g, from, to, type) ==
  [g EXCEPT !.edges = Append(@, [from |-> from, to |-> to, type |-> type])]

Atom(g, id) == CHOOSE a \in g.atoms : a.id = id
Ids(g) == {a.id : a \in g.atoms}
Violations(g) == {e \in ToSet(g.edges) : {e.from, e.to} \ Ids(g) # {}}

(* Who takes, as its first argument, what a function returns.               *)
Fit(producer, consumer) ==
  IF producer.returns = << >> \/ consumer.params = << >> THEN "no match"
  ELSE Composes(producer.returns[1], consumer.params[1].type)
CanFollow(g, id, next) ==
  LET p == Atom(g, id)
      c == Atom(g, next)
  IN  id # next /\ p.lang = c.lang /\ Fit(p, c) # "no match"
IdsOf(ranked) == [k \in DOMAIN ranked |-> ranked[k].id]
FindConsumers(g, id) ==
  IdsOf(Sorted({[id |-> c, trust |-> Confidence(Fit(Atom(g, id), Atom(g, c)))] :
                  c \in {c \in Ids(g) : CanFollow(g, id, c)}},
               LAMBDA a, b : \/ a.trust > b.trust
                             \/ a.trust = b.trust /\ IsBefore(a.id, b.id)))

ComposeEdges(id, next) ==
  [k \in DOMAIN next |-> [from |-> id, to |-> next[k], type |-> "composes"]]
DrawEdges(g, producers) ==
  [g EXCEPT !.edges = @ \o FlattenSeq([i \in DOMAIN producers |->
                              ComposeEdges(producers[i], FindConsumers(g, producers[i]))])]
BuildTypeEdges(g) == DrawEdges(g, Sorted(Ids(g), IsBefore))
-----------------------------------------------------------------------------
(* Every path without a repetition from a function, the longest first.      *)
Extend(path, consumers) ==
  LET next == SelectSeq(consumers, LAMBDA c : c \notin ToSet(path))
  IN  [k \in DOMAIN next |-> Append(path, next[k])]
Longer(g, paths) ==
  FlattenSeq([i \in DOMAIN paths |-> Extend(paths[i], FindConsumers(g, Last(paths[i])))])
ComposeChain(g, start, depth) ==
  LET level[n \in 1..depth] == IF n = 1 THEN <<<<start>>>> ELSE Longer(g, level[n - 1])
  IN  FlattenSeq([n \in 1..depth |-> level[depth + 1 - n]])

(* The mean confidence of a chain's steps, in six hundredths.               *)
ScoreChain(g, chain) ==
  IF Len(chain) = 1 THEN 600
  ELSE (6 * FoldSeq(+, 0, [i \in 1..(Len(chain) - 1) |->
                             Confidence(Fit(Atom(g, chain[i]), Atom(g, chain[i + 1])))]))
       \div (Len(chain) - 1)
-----------------------------------------------------------------------------
(* What is asked: the first verb and the first object of the tables one of  *)
(* whose keywords the text contains, and all the modifiers.                 *)
Row(meaning, keywords, tags) == [meaning |-> meaning, keywords |-> keywords, tags |-> tags]
VerbRows ==
  << Row("find", {"find", "max"}, {"find", "max", "get"}), Row("sort", {"sort", "order"}, {"sort"}),
     Row("filter", {"filter", "where"}, {"filter", "where"}),
     Row("transform", {"map", "convert"}, {"map", "convert"}),
     Row("aggregate", {"sum", "fold"}, {"sum", "fold"}), Row("create", {"new"}, {"new", "create"}),
     Row("remove", {"remove", "drop"}, {"remove", "drop"}), Row("check", {"any"}, {"any", "contains"}),
     Row("iterate", {"for", "loop"}, {"iter", "loop"}), Row("combine", {"zip"}, {"zip"}),
     Row("convert", {"convert", "collect"}, {"collect", "into"}), Row("handle", {"error"}, {"error"}),
     Row("store", {"push", "add"}, {"push", "insert"}), Row("compare", {"order", "cmp"}, {"cmp", "order"}) >>
ObjectRows ==
  << Row("array", {"array", "vec"}, {"Vec", "array"}), Row("string", {"string"}, {"String", "str"}),
     Row("map", {"map"}, {"HashMap"}), Row("set", {"set"}, {"HashSet"}),
     Row("iterator", {"iterator"}, {"Iterator", "iter"}), Row("number", {"number"}, {"i32"}),
     Row("file", {"file"}, {"File"}), Row("json", {"json"}, {"serde"}) >>
ModifierRows ==
  << Row("stable", {"stable"}, {"stable"}), Row("unstable", {"unstable"}, {"unstable"}),
     Row("lazy", {"lazy", "iterator"}, {"lazy", "iterator"}), Row("eager", {"collect"}, {"eager", "collect"}) >>
Named(rows, keywords) == SelectSeq(rows, LAMBDA r : r.keywords \cap keywords # {})
FirstNamed(rows, keywords) == (Named(rows, keywords) \o <<Row("unknown", {}, {})>>)[1]
Parse(q) ==
  [verb |-> FirstNamed(VerbRows, q.contains), object |-> FirstNamed(ObjectRows, q.contains),
   modifiers |-> UNION {r.tags : r \in ToSet(Named(ModifierRows, q.contains))}, lang |-> q.lang]

(* In thousandths: a verb says most, then the object, then a modifier.      *)
KindWeight(verb, kind) ==
  IF verb \in {"create", "handle", "unknown"} THEN 10
  ELSE CASE kind \in {"struct", "enum", "trait", "alias", "module"} -> 3 [] kind = "concept" -> 1
         [] kind = "pattern" -> 5 [] kind \in {"function", "method", "macro"} -> 12
TagScore(intent, atom) ==
  LET Shared(tags, others) == Cardinality(tags \cap others) IN
  KindWeight(intent.verb.meaning, atom.kind)
    * (300 * Shared(intent.verb.tags, atom.tags) + 100 * Shared(intent.object.tags, atom.tags)
       + 50 * Shared(intent.modifiers, atom.tags) + 200 * Shared(intent.verb.tags, atom.words)
       + 50 * Shared(intent.object.tags, atom.words))
  + 100 * Cardinality(atom.tags \ {"alloc", "collection", "trait"})
KindOrder == <<"function", "method", "macro", "pattern", "trait", "struct", "enum", "alias",
               "module", "concept">>

Ranked(intent, atom) ==
  [id |-> atom.id,
   rank |-> << 0 - TagScore(intent, atom), IF intent.verb.tags \cap atom.words # {} THEN 0 ELSE 1,
               FirstOf(KindOrder, {atom.kind}), FirstOf(InOrder, {atom.name}),
               FirstOf(InOrder, {atom.id}) >>]
Precedes(a, b) ==
  \E k \in DOMAIN a : a[k] < b[k] /\ \A j \in 1..(k - 1) : a[j] = b[j]
MatchAtoms(g, intent) ==
  IdsOf(Sorted({r \in {Ranked(intent, a) : a \in {x \in g.atoms : intent.lang \in {None, x.lang}}} :
                  r.rank[1] < -500},
               LAMBDA a, b : Precedes(a.rank, b.rank)))

(* Each of the five best matches alone, then up to three chains from it.    *)
FirstFew(s, n) == SubSeq(s, 1, IF Len(s) < n THEN Len(s) ELSE n)
AloneOrChained(g, matches) ==
  FlattenSeq([i \in DOMAIN matches |->
    <<<<matches[i]>>>>
      \o SelectSeq(FirstFew(ComposeChain(g, matches[i], 4), 3), LAMBDA c : Len(c) > 1)])
Candidates(g, intent) == AloneOrChained(g, FirstFew(MatchAtoms(g, intent), 5))
ByTotal(g, intent, chains) ==
  Sorted({[at |-> k, total |-> TagScore(intent, Atom(g, chains[k][1])) * ScoreChain(g, chains[k])] :
            k \in DOMAIN chains},
         LAMBDA a, b : a.total > b.total \/ (a.total = b.total /\ a.at < b.at))
Reply(chains, ranked) ==
  IF chains = << >> THEN [found |-> FALSE]
  ELSE [found |-> TRUE, rendered |-> chains[ranked[1].at],
        alternatives |-> [k \in DOMAIN Tail(FirstFew(ranked, 5)) |-> chains[ranked[k + 1].at][1]],
        count |-> Len(chains)]
Answered(g, intent, chains) == Reply(chains, ByTotal(g, intent, chains))
Parsed(g, intent) == Answered(g, intent, Candidates(g, intent))
Orchestrate(g, q) == Parsed(g, Parse(q))
-----------------------------------------------------------------------------
CodeInit ==
  /\ graph = [atoms |-> {}, edges |-> << >>]
  /\ phase = "empty" /\ query = None /\ answer = None

(* A registry is built in one go: all functions, all relations, the edges.  *)
BuildRustRegistry ==
  /\ phase = "empty"
  /\ graph' = BuildTypeEdges(
       FoldSeq(LAMBDA r, g : AddRelation(g, r.from, r.to, r.type),
               FoldSeq(LAMBDA input, g : AddAtom(g, ConvertAtom(input)), graph, Batch), Links))
  /\ phase' = "built" /\ UNCHANGED <<query, answer>>

(* A function registered later, in the place of one with its identifier or  *)
(* as a new one, has no edges until they are built again for all.           *)
RegisterLate ==
  /\ phase # "empty" /\ answer = None
  /\ \E input \in Late :
       /\ ConvertAtom(input) \notin graph.atoms
       /\ graph' = AddAtom(graph, ConvertAtom(input))
  /\ phase' = "grown" /\ UNCHANGED <<query, answer>>
RebuildTypeEdges ==
  /\ phase = "grown" /\ answer = None
  /\ graph' = BuildTypeEdges(graph)
  /\ phase' = "rebuilt" /\ UNCHANGED <<query, answer>>

Ask(q) ==
  /\ phase # "empty" /\ answer = None
  /\ query' = q /\ answer' = Orchestrate(graph, q)
  /\ UNCHANGED <<graph, phase>>

CodeNext ==
  \/ BuildRustRegistry \/ RegisterLate \/ RebuildTypeEdges
  \/ \E q \in Queries : Ask(q)
-----------------------------------------------------------------------------
(* What a function of the tables declares, read with no parser.             *)
Declares(input, atom) ==
  /\ atom.returns = input.returns
  /\ [i \in DOMAIN atom.params |-> atom.params[i].type] = input.params
(* A signature that separates its parameters with its only commas and its   *)
(* only parentheses, and whose only arrow announces the result.             *)
Plain(input) ==
  LET text == input.signature
      open == FirstOf(text, {"("})
      close == FirstOf(text, {")"})
      Count(token) == Cardinality({i \in DOMAIN text : text[i] = token})
  IN  /\ Count("(") = 1 /\ Count(")") = 1 /\ Count("->") <= 1
      /\ Cardinality({i \in open..close : text[i] = ","}) + 1 = Len(input.params)

(* Plain signatures are read as they are declared, so once the edges are    *)
(* drawn one function leads to another exactly when what it declares to     *)
(* return can be handed to what the other declares to take; and an edge     *)
(* joins two functions the registry has (parse_signature with              *)
(* build_type_edges: the edges are right only as far as the heuristics of   *)
(* the parser are).                                                         *)
EdgesFollowDeclaredTypes ==
  phase # "empty" =>
    /\ \A e \in Violations(graph) : e.type # "composes"
    /\ \A x \in ToSet(Batch) \cup Late :
         Plain(x) /\ ConvertAtom(x) \in graph.atoms => Declares(x, Atom(graph, x.id))
    /\ phase = "built" =>
         \A x, y \in ToSet(Batch) : Plain(x) /\ Plain(y) /\ x.id # y.id =>
           ( [from |-> x.id, to |-> y.id, type |-> "composes"] \in ToSet(graph.edges)
             <=> /\ x.lang = y.lang /\ x.returns # << >> /\ y.params # << >>
                 /\ Composes(x.returns[1], y.params[1]) # "no match" )

(* Every registered function has the types its signature declares ("a fully *)
(* typed graph with type-directed edges", build_rust_registry).             *)
FullyTyped ==
  phase = "built" => \A x \in ToSet(Batch) : Declares(x, Atom(graph, x.id))

(* However many chains compose, the answer is the best match on its own: no *)
(* chain is trusted more than one function, and none overtakes the match it *)
(* starts from.  Every alternative is a match too, of the language asked    *)
(* for, and what is chained can really be chained (orchestrate over         *)
(* match_atoms, compose_chain and score_chain, with stable sorts between).  *)
BestMatchAnswers(intent, matches, chains) ==
  /\ answer.found <=> matches # << >>
  /\ answer.found =>
       /\ answer.rendered = <<matches[1]>>
       /\ \A id \in ToSet(matches) :
            TagScore(intent, Atom(graph, id)) <= TagScore(intent, Atom(graph, matches[1]))
       /\ \A k \in DOMAIN answer.alternatives :
            /\ TagScore(intent, Atom(graph, answer.alternatives[k])) > 500
            /\ intent.lang \in {None, Atom(graph, answer.alternatives[k]).lang}
  /\ \A chain \in ToSet(chains) : \A i \in 1..(Len(chain) - 1) :
       CanFollow(graph, chain[i], chain[i + 1])
AnswersTheIntent(intent) ==
  BestMatchAnswers(intent, MatchAtoms(graph, intent), Candidates(graph, intent))
AnswerIsTheBestMatch == answer # None => AnswersTheIntent(Parse(query))

(* The registry can be trusted from the signature to the answer: the edges  *)
(* follow the declared types, and what is answered is the best match or a   *)
(* chain along such edges (build_rust_registry to orchestrate).             *)
AnswersFollowTheTypes == EdgesFollowDeclaredTypes /\ AnswerIsTheBestMatch
=============================================================================
