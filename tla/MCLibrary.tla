------------------------------ MODULE MCLibrary ------------------------------
EXTENDS PlanTurn, TurnGuard, FactPacks, PlanChain, PlanSurface, Observers, TLC
VARIABLES focus,
  graph, phase, query, answer,                               \* CodeRegistry
  edges, network, lastTopic, consolidation, asked, found     \* GraphSearch

Concept(id, pack, lemma, aliases) ==
  [id |-> id, pack |-> pack, atom |-> "atom", lemma |-> lemma,
   aliases |-> aliases, version |-> 1]
Fact(id, pack, subject, object, conditions, from, status) ==
  [predicate |-> id,
   record |-> [id |-> id, subject |-> subject, relation |-> "is", object |-> object,
               pack |-> pack, ref |-> "ref", confidence |-> 9000,
               conditions |-> conditions, from |-> from, to |-> 0, status |-> status]]
Pack(id, version, concepts, facts, honest) ==
  [id |-> id, version |-> version, provenance |-> TRUE, concepts |-> concepts,
   facts |-> facts, relations |-> <<"is">>,
   hashes |-> [f \in {"concepts", "facts", "relations"} |->
                 IF honest THEN f ELSE "other bytes"]]

FreedomConcept(pack) == Concept("freedom", pack, <<"free">>, {<<"Frees!">>})
Truth(pack) == Concept("truth", pack, <<"truth">>, {})
Core == Pack("core", 1, <<FreedomConcept("core"), Truth("core")>>,
             <<Fact("f1", "core", "freedom", "truth", {}, 0, "curated"),
               Fact("f2", "core", "truth", "freedom", {}, 3, "draft")>>, TRUE)
(* Shares a word with the core, owns a longer one, leans on a core fact. *)
Ethics == Pack("ethics", 1,
               <<Concept("liberty", "ethics", <<"liberty">>, {<<"free">>}),
                 Concept("speech", "ethics", <<"great", "speech">>, {})>>,
               <<Fact("f3", "ethics", "liberty", "truth", {"f1"}, 0, "curated")>>, TRUE)
(* Names another object for what the core says of freedom. *)
Rival == Pack("rival", 1, <<Concept("power", "rival", <<"power">>, {<<"freely">>})>>,
              <<Fact("f4", "rival", "freedom", "power", {}, 0, "curated")>>, TRUE)
Rhetoric == Pack("rhetoric", 1, <<Concept("oratory", "rhetoric", <<"speech">>, {})>>, << >>, TRUE)
Successor == Pack("core", 2, <<Concept("new", "core", <<"late">>, {})>>, << >>, TRUE)
Tampered == Pack("late", 1, <<Concept("late", "late", <<"late">>, {})>>, << >>, FALSE)

PackWords == {"free", "Frees!", "frees", "freely", "speech", "truth", "...", "liberty", "power",
          "great", "late"}
MCPackPool == {Core, Ethics, Rival, Rhetoric, Successor, Tampered}
MCFold == [w \in PackWords |-> CASE w = "Frees!" -> <<"frees">> [] w = "..." -> << >>
                             [] OTHER -> <<w>>]
MCLemmaOf == [w \in PackWords |-> IF w \in {"frees", "freely"} THEN "free" ELSE w]
MCPhrases == {<<"free">>, <<"great", "speech">>, <<"...">>, <<"truth", "freely">>,
              <<"speech", "Frees!">>}
-----------------------------------------------------------------------------
(* Leaves 1 to 4 say t1 to t4, and the composites stand over them.           *)
Node(kind, of, kids) == [kind |-> kind, of |-> of, kids |-> kids]
MCForm ==
  << Node("predicate", "t1", << >>), Node("predicate", "t2", << >>),
     Node("predicate", "t3", << >>), Node("predicate", "t4", << >>),
     Node("conjunction", "", <<1, 2>>), Node("conditional", "", <<1, 2>>),
     Node("contrast", "", <<1, 3>>), Node("consequence", "", <<4, 1>>),
     Node("question", "", <<5>>), Node("qualification", "surely", <<1>>),
     Node("conditional", "", <<1, 6>>), Node("question", "", <<7>>) >>
(* f2 is valid from 2 up to 4, f3 is a draft with a window, f4 an unbound fact, *)
(* f5 a draft without a window, and nothing says t4.                           *)
PlanFact(id, triple, from, to, status) ==
  [id |-> id, triple |-> triple, from |-> from, to |-> to, status |-> status]
MCRegistry ==
  [records |-> {PlanFact("f1", "t1", 0, 0, "curated"), PlanFact("f2", "t2", 2, 4, "curated"),
                PlanFact("f3", "t3", 0, 9, "draft"), PlanFact("f4", "t1", 0, 0, "curated"),
                PlanFact("f5", "t3", 0, 0, "draft")},
   bindings |-> {[predicate |-> p, fact |-> p] : p \in {"f1", "f2", "f3", "f5", "f9"}}]

Step(premises, conclusion, rule, honest) ==
  [premises |-> premises, conclusion |-> conclusion, rule |-> rule, honest |-> honest]
StepPool ==
  {Step(<<2, 1>>, 5, "conjunction", TRUE), Step(<<1, 1>>, 5, "conjunction", TRUE),
   Step(<<11, 1>>, 6, "elimination", TRUE), Step(<<6, 1>>, 2, "elimination", TRUE),
   Step(<<1, 3>>, 7, "contrast", TRUE), Step(<<3, 1>>, 7, "contrast", TRUE),
   Step(<<4, 1>>, 8, "consequence", TRUE), Step(<<2, 1>>, 5, "conjunction", FALSE),
   Step(<<11>>, 6, "elimination", TRUE)}
Leaf(role, of) == [role |-> role, of |-> of, parts |-> << >>]
Sequence(parts) == [role |-> "sequence", of |-> 0, parts |-> parts]
Pairs == {Sequence(<<Leaf("thesis", i), Leaf("counterpoint", j)>>) : i, j \in 1..4}
Odd == {Sequence(<<Leaf("thesis", 1)>>),
        Sequence(<<Leaf("thesis", 1), Sequence(<<Leaf("support", 1), Leaf("support", 2)>>)>>)}
DagOf(ids) == {[id |-> i, node |-> MCForm[i]] : i \in ids}
WholeDag(tree, steps) ==
  DagOf(Closure(DagOf(DOMAIN MCForm),
    StatedPropositions(tree)
      \cup UNION {{s.conclusion} \cup ToSet(s.premises) : s \in steps}))
Proposal(dag, steps, tree, bindings, asOf) ==
  [dag |-> dag, steps |-> steps, tree |-> tree, bindings |-> bindings, asOf |-> asOf]
(* Whole proposals with every binding and date, and damaged ones.           *)
MCDrafts ==
  {Proposal(WholeDag(Leaf("thesis", i), steps), steps, Leaf("thesis", i),
            (<<i, <<0, "thesis">>>> :> f), asOf) :
     i \in 1..12, steps \in {s \in SUBSET StepPool : Cardinality(s) <= 2},
     f \in {"f1", "f2", "f3", "f4", "f5", "f9"}, asOf \in {0, 3, 5}}
  \cup UNION
  {{Proposal(WholeDag(t, {}), {}, t, b, asOf) :
      b \in [ClaimIds(t) -> {"f1", "f2", "f3", "f5"}], asOf \in {0, 3}} : t \in Pairs}
  \cup {Proposal(WholeDag(t, {}), {}, t, << >>, 0) : t \in Pairs}
  \cup {Proposal(DagOf({1, 2}), {}, t, << >>, 0) : t \in Odd}
  \cup {Proposal(dag, {}, Leaf("thesis", 5), (<<5, <<0, "thesis">>>> :> "f1"), 0) :
          dag \in {DagOf({5, 1}), DagOf({1, 2, 3, 5}), DagOf({1, 2}), {},
                   DagOf({1, 2}) \cup {[id |-> 5, node |-> Node("conjunction", "", <<2, 1>>)]},
                   DagOf({1, 2}) \cup {[id |-> 5, node |-> MCForm[6]]}}}
-----------------------------------------------------------------------------
(* One topic for each boundary an attempt can stop at.                       *)
Work(bytes, clauses) ==
  [propositions |-> 2, derivations |-> 0, occurrences |-> 2, clauses |-> clauses, bytes |-> bytes]
Whole == [audited |-> TRUE, admitted |-> TRUE, certified |-> TRUE, asserted |-> TRUE,
          forms |-> "complete", work |-> Work(2, 2),
          nodes |-> <<"realized thesis", "counterpoint">>,
          verbatim |-> <<"audited thesis", "counterpoint">>]
MCTopics ==
  [freedom |-> Whole, memory |-> Whole, weather |-> [Whole EXCEPT !.audited = FALSE],
   choice |-> [Whole EXCEPT !.forms = "incomplete"], time |-> [Whole EXCEPT !.work = Work(3, 2)],
   law |-> [Whole EXCEPT !.work = Work(2, 3)], duty |-> [Whole EXCEPT !.certified = FALSE],
   truth |-> [Whole EXCEPT !.forms = "no frame"]]
MCLimits == [Work(2, 2) EXCEPT !.derivations = 1]
-----------------------------------------------------------------------------
(* Two lexemes share a genitive, one lacks its instrumental, and one is     *)
(* trusted less than the word it shares its nominative with.                *)
CaseKeys == {"nom_sg", "nom_pl", "gen_sg", "gen_pl", "dat_sg", "dat_pl",
             "acc_sg", "acc_pl", "ins_sg", "ins_pl", "prep_sg", "prep_pl"}
Entry(lemma, gender, tier, forms) ==
  [lemma |-> lemma, pos |-> "noun", gender |-> gender, animacy |-> "inanim", tier |-> tier,
   quality |-> 9, forms |-> [k \in CaseKeys |->
                               IF k \in DOMAIN forms THEN forms[k] ELSE ""]]
Mind == Entry("mind", "masculine", "curated",
              [nom_sg |-> "mind", gen_sg |-> "of mind", ins_sg |-> "mindwith", acc_sg |-> "mind"])
Time == Entry("time", "neuter", "curated",
              [nom_sg |-> "time", gen_sg |-> "of mind", ins_sg |-> "timewith", acc_sg |-> "time"])
Will == Entry("will", "feminine", "reviewed",
              [nom_sg |-> "will", gen_sg |-> "of will", acc_sg |-> "mind", nom_pl |-> "wills"])
Mint == Entry("mint", "masculine", "auto_coverage", [nom_sg |-> "will", gen_sg |-> "of will"])
LexemeBundle(hash, lexemes) ==
  [given |-> TRUE, missing |-> "none", hash |-> hash, lexemes |-> lexemes,
   manifest |-> [version |-> 1, repository |-> TRUE, commit |-> TRUE, license |-> "MIT",
                 hash |-> hash]]
Canonical == LexemeBundle("canonical", <<Mind, Time, Will, Mint>>)
Other == LexemeBundle("other", <<Mind, Entry("time", "male", "curated",
                                             [nom_sg |-> "time", gen_sg |-> "of time", ins_sg |-> "timewith"]),
                           Will, Mind>>)
BadBundles ==
  {[Other EXCEPT !.missing = m] : m \in {"lexemes", "manifest"}}
  \cup {[Other EXCEPT !.manifest = x] : x \in
          {[Other.manifest EXCEPT !.version = 2], [Other.manifest EXCEPT !.license = "own"],
           [Other.manifest EXCEPT !.hash = "none"], [Other.manifest EXCEPT !.hash = "canonical"]}}
  \cup {[Other EXCEPT !.lexemes = x] : x \in
          {<< >>, <<Mind, [Time EXCEPT !.lemma = ""]>>, <<Mind, [Time EXCEPT !.lemma = "Mind"]>>,
           <<[Mind EXCEPT !.tier = "folklore"]>>}}
Row(relation, kind, forms, complement) ==
  [relation |-> relation, columns |-> 4, kind |-> kind, forms |-> forms, complement |-> complement]
Governing(kind, preposition, case) == [kind |-> kind, preposition |-> preposition, case |-> case]
Bound == <<"bound m", "bound f", "bound n", "bound pl">>
ClauseWords == {"", "mind", "of mind", "mindwith", "time", "of time", "timewith", "will",
                "of will", "wills", "Mind", "with", "choice", "mint"}
MCLowerWord == [w \in ClauseWords |-> IF w = "Mind" THEN "mind" ELSE w]
MCOverrides == {[given |-> FALSE, hash |-> "none"], Other} \cup BadBundles
MCFrameRows ==
  << Row("bound", "agreeing", Bound, Governing("prep", "with", "ins")),
     Row("needs", "finite", <<"needs">>, Governing("direct", "", "gen")),
     Row("is not", "agreeing", Bound, Governing("none", "", "")),
     Row("may", "finite", <<"may">>, Governing("uninflected", "", "")) >>
MCAllomorphs == <<"with", "time">> :> "withe"
MCClaims ==
  {[subject |-> s, relation |-> r, object |-> o, claims |-> 2, statements |-> n,
    surface |-> "as it stands"] :
     s \in {"mind", "time", "will", "mint", "Mind"}, r \in {"bound", "needs", "is not", "may", "eats"},
     o \in {<<"mind">>, <<"time">>, <<"will">>, <<"with", "choice">>, <<"choice", "time">>},
     n \in {0, 1}}
-----------------------------------------------------------------------------
(* Two admitted topics, one with a consequence, and tables refused for each *)
(* fault; one binds a predicate to a fact of another name.                  *)
TopicRow(topic, predicate, consequence) ==
  [columns |-> 8, topic |-> topic, predicate |-> predicate, slots |-> <<topic, "is", "good">>,
   thesis |-> <<topic, "is">>, counterpoint |-> <<"but">>, consequence |-> consequence]
Rows == <<TopicRow("freedom", <<"f">>, <<"so">>), TopicRow("truth", <<"t">>, << >>)>>
CuratedFact(p) == [id |-> <<"fact">> \o p, from |-> 0, to |-> 0, status |-> "curated"]
Bind(p) == [predicate |-> p, fact |-> <<"fact">> \o p]
Predicates == {<<"f">>, <<"f", "counterpoint">>, <<"f", "consequence">>,
               <<"t">>, <<"t", "counterpoint">>}
RowFacts == [records |-> {CuratedFact(p) : p \in Predicates}, bindings |-> {Bind(p) : p \in Predicates}]
Renamed == [records |-> {CuratedFact(p) : p \in Predicates \ {<<"t">>}} \cup {CuratedFact(<<"x">>)},
            bindings |-> {Bind(p) : p \in Predicates \ {<<"t">>}}
                         \cup {[predicate |-> <<"t">>, fact |-> <<"fact", "x">>]}]
WithRow(row) == [rows |-> [Rows EXCEPT ![2] = row], facts |-> RowFacts]
Tables ==
  {[rows |-> Rows, facts |-> RowFacts], [rows |-> Rows, facts |-> Renamed],
   [rows |-> <<Rows[1]>>, facts |-> RowFacts],
   [rows |-> Rows, facts |-> [RowFacts EXCEPT !.records = @ \cup {CuratedFact(<<"y">>)}]],
   [rows |-> Rows, facts |-> [RowFacts EXCEPT !.bindings = @ \ {Bind(<<"t">>)}]]}
  \cup {WithRow(r) : r \in
          {[Rows[2] EXCEPT !.columns = 6], [Rows[2] EXCEPT !.topic = " "],
           [Rows[2] EXCEPT !.slots = <<"truth", "", "good">>], [Rows[2] EXCEPT !.topic = "luck"],
           [Rows[2] EXCEPT !.thesis = <<"it">>], [Rows[2] EXCEPT !.predicate = <<"f", "consequence">>],
           TopicRow("freedom", <<"t">>, << >>), TopicRow("truth", <<"f">>, << >>)}}
Formulations ==
  {"support", "entailment", "unsupported", "counterexample", "concession", "revision",
   "contradiction", "evidence", "definition", "quotation", "hypothetical", "negation",
   "sarcasm", "malformed", "external", "unknown", "undercut"}
Asked(mode, subject, enough, family, challenged, text) ==
  [mode |-> mode, subject |-> subject, enough |-> enough, family |-> family,
   challenged |-> challenged, text |-> text]
MoveFamilies ==
  {"define", "distinguish", "ground", "reflect", "describe", "purpose", "hypothesis", "repair",
   "contact", "connect", "confront", "deepen", "next step", "clarify", "anchor"}
MCTurns ==
  {Asked(m, s, e, "define", FALSE, "Support") :
     m \in {"define", "assert", "challenge", "connect", "reflect", "greeting", "purpose", "world cause"},
     s \in {"freedom", "truth", "power", " "}, e \in BOOLEAN}
  \cup {Asked("assert", "power", FALSE, "define", TRUE, t) : t \in Formulations \cup {"none"}}
  \cup {Asked("assert", "freedom", TRUE, f, FALSE, "none") : f \in MoveFamilies}
MCNormalised ==
  [t \in Formulations \cup {"Support", "none"} |-> IF t = "Support" THEN "support" ELSE t]
-----------------------------------------------------------------------------
Types == INSTANCE CodeTypes WITH
  Primitives <- {"bool", "i64", "usize"}, ShortNames <- {"T", "K", "V", "F"}, Lifetimes <- {"'a"},
  Sizes <- {"2"}
Ty(kind, base, args) == Types!Ty(kind, base, args)
T == Ty("param", <<"T">>, << >>)
VecOf(t) == Ty("generic", <<"Vec">>, <<t>>)
MapOf(k, v) == Ty("generic", <<"HashMap">>, <<k, v>>)
IteratorOf(t) == Ty("generic", <<"Iterator">>, <<t>>)
PythonList == Ty("generic", <<"list">>, <<Ty("primitive", <<"i64">>, << >>)>>)
Code(id, lang, kind, owner, words, tags, signature, params, returns) ==
  [id |-> id, lang |-> lang, kind |-> kind, name |-> id, owner |-> owner, words |-> words,
   tags |-> tags, signature |-> signature, params |-> params, returns |-> returns]
Method(id, owner, words, tags, between, params, result) ==
  Code(id, "rust", "method", owner, words, tags,
       <<"fn", id, "(">> \o between \o <<")", "->">> \o Types!Display(result), params, <<result>>)
SelfOf(t) == Ty("reference", <<"&">>, <<t>>)
Codes ==
  << Code("Vec", "rust", "struct", << >>, {"vec"}, {"collection", "array"},
          <<"struct", "Vec", "<", "T", ">">>, << >>, << >>),
     Method("collect", <<"Iterator">>, {"collect"}, {"collect", "eager"}, <<"self">>,
            <<IteratorOf(T)>>, VecOf(T)),
     Method("group", <<"Iterator">>, {"group"}, {"map", "eager"}, <<"self">>,
            <<IteratorOf(T)>>, VecOf(MapOf(Ty("param", <<"K">>, << >>), VecOf(T)))),
     Method("into_iter", <<"Vec">>, {"iter", "into"}, {"iter", "loop", "lazy"}, <<"self">>,
            <<VecOf(T)>>, IteratorOf(T)),
     Method("keys", <<"HashMap">>, {"keys"}, {"HashMap", "iter"}, <<"&", "self">>,
            <<SelfOf(MapOf(Ty("param", <<"K">>, << >>), Ty("param", <<"V">>, << >>)))>>,
            IteratorOf(Ty("param", <<"K">>, << >>))),
     Method("max", <<"Iterator">>, {"max"}, {"max", "find", "eager"}, <<"self">>,
            <<IteratorOf(T)>>, Ty("generic", <<"Option">>, <<T>>)),
     Code("retain", "rust", "method", <<"Vec">>, {"retain"}, {"filter", "where"},
          <<"fn", "retain", "<", "F", ":", "FnMut", "(", "&", "T", ")", "->", "bool", ">",
            "(", "&mut", "self", ",", "f", ":", "F", ")">>,
          <<Ty("reference", <<"&mut">>, <<VecOf(T)>>), Ty("param", <<"F">>, << >>)>>, << >>),
     Code("sorted", "python", "function", << >>, {"sorted", "sort"}, {"sort", "array"},
          <<"def", "sorted", "(", "items", ":", "list", "[", "int", "]", ")", "->",
            "list", "[", "int", "]">>, <<PythonList>>, <<PythonList>>),
     Code("sum", "python", "function", << >>, {"sum"}, {"sum", "array"},
          <<"def", "sum", "(", "items", ":", "list", "[", "int", "]", ",", "start", ")", "->", "int">>,
          <<PythonList, Ty("unknown", <<"_">>, << >>)>>, <<Ty("primitive", <<"i64">>, << >>)>>) >>
Question(contains, lang) == [contains |-> contains, lang |-> lang]
Codebase == INSTANCE CodeRegistry WITH
  Primitives <- {"bool", "i64", "usize"}, ShortNames <- {"T", "K", "V", "F"}, Lifetimes <- {"'a"},
  Sizes <- {"2"},
  Batch <- Codes,
  Links <- <<[from |-> "max", to |-> "Ord", type |-> "requires"],
             [from |-> "into_iter", to |-> "Vec", type |-> "depends on"]>>,
  Late <- {Method("first", <<"Vec">>, {"first"}, {"find", "Vec"},
                  <<"&", "self", ",", "n", ":", "[", "usize", ";", "2", "]", ",",
                    "by", ":", "&", "'a", "Vec", "<", "T", ">", ",",
                    "of", ":", "[", "T", ";", "N", "]">>,
                  <<SelfOf(VecOf(T)), Ty("array", <<"2">>, <<Ty("primitive", <<"usize">>, << >>)>>),
                    SelfOf(VecOf(T)), Ty("array", << >>, <<T>>)>>, Ty("slice", <<"slice">>, <<T>>)),
           Method("max", <<"Iterator">>, {"max"}, {"max", "find"}, <<"self">>,
                  <<IteratorOf(T)>>, Ty("tuple", <<"tuple">>, <<T, VecOf(T)>>))},
  InOrder <- <<"Ord", "Vec", "collect", "first", "group", "into_iter", "keys", "max", "retain",
               "sorted", "sum">>,
  Queries <- {Question(c, l) :
                c \in {{"find", "vec"}, {"max"}, {"loop"}, {"sort", "array"}, {"order", "iterator"},
                       {"map", "convert"}, {"collect", "unstable", "stable"}, {"sum", "number"}, {}},
                l \in {None, "rust", "python"}}
-----------------------------------------------------------------------------
Edge(from, type, to, topic, names, text) ==
  [from |-> from, to |-> to, type |-> type, topic |-> topic, names |-> names, text |-> text,
   rationale |-> type = "is a"]
(* Words three edges apart, and a sentence that names two of them.           *)
SearchSeed ==
  <<Edge("freedom", "requires", "law", "freedom", {}, 1),
    Edge("law", "limited by", "power", "law", {}, 2),
    Edge("law", "expresses", "truth", "truth", {}, 3)>>
Searches == INSTANCE GraphSearch WITH
  Names <- <<"freedom", "law", "power", "truth", "world">>,
  RelTypes <- <<"requires", "limited by", "expresses", "contrasts with", "is a", "related to">>,
  Favoured <- [requires |-> [by |-> {"consolid"}, tenths |-> 8],
               expresses |-> [by |-> {"reson"}, tenths |-> 7]]
              @@ ("limited by" :> [by |-> {"consolid"}, tenths |-> 6])
              @@ ("contrasts with" :> [by |-> {"cf"}, tenths |-> 8])
              @@ ("is a" :> [by |-> {}, tenths |-> 2]) @@ ("related to" :> [by |-> {}, tenths |-> 2]),
  Supporting <- {"requires"}, Qualifying <- {"limited by"},
  Counters <- {"contrasts with"}, Contrasts <- {"contrasts with"},
  Seeds <- {SearchSeed}, MaxEdges <- 4,
  Growth <- {Edge("freedom", "requires", "law", "law", {}, 2),
             Edge("law", "contrasts with", "freedom", "law", {}, 1),
             Edge("freedom", "is a", "power", "freedom", {}, 4),
             Edge("power", "related to", "world", "truth", {"freedom", "truth"}, 1),
             Edge("truth", "requires", "power", "truth", {"law"}, 2),
             Edge("world", "related to", "world", "world", {}, 3)},
  Profiles <- {[conf |-> 50, cf |-> 50, consolid |-> 50, reson |-> c \div 2, conatus |-> c] :
                 c \in {50, 150}}
-----------------------------------------------------------------------------
(* Answers that differ by case only, and one for each side of every limit.  *)
Rendering(text) ==
  [text |-> text, blank |-> FALSE, bytes |-> 5000, leaks |-> FALSE, toxic |-> FALSE,
   filler |-> FALSE, stems |-> {"law", "ai"}, tokens |-> 20, content |-> 3, bigrams |-> 4]
Yes == Rendering("yes")
MCInputs == {[blank |-> FALSE, chars |-> 8192], [blank |-> FALSE, chars |-> 8193],
             [blank |-> TRUE, chars |-> 0]}
MCTopicWords == {{}, {[stem |-> "law", bytes |-> 6]}, {[stem |-> "ai", bytes |-> 2]}}
MCRenderings ==
  {Yes, Rendering("Yes")}
  \cup {[Yes EXCEPT !.blank = TRUE], [Yes EXCEPT !.bytes = 5001], [Yes EXCEPT !.leaks = TRUE],
        [Yes EXCEPT !.toxic = TRUE], [Yes EXCEPT !.filler = TRUE], [Yes EXCEPT !.stems = {}],
        [Yes EXCEPT !.content = 2], [Yes EXCEPT !.bigrams = 3],
        [Yes EXCEPT !.text = "no", !.tokens = 15, !.content = 0, !.bigrams = 1]}
MCLower == [t \in {"yes", "Yes", "no", "refused"} |-> IF t = "Yes" THEN "yes" ELSE t]
-----------------------------------------------------------------------------
ASSUME TurnAssumption /\ GuardAssumption /\ PoolAssumption /\ ChainAssumption /\ SurfaceAssumption
       /\ ProfileAssumption

GuardStill == UNCHANGED guardVars
SearchStill == UNCHANGED <<edges, network, lastTopic, consolidation, asked, found>>
ObservedStill == UNCHANGED <<contentVars, observerVars>>
SurfacesStill == UNCHANGED surfaceVars
CodeStill == UNCHANGED <<graph, phase, query, answer>>
PacksStill == UNCHANGED packVars
ChainStill == UNCHANGED chainVars
TurnsStill == UNCHANGED <<replayVars, turnVars>>
LibraryInit ==
  /\ focus \in {"packs", "plans", "turns", "surfaces", "observed", "code", "search", "guard"}
  /\ PacksInit
  /\ IF focus = "plans" THEN ChainInit ELSE draft = None /\ stage = "draft" /\ failure = "none"
  /\ TurnInit
  /\ IF focus = "surfaces" THEN SurfaceInit
     ELSE /\ runtime = None /\ override = None /\ captured = None /\ claim = None
          /\ syntax = None /\ resolved = None /\ refusal = "none" /\ spoken = None
  /\ IF focus = "observed" THEN ObserverInit
     ELSE /\ table = None /\ profile = None /\ turn = None /\ outcome = None /\ surface = None
          /\ trace = NoTrace /\ copy = None /\ verdict = None
  /\ Codebase!CodeInit
  /\ Searches!SearchInit
  /\ GuardInit
LibraryNext ==
  /\ UNCHANGED focus
  /\ \/ focus = "packs" /\ PacksNext
        /\ ChainStill /\ TurnsStill /\ SurfacesStill /\ ObservedStill /\ CodeStill /\ SearchStill /\ GuardStill
     \/ focus = "plans" /\ ChainNext
        /\ PacksStill /\ TurnsStill /\ SurfacesStill /\ ObservedStill /\ CodeStill /\ SearchStill /\ GuardStill
     \/ focus = "turns" /\ TurnNext
        /\ PacksStill /\ ChainStill /\ SurfacesStill /\ ObservedStill /\ CodeStill /\ SearchStill /\ GuardStill
     \/ focus = "surfaces" /\ SurfaceNext
        /\ PacksStill /\ ChainStill /\ TurnsStill /\ ObservedStill /\ CodeStill /\ SearchStill /\ GuardStill
     \/ focus = "observed" /\ ObserverNext
        /\ PacksStill /\ ChainStill /\ TurnsStill /\ SurfacesStill /\ CodeStill /\ SearchStill /\ GuardStill
     \/ focus = "code" /\ Codebase!CodeNext
        /\ PacksStill /\ ChainStill /\ TurnsStill /\ SurfacesStill /\ ObservedStill /\ SearchStill /\ GuardStill
     \/ focus = "search" /\ Searches!SearchNext
        /\ PacksStill /\ ChainStill /\ TurnsStill /\ SurfacesStill /\ ObservedStill /\ CodeStill
        /\ GuardStill
     \/ focus = "guard" /\ GuardNext
        /\ PacksStill /\ ChainStill /\ TurnsStill /\ SurfacesStill /\ ObservedStill /\ CodeStill
        /\ SearchStill
LibrarySpec ==
  LibraryInit /\ [][LibraryNext]_<<focus, active, world, draft, stage, failure,
                                  assets, record, said, audit, at, request, plan, reply,
                                  runtime, override, captured, claim, syntax, resolved, refusal,
                                  spoken, table, profile, turn, outcome, surface, trace, copy,
                                  verdict, graph, phase, query, answer,
                                  edges, network, lastTopic, consolidation, asked, found,
                                  history, shown, decision>>
AnswersFollowTheTypes == Codebase!AnswersFollowTheTypes
SearchFindsTheBest == focus = "search" => Searches!SearchFindsTheBest
FullyTyped == Codebase!FullyTyped
=============================================================================
