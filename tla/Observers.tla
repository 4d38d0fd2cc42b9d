------------------------------ MODULE Observers ------------------------------
(***************************************************************************)
(* The two observers of a planned turn: the debate receipt projected from  *)
(* the plan, and the parse of the user's own argument by reviewed rules.   *)
(* Both are evidence with a digest, and neither changes the turn.          *)
(***************************************************************************)
EXTENDS ContentPlan, ArgumentRules

VARIABLES
  trace,        \* the receipts kept with the turn
  copy,         \* a receipt as a reader has it
  verdict       \* what the reader makes of it

observerVars == <<trace, copy, verdict>>
-----------------------------------------------------------------------------
DebateDigest(r) ==
  LET NodeBytes(n) == PushBytes(n.id) \o <<n.kind, n.participant>>
                      \o PushOption(n.fact # Missing, PushBytes(n.fact))
      EdgeBytes(e) == PushBytes(e.from) \o PushBytes(e.to) \o <<e.kind>>
      PositionBytes(e) == <<ToString(e.sequence), e.participant, e.polarity>> \o PushBytes(e.node)
      EvidenceBytes(v) == <<v.kind>> \o PushBytes(v.of)
      ScoreBytes(a) == <<a.dimension, ToString(a.score)>> \o PushAll(a.evidence, EvidenceBytes)
  IN  <<ToString(r.version), r.move>> \o PushBytes(r.topic) \o PushAll(r.nodes, NodeBytes)
      \o PushAll(r.edges, EdgeBytes) \o PushAll(r.ledger, PositionBytes)
      \o PushAll(r.rubric, ScoreBytes)

ScoreFault(rubric, i, ids) ==
  LET a == rubric[i] IN
  FirstFault(<< <<Len(a.evidence) > 32, "evidence">>, <<a.score > 10000, "score">>,
                <<a.evidence = << >>, "no evidence">>,
                <<\E j \in 1..(i - 1) : rubric[j].dimension = a.dimension, "dimension">>,
                <<\E v \in ToSet(a.evidence) : v.kind = "node" /\ v.of \notin ids,
                  "unknown node">> >>)
DebateFault(r) ==
  LET ids == {r.nodes[i].id : i \in DOMAIN r.nodes}
      Edges == ToSet(r.edges)
  IN  FirstFault(
        << <<r.version # 1, "version">>, <<r.topic = << >>, "topic">>,
           <<Len(r.nodes) > 16 \/ Len(r.edges) > 32 \/ Len(r.ledger) > 16 \/ Len(r.rubric) > 4, "bound">>,
           <<\E i \in DOMAIN r.nodes : r.nodes[i].id = << >>, "empty id">>,
           <<Cardinality(ids) # Len(r.nodes), "duplicate node">>,
           <<\E e \in Edges : {e.from, e.to} \ ids # {}, "unknown node">>,
           <<\E e \in Edges : e.from = e.to, "self edge">>,
           <<\E i \in DOMAIN r.ledger : \/ r.ledger[i].sequence # i - 1
                                       \/ r.ledger[i].node \notin ids, "ledger">>,
           CheckOf(FaultIn([i \in DOMAIN r.rubric |-> ScoreFault(r.rubric, i, ids)])) >>)
-----------------------------------------------------------------------------
DebateMove(mode, family, challenged) ==
  IF challenged \/ mode = "challenge" THEN "challenge"
  ELSE CASE family = "define" -> "define" [] family = "distinguish" -> "distinguish"
         [] family \in {"ground", "anchor"} -> "ground"
         [] family \in {"reflect", "deepen"} -> "reflect"
         [] family = "contact" -> "contact" [] family = "connect" -> "connect"
         [] family = "confront" -> "counter"
         [] family \in {"clarify", "repair"} -> "clarify"
         [] family = "next step" -> "infer consequence"
         [] family \in {"describe", "purpose", "hypothesis"} -> "assert"

PolarityOf(role) ==
  CASE role \in {"thesis", "dialogue act"} -> "proposed"
    [] role \in {"support", "consequence"} -> "supported"
    [] role = "counterpoint" -> "qualified"
EdgeOf == [counterpoint |-> "counters", consequence |-> "entails", support |-> "supports"]

TopicLabel(result) ==
  IF result.kind = "fallback" THEN
    CASE result.subject = "known topic" -> "known_topic"
      [] result.subject = "unresolved topic" -> "unresolved_topic"
      [] result.subject = "no topic" -> "no_topic"
  ELSE LET s == result.plan.subject IN
       CASE s.kind = "topic" -> s.of [] s.kind = "dialogue" -> "dialogue"
         [] s.kind = "external" -> "external_subject"

(* The members of a list at the given places, in their order.               *)
AtPlaces(list, places) ==
  [k \in 1..Cardinality(places) |->
     list[CHOOSE i \in places : Cardinality({j \in places : j < i}) = k - 1]]

(* What follows from the thesis points away from it, the rest points at it. *)
EdgeBetween(thesis, claim) ==
  LET kind == EdgeOf[claim.role] IN
  IF kind = "entails" THEN [from |-> thesis.id, to |-> claim.id, kind |-> kind]
  ELSE [from |-> claim.id, to |-> thesis.id, kind |-> kind]
EdgesFrom(claims) ==
  LET theses == {i \in DOMAIN claims : claims[i].role = "thesis"}
      thesis == claims[CHOOSE i \in theses : \A j \in theses : i <= j]
      related == AtPlaces(claims, {i \in DOMAIN claims : /\ claims[i].role \in DOMAIN EdgeOf
                                                         /\ claims[i].id # thesis.id})
  IN  IF theses = {} THEN << >> ELSE [i \in DOMAIN related |-> EdgeBetween(thesis, related[i])]

Assess(dimension, met, evidence) ==
  [dimension |-> dimension, score |-> IF met THEN 10000 ELSE 0, evidence |-> evidence]
NodeRef(id) == [kind |-> "node", of |-> id]
(* A dimension that nothing of the plan meets is scored on how the turn was *)
(* routed or planned.                                                       *)
Rubric(claims, edges, route, planned) ==
  LET factual == {i \in DOMAIN claims : claims[i].fact # Missing}
      facts == AtPlaces(claims, factual)
      OfKind(kind) == AtPlaces(edges, {i \in DOMAIN edges : edges[i].kind = kind})
      counters == OfKind("counters")
      entails == OfKind("entails")
      Or(evidence, other) == IF evidence = << >> THEN <<other>> ELSE evidence
  IN  << Assess("clarity", claims # << >>,
                [i \in 1..(IF claims = << >> THEN 0 ELSE 1) |-> NodeRef(claims[i].id)] \o <<planned>>),
         Assess("grounding", claims # << >> /\ factual = DOMAIN claims,
                Or([i \in DOMAIN facts |-> [kind |-> "fact", of |-> facts[i].fact]], planned)),
         Assess("counterarguments", counters # << >>,
                Or([i \in DOMAIN counters |-> NodeRef(counters[i].from)], route)),
         Assess("consequences", entails # << >>,
                Or([i \in DOMAIN entails |-> NodeRef(entails[i].to)], planned)) >>

ProjectDebate(result, mode, family, challenged) ==
  LET claims == IF result.kind = "ready" THEN result.plan.claims ELSE << >>
      edges == EdgesFrom(claims)
  IN  [version |-> 1, topic |-> <<TopicLabel(result)>>,
       move |-> DebateMove(mode, family, challenged),
       nodes |-> [i \in DOMAIN claims |-> [id |-> claims[i].id, kind |-> claims[i].role,
                                           participant |-> "system", fact |-> claims[i].fact]],
       edges |-> edges,
       ledger |-> [i \in DOMAIN claims |-> [sequence |-> i - 1, participant |-> "system",
                                            node |-> claims[i].id,
                                            polarity |-> PolarityOf(claims[i].role)]],
       rubric |-> Rubric(claims, edges, [kind |-> "route", of |-> <<family>>],
                         [kind |-> "outcome", of |-> <<result.kind>>])]
DebateReceipt(result, mode, family, challenged) ==
  LET receipt == ProjectDebate(result, mode, family, challenged)
  IN  Seal(receipt, DebateFault(receipt), DebateDigest(receipt))
-----------------------------------------------------------------------------
NoTrace == [debate |-> Missing, argument |-> Missing]
ObserverInit == /\ ContentInit /\ trace = NoTrace /\ copy = Missing /\ verdict = Missing

Planned == outcome # Missing /\ outcome.kind # "failed"
ReceiptRefused(receipt) == "refused" \in DOMAIN receipt

(* Each observer runs between the plan and the renderer when it is on; when *)
(* its receipt is refused, the turn goes on without.                        *)
ObserveDebate ==
  /\ Planned /\ surface = Missing /\ trace.debate = Missing
  /\ trace' = [trace EXCEPT !.debate =
                 DebateReceipt(outcome, turn.mode, turn.family, turn.challenged)]
  /\ UNCHANGED <<contentVars, copy, verdict>>

ObserveArgument ==
  /\ Planned /\ surface = Missing /\ trace.argument = Missing
  /\ trace' = [trace EXCEPT !.argument = ParseArgument(turn.text)]
  /\ UNCHANGED <<contentVars, copy, verdict>>

(* Receipts one change away from r: a value of a field, a part of a list    *)
(* that is missing or out of place, or a boundary between two texts.        *)
ChangedList(list, Changed(_)) ==
  {Tail(list), Reverse(list)} \cup {[list EXCEPT ![1] = x] : x \in Changed(list[1])}
ChangedText(text) == {Tail(text), text \o <<"more">>}
ShiftedEdge(e) ==
  {[e EXCEPT !.from = Append(e.from, Head(e.to)), !.to = Tail(e.to)],
   [e EXCEPT !.from = e.to, !.to = e.from], [e EXCEPT !.kind = "other"]}
ChangedNode(n) ==
  {[n EXCEPT !.id = x] : x \in ChangedText(n.id)} \cup {[n EXCEPT !.kind = "other"]}
ChangedDebateNode(n) ==
  ChangedNode(n) \cup {[n EXCEPT !.participant = "user"],
                       [n EXCEPT !.fact = IF n.fact = Missing THEN <<"fact">> ELSE Missing]}
ChangedPosition(e) == {[e EXCEPT !.participant = "user"], [e EXCEPT !.polarity = "opposed"]}
ChangedScore(a) == {[a EXCEPT !.score = 10000 - a.score], [a EXCEPT !.evidence = Tail(@)],
                    [a EXCEPT !.dimension = "other"]}
ChangedDebate(r) ==
  {[r EXCEPT !.version = 2], [r EXCEPT !.move = "other"], [r EXCEPT !.topic = <<"other">>]}
  \cup {[r EXCEPT !.rubric = x] : x \in ChangedList(r.rubric, ChangedScore)}
  \cup (IF r.nodes = << >> THEN {}
        ELSE {[r EXCEPT !.nodes = x] : x \in ChangedList(r.nodes, ChangedDebateNode)}
             \cup {[r EXCEPT !.ledger = x] : x \in ChangedList(r.ledger, ChangedPosition)})
  \cup (IF r.edges = << >> THEN {}
        ELSE {[r EXCEPT !.edges = x] : x \in ChangedList(r.edges, ShiftedEdge)})
ChangedClaim(n) ==
  ChangedNode(n)
  \cup {[n EXCEPT !.subject = <<"no topic">>], [n EXCEPT !.predicate = "other"],
        [n EXCEPT !.object = IF n.object = << >> THEN <<"evidence">> ELSE << >>],
        [n EXCEPT !.source = "other"], [n EXCEPT !.polarity = "other"],
        [n EXCEPT !.confidence = 1], [n EXCEPT !.rule = <<"other">>]}
ChangedRelation(x) ==
  ShiftedEdge(x) \cup {[x EXCEPT !.confidence = 1], [x EXCEPT !.rule = <<"other">>],
                       [x EXCEPT !.id = Tail(@)]}
ChangedOmission(o) == {[o EXCEPT !.reason = "other"], [o EXCEPT !.rule = << >>]}
ChangedArgument(r) ==
  {[r EXCEPT !.version = 2]} \cup {[r EXCEPT !.disposition = x] : x \in {"parsed", "partial"}}
  \cup (IF r.nodes = << >> THEN {}
        ELSE {[r EXCEPT !.nodes = x] : x \in ChangedList(r.nodes, ChangedClaim)})
  \cup (IF r.relations = << >> THEN {}
        ELSE {[r EXCEPT !.relations = x] : x \in ChangedList(r.relations, ChangedRelation)})
  \cup (IF r.omissions = << >> THEN {}
        ELSE {[r EXCEPT !.omissions = x] : x \in ChangedList(r.omissions, ChangedOmission)})

(* A reader has the receipt as it was kept, or with something changed.      *)
ReadDebate ==
  /\ trace.debate # Missing /\ ~ ReceiptRefused(trace.debate) /\ copy = Missing
  /\ copy' \in {trace.debate} \cup ChangedDebate(trace.debate)
  /\ verdict' = ReadBack(copy', DebateFault(copy'), DebateDigest(copy'))
  /\ UNCHANGED <<contentVars, trace>>

ReadArgument ==
  /\ trace.argument # Missing /\ ~ ReceiptRefused(trace.argument) /\ copy = Missing
  /\ copy' \in {trace.argument} \cup ChangedArgument(trace.argument)
  /\ verdict' = ReadBack(copy', ParseFault(copy'), ParseDigest(copy'))
  /\ UNCHANGED <<contentVars, trace>>

ObserverNext ==
  \/ /\ OpenProfile \/ \E r \in Turns : PlanShadow(r)
     /\ UNCHANGED observerVars
  \/ RenderPlan /\ UNCHANGED observerVars
  \/ NextTurn /\ trace' = NoTrace /\ copy' = Missing /\ verdict' = Missing
  \/ ObserveDebate \/ ObserveArgument \/ ReadDebate \/ ReadArgument
ObserverSpec == ObserverInit /\ [][ObserverNext]_<<contentVars, observerVars>>
-----------------------------------------------------------------------------
(* What a receipt has met, and what it says an identifier is of.            *)
Met(receipt, dimension) ==
  \E a \in ToSet(receipt.rubric) : a.dimension = dimension /\ a.score = 10000
KindsOf(receipt, id) == {n.kind : n \in {x \in ToSet(receipt.nodes) : x.id = id}}

(* A reply about an admitted topic says what the table has for that topic   *)
(* in that role, each statement with a fact that can be asserted today, and *)
(* the debate receipt of the turn tells of the same statements: what counts *)
(* against the thesis, what follows from it, and that all of it is curated  *)
(* (plan_shadow_stage, render_audited_plan and debate::observe, three       *)
(* readers of one plan that is checked by each of them in another way).     *)
ReplyKeepsTheProfile ==
  surface # Missing /\ surface.kind # "other renderer" =>
    LET row == CHOOSE r \in ToSet(table.rows) : r.topic = turn.subject
        said == {surface.sentences[i][1] : i \in DOMAIN surface.sentences} \ {"check"}
    IN
    /\ surface.kind = "surface"
    /\ \A i \in 1..(Len(surface.sentences) - 1) :
         /\ surface.sentences[i][2] = row[surface.sentences[i][1]]
         /\ Select(profile.facts, FactOf(Ref(row, surface.sentences[i][1]))) = "ok"
    /\ trace.debate # Missing =>
         /\ Met(trace.debate, "grounding")
         /\ Met(trace.debate, "counterarguments") <=> "counterpoint" \in said
         /\ Met(trace.debate, "consequences") <=> "consequence" \in said
         /\ \A e \in ToSet(trace.debate.edges) :
              <<KindsOf(trace.debate, e.from), KindsOf(trace.debate, e.to)>> =
                CASE e.kind = "entails" -> <<{"thesis"}, {"consequence"}>>
                  [] e.kind = "counters" -> <<{"counterpoint"}, {"thesis"}>>

(* Every planned turn and every text has a receipt each observer accepts,   *)
(* and a copy reads back exactly when nothing in it has changed: no field,  *)
(* no order of a list, no boundary between two texts (calculate_digest of   *)
(* both receipts, with the structure checks that run before it).            *)
ReceiptsReadBack ==
  /\ trace.debate # Missing => ~ ReceiptRefused(trace.debate)
  /\ trace.argument # Missing => ~ ReceiptRefused(trace.argument)
  /\ copy # Missing => (verdict = "ok" <=> copy = trace.debate \/ copy = trace.argument)
=============================================================================
