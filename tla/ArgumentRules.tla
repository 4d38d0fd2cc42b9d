---------------------------- MODULE ArgumentRules ----------------------------
(***************************************************************************)
(* Parsing of the user's argument: a text is recognised only when it is    *)
(* one of the reviewed formulations, whose graph is known, and everything  *)
(* else is an abstention that says why.                                    *)
(***************************************************************************)
EXTENDS Receipts

CONSTANT Normalised   \* the formulation each raw text comes down to, if any

ArgumentNode(id, kind, subject, predicate, object, source, polarity, confidence) ==
  [id |-> id, kind |-> kind, subject |-> subject, predicate |-> predicate, object |-> object,
   source |-> source, polarity |-> polarity, confidence |-> confidence]
Related(from, to, kind, confidence) ==
  <<[from |-> from, to |-> to, kind |-> kind, confidence |-> confidence]>>
Part(rule, part) == <<rule, part>>
(* A topic is named; any other subject or object is only a category, and    *)
(* << >> is no object.                                                      *)
Topic(t) == <<"topic", t>>
FreedomTopic == Topic("freedom")
Duty == Topic("responsibility")
Licence == Topic("licence")

CleanSupport ==
  << ArgumentNode(Part("clean", "premise"), "premise", Duty, "follows from", FreedomTopic,
                  "direct", "affirmed", 7500),
     ArgumentNode(Part("clean", "conclusion"), "conclusion", FreedomTopic, "requires", Duty,
                  "direct", "affirmed", 8000) >>
Enthymeme ==
  << ArgumentNode(Part("enthymeme", "premise"), "premise", FreedomTopic, "requires", Duty,
                  "direct", "affirmed", 7000),
     ArgumentNode(Part("enthymeme", "conclusion"), "conclusion", Duty, "follows from", FreedomTopic,
                  "direct", "affirmed", 7500) >>
Unsupported ==
  << ArgumentNode(Part("unsupported", "claim"), "claim", FreedomTopic, "has property", << >>,
                  "direct", "affirmed", 8500) >>
Counterexample ==
  << ArgumentNode(Part("counterexample", "target"), "claim", FreedomTopic, "has property", << >>,
                  "reported", "unknown", 7000),
     ArgumentNode(Part("counterexample", "counterclaim"), "counterclaim", FreedomTopic, "requires",
                  Duty, "direct", "affirmed", 6500) >>
Concession ==
  << ArgumentNode(Part("concession", "claim"), "claim", FreedomTopic, "values", Duty,
                  "direct", "affirmed", 8000),
     ArgumentNode(Part("concession", "qualifier"), "qualifier", FreedomTopic, "requires", Duty,
                  "direct", "affirmed", 6500) >>
Revision ==
  << ArgumentNode(Part("revision", "old"), "claim", FreedomTopic, "is", Licence,
                  "reported", "affirmed", 8000),
     ArgumentNode(Part("revision", "new"), "counterclaim", FreedomTopic, "is", Licence,
                  "direct", "negated", 8000) >>
Contradiction ==
  << ArgumentNode(Part("contradiction", "claim"), "claim", FreedomTopic, "prevents", Duty,
                  "direct", "affirmed", 8000),
     ArgumentNode(Part("contradiction", "counterclaim"), "counterclaim", Duty, "prevents",
                  FreedomTopic, "direct", "affirmed", 8000) >>
EvidenceRequest ==
  << ArgumentNode(Part("evidence", "target"), "claim", FreedomTopic, "requires", Duty,
                  "quoted", "unknown", 8000),
     ArgumentNode(Part("evidence", "request"), "claim", FreedomTopic, "needs evidence",
                  <<"evidence">>, "direct", "affirmed", 8500) >>
DefinitionRequest ==
  << ArgumentNode(Part("definition", "target"), "claim", FreedomTopic, "defines", <<"definition">>,
                  "unknown", "unknown", 7000),
     ArgumentNode(Part("definition", "request"), "claim", FreedomTopic, "needs definition",
                  <<"definition">>, "direct", "affirmed", 9000) >>
Quotation ==
  << ArgumentNode(Part("quotation", "claim"), "claim", FreedomTopic, "values", Duty,
                  "quoted", "unknown", 8500) >>
Hypothetical ==
  << ArgumentNode(Part("hypothetical", "claim"), "claim", FreedomTopic, "requires", Duty,
                  "hypothetical", "negated", 8000) >>
Negation ==
  << ArgumentNode(Part("negation", "claim"), "claim", FreedomTopic, "permits", Licence,
                  "direct", "negated", 8500) >>
External ==
  << ArgumentNode(Part("external", "claim"), "claim", <<"external subject">>, "values", FreedomTopic,
                  "reported", "unknown", 7500) >>
Unknown ==
  << ArgumentNode(Part("unknown", "claim"), "claim", <<"unresolved topic">>, "justifies", FreedomTopic,
                  "direct", "affirmed", 5000) >>
Undercut ==
  << ArgumentNode(Part("undercut", "warrant"), "premise", Duty, "follows from", FreedomTopic,
                  "quoted", "affirmed", 7000),
     ArgumentNode(Part("undercut", "conclusion"), "conclusion", FreedomTopic, "requires", Duty,
                  "quoted", "affirmed", 7000),
     ArgumentNode(Part("undercut", "counterclaim"), "counterclaim", Duty, "follows from", FreedomTopic,
                  "direct", "negated", 7500) >>

Rule(id, disposition, nodes, relations, omissions) ==
  [id |-> id, disposition |-> disposition, nodes |-> nodes, relations |-> relations,
   omissions |-> omissions]
Parsed(id, nodes, relations) == Rule(id, "parsed", nodes, relations, << >>)
(* One relation, between two parts of the formulation.                      *)
Between(rule, from, to, kind, confidence) ==
  Related(Part(rule, from), Part(rule, to), kind, confidence)

Unmatched == Rule("unmatched_input", "abstained", << >>, << >>, <<"insufficient evidence">>)
ReviewedRules ==
  [support |-> Parsed("explicit_support", CleanSupport,
                      Between("clean", "premise", "conclusion", "supports", 7500)),
   entailment |-> Parsed("conditional_entailment", Enthymeme,
                         Between("enthymeme", "premise", "conclusion", "entails", 7000)),
   unsupported |-> Parsed("unsupported_assertion", Unsupported, << >>),
   counterexample |-> Parsed("explicit_counterexample", Counterexample,
                             Between("counterexample", "counterclaim", "target", "rebuts", 6500)),
   concession |-> Parsed("explicit_concession", Concession,
                         Between("concession", "qualifier", "claim", "qualifies", 6500)),
   revision |-> Parsed("explicit_revision", Revision,
                       Between("revision", "new", "old", "contradicts", 8000)),
   contradiction |-> Parsed("parallel_contradiction", Contradiction,
                            Between("contradiction", "counterclaim", "claim", "attacks", 7000)),
   evidence |-> Parsed("evidence_request", EvidenceRequest,
                       Between("evidence", "request", "target", "requests evidence", 8500)),
   definition |-> Parsed("definition_request", DefinitionRequest,
                         Between("definition", "request", "target", "requests definition", 8500)),
   quotation |-> Parsed("explicit_quotation", Quotation, << >>),
   hypothetical |-> Parsed("hypothetical_negation", Hypothetical, << >>),
   negation |-> Parsed("explicit_negation", Negation, << >>),
   sarcasm |-> Rule("sarcasm_abstention", "abstained", << >>, << >>, <<"insufficient evidence">>),
   malformed |-> Rule("malformed_abstention", "abstained", << >>, << >>,
                      <<"unresolved proposition">>),
   external |-> Parsed("external_subject", External, << >>),
   unknown |-> Rule("unknown_subject", "partial", Unknown, << >>, <<"unresolved proposition">>),
   undercut |-> Parsed("explicit_undercut", Undercut,
                       Between("undercut", "counterclaim", "warrant", "undercuts", 7000))]
ReviewedRule(text) ==
  IF Normalised[text] \in DOMAIN ReviewedRules THEN ReviewedRules[Normalised[text]] ELSE Unmatched
-----------------------------------------------------------------------------
ValidDisposition(disposition, nodes, relations, omissions) ==
  CASE disposition = "parsed" -> nodes > 0 /\ omissions = 0
    [] disposition = "partial" -> nodes > 0 /\ omissions > 0
    [] disposition = "abstained" -> nodes = 0 /\ relations = 0 /\ omissions > 0

(* Every rule named by a node, a relation or an omission is one item of     *)
(* evidence, however often it is named.                                     *)
RulesNamed(r) ==
  {x.rule : x \in Elements(r.nodes) \cup Elements(r.relations) \cup Elements(r.omissions)}
ArgumentNodeFault(nodes, i) ==
  LET n == nodes[i] IN
  FirstFault(<< <<n.id = << >> \/ n.rule = << >>, "empty id">>, <<n.confidence > 10000, "confidence">>,
                <<\E j \in 1..(i - 1) : nodes[j].id = n.id, "duplicate node">> >>)
RelationFault(relations, i, ids) ==
  LET x == relations[i] IN
  FirstFault(<< <<x.confidence > 10000, "confidence">>, <<x.from = x.to, "self relation">>,
                <<\E j \in 1..(i - 1) : relations[j].id = x.id, "duplicate relation">>,
                <<{x.from, x.to} \ ids # {}, "unknown node">>,
                <<\E j \in 1..(i - 1) : /\ relations[j].from = x.from /\ relations[j].to = x.to
                                        /\ relations[j].kind = x.kind, "duplicate tuple">> >>)
ParseFault(r) ==
  LET ids == {r.nodes[i].id : i \in DOMAIN r.nodes} IN
  FirstFault(
    << <<r.version # 1, "version">>,
       <<Len(r.nodes) > 16 \/ Len(r.relations) > 32 \/ Len(r.omissions) > 16, "bound">>,
       <<Cardinality(RulesNamed(r)) > 32, "evidence">>,
       <<~ ValidDisposition(r.disposition, Len(r.nodes), Len(r.relations), Len(r.omissions)),
         "disposition">>,
       CheckOf(FaultIn([i \in DOMAIN r.nodes |-> ArgumentNodeFault(r.nodes, i)])),
       CheckOf(FaultIn([i \in DOMAIN r.relations |-> RelationFault(r.relations, i, ids)])) >>)

StanceBytes_PolarityOnly(n) == <<n.polarity>>
StanceBytes(n) == <<n.source, n.polarity>>
ParseDigest(r) ==
  LET Confidence(c) == <<ToString(c)>>
      Identity(n) == PushBytes(n.id) \o PushTagged(n.subject) \o <<n.predicate>>
                     \o PushOption(n.object # << >>, PushTagged(n.object))
      NodeBytes(n) == <<n.kind>> \o Identity(n) \o StanceBytes(n)
                      \o Confidence(n.confidence) \o PushBytes(n.rule)
      RelationBytes(x) == PushBytes(x.id) \o PushBytes(x.from) \o PushBytes(x.to) \o <<x.kind>>
                          \o Confidence(x.confidence) \o PushBytes(x.rule)
      OmissionBytes(o) == <<o.reason>> \o PushOption(o.rule # << >>, PushBytes(o.rule))
  IN  <<ToString(r.version), r.disposition>> \o PushAll(r.nodes, NodeBytes)
      \o PushAll(r.relations, RelationBytes) \o PushAll(r.omissions, OmissionBytes)

(* The rule that recognised the text is named by all it builds.             *)
BuildReceipt(spec) ==
  LET rule == <<spec.id>>
      receipt ==
        [version |-> 1, disposition |-> spec.disposition,
         nodes |-> [i \in DOMAIN spec.nodes |-> spec.nodes[i] @@ [rule |-> rule]],
         relations |-> [i \in DOMAIN spec.relations |->
                          spec.relations[i]
                          @@ [rule |-> rule, id |-> <<spec.id, "relation", ToString(i - 1)>>]],
         omissions |-> [i \in DOMAIN spec.omissions |->
                          [reason |-> spec.omissions[i], rule |-> rule]]]
  IN  Seal(receipt, ParseFault(receipt), ParseDigest(receipt))
ParseArgument(text) == BuildReceipt(ReviewedRule(text))
=============================================================================
