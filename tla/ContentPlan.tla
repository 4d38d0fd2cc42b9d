----------------------------- MODULE ContentPlan -----------------------------
(***************************************************************************)
(* Content plans of response plan V1: the audited profile read once from   *)
(* its table and the facts of the active packs, the plan a turn gets, and  *)
(* the renderer that speaks only what the profile admits for the topic.    *)
(***************************************************************************)
EXTENDS FactRegistry, SequencesExt

CONSTANTS
  Missing,
  ProfileSize,   \* how many topics the profile must admit
  Recognised,    \* the topics the recogniser covers
  Profiles,      \* the tables a program may be built with: [rows, facts]
  Turns          \* the turns: [mode, subject, enough, family, challenged, text]

(* A table is a list of rows; no turn at all is none of the turns.          *)
ProfileAssumption ==
  /\ \A source \in Profiles : source.rows \in Seq(ToSet(source.rows))
  /\ Missing \notin Turns

VARIABLES table, profile, turn, outcome, surface

contentVars == <<table, profile, turn, outcome, surface>>

(* A row: a topic, the identifier of its predicate (a path), the slots of   *)
(* its proposition and the words of its statements, which may be blank.     *)
BlankWords == {<< >>, <<" ">>}
BlankText == {"", " "}

Ref(row, kind) == IF kind = "thesis" THEN row.predicate ELSE Append(row.predicate, kind)
FactOf(ref) == <<"fact">> \o ref
Statement(row, kind) ==
  [role |-> kind, ref |-> Ref(row, kind), fact |-> FactOf(Ref(row, kind)), says |-> row[kind]]
Kinds(row) ==
  IF row.columns = 8 /\ row.consequence # << >> THEN <<"thesis", "counterpoint", "consequence">>
  ELSE <<"thesis", "counterpoint">>
ProfileEntry(row, i) ==
  [topic |-> row.topic, primary |-> row.predicate,
   proposition |-> [form |-> "canonical", of |-> row.slots],
   statements |-> [k \in DOMAIN Kinds(row) |-> Statement(row, Kinds(row)[k])],
   record |-> i]
Refs(row) == {Ref(row, k) : k \in ToSet(Kinds(row))}

RowFault(rows, i) ==
  LET row == rows[i] IN
  FirstFault(
    << <<row.columns \notin 7..8, "columns">>,
       <<\/ row.topic \in BlankText \/ row.predicate \in BlankWords
         \/ ToSet(row.slots) \cap BlankText # {}
         \/ row.thesis \in BlankWords \/ row.counterpoint \in BlankWords, "empty field">>,
       <<row.topic \notin Recognised, "topic is not recognised">>,
       <<row.thesis[1] # row.topic, "thesis is not about its topic">>,
       <<\E j \in 1..(i - 1) : Refs(rows[j]) \cap Refs(row) # {}, "duplicate predicate">>,
       <<\E j \in 1..(i - 1) : rows[j].topic = row.topic, "duplicate topic">> >>)

(* Every admitted predicate has one fact, and the packs no other.           *)
ProfileFault(rows, facts) ==
  LET predicates == UNION {Refs(rows[i]) : i \in DOMAIN rows} IN
  FirstFault(
    << CheckOf(FaultIn([i \in DOMAIN rows |-> RowFault(rows, i)])),
       <<Len(rows) # ProfileSize, "number of topics">>,
       <<Cardinality(facts.records) # Cardinality(predicates), "number of facts">>,
       <<\E p \in predicates : SelectByPredicate(facts, p) # "ok", "predicate without fact">> >>)

ParseProfile(source) ==
  LET fault == ProfileFault(source.rows, source.facts) IN
  IF fault # "ok" THEN [fault |-> fault]
  ELSE [fault |-> "ok", facts |-> source.facts,
        entries |-> {ProfileEntry(source.rows[i], i) : i \in DOMAIN source.rows}]

Admitted(p, topic) == {e \in p.entries : e.topic = topic}
-----------------------------------------------------------------------------
Claim(id, role, fact, proposition, refs, evidence, confidence) ==
  [id |-> id, role |-> role, fact |-> fact, proposition |-> proposition, refs |-> refs,
   evidence |-> evidence, confidence |-> confidence]
DerivedStep(claim, rule) == [claim |-> claim.id, refs |-> claim.refs, rule |-> rule]

Declarative(claim) == claim.role # "dialogue act"

ClaimFault(claims, i) ==
  LET c == claims[i] IN
  FirstFault(<< <<c.id = << >>, "empty claim id">>,
                <<\E k \in DOMAIN c.refs : c.refs[k] = << >>, "empty predicate">>,
                <<c.confidence > 10000, "confidence">>,
                <<Declarative(c) /\ c.fact = Missing, "no fact">>,
                <<~ Declarative(c) /\ c.fact # Missing, "a dialogue act with a fact">>,
                <<\E j \in 1..(i - 1) : claims[j].id = c.id, "duplicate claim">> >>)
Validate(p) ==
  LET ids == {p.claims[i].id : i \in DOMAIN p.claims} IN
  FirstFault(
    << <<Len(p.claims) > 3, "too many claims">>,
       CheckOf(FaultIn([i \in DOMAIN p.claims |-> ClaimFault(p.claims, i)])),
       <<Len(p.derivation) > 8, "too many steps">>,
       <<\E i \in DOMAIN p.derivation : p.derivation[i].claim \notin ids, "foreign step">>,
       <<p.obligation.act = "check agreement" /\ p.obligation.claim \notin ids,
         "foreign obligation">> >>)
ValidateWithFacts(p, facts) ==
  FirstFault(
    << CheckOf(Validate(p)),
       <<\E i \in DOMAIN p.claims :
           Declarative(p.claims[i]) /\ Select(facts, p.claims[i].fact) # "ok", "fact">> >>)
-----------------------------------------------------------------------------
GoalForMode(mode) ==
  CASE mode = "define" -> "define" [] mode = "assert" -> "generate thesis"
    [] mode = "challenge" -> "challenge" [] mode = "connect" -> "compare"
    [] mode = "reflect" -> "reflect" [] mode = "greeting" -> "contact"
    [] mode = "purpose" -> "explain" [] mode = "world cause" -> "hypothesize"

DefaultStrategy(cause) ==
  CASE cause \in {"no topic provided", "unknown topic"} -> "ask clarification"
    [] cause = "no admissible predicate" -> "bounded non argued response"
    [] cause = "morphology failure" -> "retry morphology"
    [] cause = "quality rejection" -> "reject surface"
    [] cause = "semantic conflict" -> "resolve semantic conflict"
    [] cause = "persistence recovery" -> "restore snapshot"

Failed(fault) == [kind |-> "failed", fault |-> fault]
FallbackPlan(goal, subject, cause) ==
  [kind |-> "fallback", goal |-> goal, subject |-> subject,
   cause |-> cause, strategy |-> DefaultStrategy(cause)]
Ready(p) == IF Validate(p) # "ok" THEN Failed(Validate(p)) ELSE [kind |-> "ready", plan |-> p]

(* The thesis is confirmed with the user; the other statements stand to it. *)
ArguedClaim(e, i) ==
  LET s == e.statements[i] IN
  Claim(Append(e.primary, s.role), s.role, s.fact,
        IF i = 1 THEN e.proposition ELSE [form |-> s.role, of |-> <<s.ref, e.primary>>],
        IF i = 1 THEN <<e.primary>> ELSE <<s.ref, e.primary>>,
        [from |-> "curated", record |-> e.record], IF i = 1 THEN 9500 ELSE 9000)
BuildArguedPlan_Unchecked(p, goal, e) ==
  LET claims == [i \in DOMAIN e.statements |-> ArguedClaim(e, i)] IN
  Ready([goal |-> goal, subject |-> [kind |-> "topic", of |-> e.topic], claims |-> claims,
         relation |-> "counterpoint", sentences |-> Len(claims),
         obligation |-> [act |-> "check agreement", claim |-> claims[1].id],
         derivation |-> [i \in DOMAIN claims |-> DerivedStep(claims[i], claims[i].role)]])
BuildArguedPlan(p, goal, e) ==
  LET claims == [i \in DOMAIN e.statements |-> ArguedClaim(e, i)]
      argued == [goal |-> goal, subject |-> [kind |-> "topic", of |-> e.topic],
                 claims |-> claims, relation |-> "counterpoint", sentences |-> Len(claims),
                 obligation |-> [act |-> "check agreement", claim |-> claims[1].id],
                 derivation |-> [i \in DOMAIN claims |-> DerivedStep(claims[i], claims[i].role)]]
      unselected == {i \in DOMAIN claims : Select(p.facts, claims[i].fact) # "ok"}
  IN  IF unselected # {} THEN Failed("fact")
      ELSE IF ValidateWithFacts(argued, p.facts) # "ok"
           THEN Failed(ValidateWithFacts(argued, p.facts)) ELSE Ready(argued)

(* A contract of the dialogue itself: one act that claims no fact.          *)
ContractAct(subject, predicate, evidence) ==
  Claim(<<predicate, "claim">>, "dialogue act", Missing, [form |-> subject.kind, of |-> subject],
        <<<<predicate>>>>, [from |-> evidence, record |-> Missing], 10000)
BuildContractPlan(goal, subject, predicate, evidence, rule, obligation) ==
  LET act == ContractAct(subject, predicate, evidence)
  IN  Ready([goal |-> goal, subject |-> subject, claims |-> <<act>>, relation |-> "none",
             sentences |-> 1, obligation |-> [act |-> obligation, claim |-> Missing],
             derivation |-> <<DerivedStep(act, rule)>>])

BuildOutcome(p, mode, subject, enough) ==
  LET goal == GoalForMode(mode)
      found == IF p.fault = "ok" THEN Admitted(p, subject) ELSE {}
  IN
  IF enough THEN
       IF p.fault # "ok" THEN Failed(p.fault)
       ELSE IF found = {} THEN FallbackPlan(goal, "known topic", "no admissible predicate")
       ELSE BuildArguedPlan(p, goal, CHOOSE e \in found : TRUE)
  ELSE IF mode = "greeting" THEN
       BuildContractPlan(goal, [kind |-> "dialogue", of |-> "contact"], "contact",
                         "system contract", "applied dialogue contract", "continue contact")
  ELSE IF mode \in {"purpose", "world cause"} /\ subject \notin BlankText THEN
       BuildContractPlan(goal, [kind |-> "external", of |-> subject], mode, "user input",
                         "grounded external reference", "none")
  ELSE IF subject \in BlankText THEN FallbackPlan(goal, "no topic", "no topic provided")
  ELSE FallbackPlan(goal, "unresolved topic", "unknown topic")
-----------------------------------------------------------------------------
(* The renderer takes nothing from the plan on trust: every claim must be   *)
(* what the profile admits for the topic in that role.                      *)
InRole(p, role) == {i \in DOMAIN p.claims : p.claims[i].role = role}
RoleFault(p, e, i) ==
  LET inRole == InRole(p, e.statements[i].role)
      claim == p.claims[CHOOSE k \in inRole : TRUE]
      expected == ArguedClaim(e, i)
  IN  IF Cardinality(inRole) # 1 THEN "not one claim of a role"
      ELSE FirstFault(<< <<claim.proposition # expected.proposition, "proposition">>,
                         <<claim.refs # expected.refs, "references">> >>)
RenderFault(p, e) ==
  FirstFault(
    << CheckOf(Validate(p)),
       CheckOf(FaultIn([i \in DOMAIN e.statements |-> RoleFault(p, e, i)])),
       <<Len(p.claims) # Len(e.statements), "unsupported role">>,
       <<\A i \in InRole(p, "thesis") :
           p.obligation # [act |-> "check agreement", claim |-> p.claims[i].id],
         "obligation">> >>)
RenderAuditedPlan(p, content) ==
  LET found == Admitted(p, content.subject.of)
      e == CHOOSE x \in found : TRUE
  IN  IF found = {} THEN Failed("topic is not admitted")
      ELSE IF RenderFault(content, e) # "ok" THEN Failed(RenderFault(content, e))
      ELSE [kind |-> "surface",
            sentences |-> [i \in DOMAIN e.statements |->
                             <<e.statements[i].role, e.statements[i].says>>] \o <<<<"check", << >> >>>>]
-----------------------------------------------------------------------------
ContentInit ==
  /\ table \in Profiles
  /\ profile = Missing /\ turn = Missing /\ outcome = Missing /\ surface = Missing

(* The profile is read once in a process, and its failure is remembered.    *)
OpenProfile ==
  /\ profile = Missing /\ profile' = ParseProfile(table)
  /\ UNCHANGED <<table, turn, outcome, surface>>

PlanShadow(r) ==
  /\ profile # Missing /\ turn = Missing
  /\ turn' = r /\ outcome' = BuildOutcome(profile, r.mode, r.subject, r.enough)
  /\ UNCHANGED <<table, profile, surface>>

(* Only a plan about a topic has an audited surface.                        *)
RenderPlan ==
  /\ outcome # Missing /\ outcome.kind # "failed" /\ surface = Missing
  /\ surface' = IF outcome.kind = "ready" /\ outcome.plan.subject.kind = "topic"
                THEN RenderAuditedPlan(profile, outcome.plan)
                ELSE [kind |-> "other renderer"]
  /\ UNCHANGED <<table, profile, turn, outcome>>

NextTurn ==
  /\ outcome # Missing /\ (outcome.kind = "failed" \/ surface # Missing)
  /\ turn' = Missing /\ outcome' = Missing /\ surface' = Missing
  /\ UNCHANGED <<table, profile>>
=============================================================================
