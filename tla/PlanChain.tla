------------------------------ MODULE PlanChain ------------------------------
(***************************************************************************)
(* The chain of certificates of a V2 response plan: a candidate joins its  *)
(* propositions, derivations and discourse, its leaves are admitted, their *)
(* evidence certified, and each stated claim authorized.  Every artifact   *)
(* has one constructor, which checks the boundary it stands for.           *)
(* A content address is the number of the node's canonical form in Form,   *)
(* so equal meaning is equal identity.                                     *)
(***************************************************************************)
EXTENDS FactRegistry, TLC

CONSTANTS
  Form,              \* the canonical nodes: [kind, of, kids], numbered
  Registry,          \* the active facts and the profile's bindings
  Qualifiers,        \* the qualifiers the assertion policy admits
  Drafts             \* what planners may propose

VARIABLES
  draft,       \* the proposal: [dag, steps, tree, bindings, asOf], as a planner made it
  stage,       \* the strongest certificate it holds
  failure      \* the boundary that refused it, "none" while none did

chainVars == <<draft, stage, failure>>

(* A constructor of nodes takes as many children as it names, dates are     *)
(* numbers, and a proposal is finite.                                       *)
NodeShape(node) ==
  /\ node.kind \in {"predicate", "conjunction", "conditional", "contrast", "consequence",
                    "qualification", "question"}
  /\ node.kids \in Seq(DOMAIN Form)
  /\ node.kind = "predicate" => Len(node.kids) = 0
  /\ node.kind \in {"qualification", "question"} => Len(node.kids) = 1
  /\ node.kind \in {"conditional", "contrast", "consequence"} => Len(node.kids) = 2
ChainAssumption ==
  /\ \A r \in Registry.records : r.from \in Nat /\ r.to \in Nat
  /\ \A d \in Drafts : /\ d.asOf \in Nat /\ IsFiniteSet(d.dag)
                        /\ \A e \in d.dag : NodeShape(e.node)
-----------------------------------------------------------------------------
(* The children in the order the address hashes them: a conjunction's are   *)
(* sorted, the others keep their places.                                    *)
CanonicalChildren(node) ==
  IF node.kind = "conjunction" THEN SortSeq(node.kids, <) ELSE node.kids
Id(node) ==
  CHOOSE n \in DOMAIN Form : Form[n] = [node EXCEPT !.kids = CanonicalChildren(node)]

Ids(dag) == {e.id : e \in dag}
NodeOf(dag, id) == (CHOOSE e \in dag : e.id = id).node
Kids(dag, id) == IF id \in Ids(dag) THEN ToSet(CanonicalChildren(NodeOf(dag, id))) ELSE {}

PropositionDagFault(dag) ==
  \/ dag = {}
  \/ \E e \in dag :
       \/ e.node.kind = "conjunction" /\ Len(e.node.kids) < 2
       \/ Id(e.node) # e.id
       \/ ~ ToSet(CanonicalChildren(e.node)) \subseteq Ids(dag)

(* A rule is confirmed by the shape in which premises and conclusion stand. *)
Confirms(rule, premises, conclusion, dag) ==
  LET node == NodeOf(dag, conclusion) IN
  /\ conclusion \in Ids(dag)
  /\ \/ /\ rule = "conjunction" /\ node.kind = "conjunction"
        /\ CanonicalChildren(node) = SortSeq(premises, <)
     \/ /\ rule \in {"contrast", "consequence"} /\ node.kind = rule
        /\ premises = node.kids
     \/ /\ rule = "elimination"
        /\ \E p \in ToSet(premises) :
             /\ NodeOf(dag, p).kind = "conditional"
             /\ NodeOf(dag, p).kids[2] = conclusion
             /\ NodeOf(dag, p).kids[1] \in ToSet(premises)

DerivationFault(steps, dag) ==
  \E d \in steps :
    \/ ~ d.honest                                   \* stored under a forged id
    \/ ~ ToSet(d.premises) \subseteq Ids(dag)
    \/ d.conclusion \in ToSet(d.premises)
    \/ ~ Confirms(d.rule, d.premises, d.conclusion, dag)
-----------------------------------------------------------------------------
(* A discourse tree is a leaf [role, of] or a sequence of leaves.           *)
IsSequence(tree) == tree.role = "sequence"
ShapeFault(tree) ==
  /\ IsSequence(tree)
  /\ \/ Len(tree.parts) < 2
     \/ \E i \in DOMAIN tree.parts : IsSequence(tree.parts[i])

Leaves(tree) == IF IsSequence(tree) THEN tree.parts ELSE <<tree>>
StatedPropositions(tree) == {leaf.of : leaf \in ToSet(Leaves(tree))}

(* A claim is a proposition as used at one place; its role is its position. *)
ClaimPath(tree, i) ==
  IF IsSequence(tree) THEN <<i, tree.parts[i].role>> ELSE <<0, tree.role>>
ProjectedClaims(tree) ==
  {[claim |-> <<Leaves(tree)[i].of, ClaimPath(tree, i)>>,
    proposition |-> Leaves(tree)[i].of] : i \in DOMAIN Leaves(tree)}
ClaimIds(tree) == {c.claim : c \in ProjectedClaims(tree)}

(* What some nodes lead to: no path is longer than the nodes it leads over. *)
SpreadUpTo(below, from) ==
  LET upTo[n \in 0..Cardinality(DOMAIN below)] ==
        IF n = 0 THEN from
        ELSE LET known == upTo[n - 1]
             IN  known \cup UNION {below[id] : id \in known \cap DOMAIN below}
  IN  upTo
Spread(below, from) == SpreadUpTo(below, from)[Cardinality(DOMAIN below)]

Closure(dag, from) == Spread([id \in Ids(dag) |-> Kids(dag, id)], from)

(* What is stated exists, and what exists is stated or derived.             *)
CandidateFault(d) ==
  LET touched == UNION {{s.conclusion} \cup ToSet(s.premises) : s \in d.steps} IN
  \/ PropositionDagFault(d.dag)
  \/ DerivationFault(d.steps, d.dag)
  \/ ShapeFault(d.tree)
  \/ ~ StatedPropositions(d.tree) \subseteq Ids(d.dag)
  \/ ~ Ids(d.dag) \subseteq Closure(d.dag, StatedPropositions(d.tree) \cup touched)
-----------------------------------------------------------------------------
(* A leaf is admitted by its membership in the profile.  A temporal record  *)
(* is refused by the undated selection before its status is looked at, and  *)
(* only the refusal for status counts here.                                 *)
LeafAdmitted(fact) ==
  /\ Lookup(Registry, fact) # {}
  /\ fact \in BoundFacts(Registry)
  /\ Select(Registry, fact) # "not curated"

AdmissionFault(d) ==
  \/ DOMAIN d.bindings # ClaimIds(d.tree)
  \/ \E claim \in DOMAIN d.bindings : ~ LeafAdmitted(d.bindings[claim])

ClaimCertified(fact, asOf) ==
  /\ Lookup(Registry, fact) # {}
  /\ \A r \in Lookup(Registry, fact) : r.status = "curated"
  /\ IF asOf # NoDate THEN SelectAt(Registry, fact, asOf) = "ok"
     ELSE Select(Registry, fact) = "ok"

EvidenceFault(d) ==
  \E claim \in DOMAIN d.bindings : ~ ClaimCertified(d.bindings[claim], d.asOf)

(* The claim or the node is the conclusion of a step by this rule.          *)
Derived(d, id, rule) == \E s \in d.steps : s.conclusion = id /\ s.rule = rule

RuleOf(kind) == IF kind = "conditional" THEN "elimination" ELSE kind

(* The authority of a content: a leaf's triple is a curated fact, the parts *)
(* of a composite are authorized and a rule concludes it; of a consequence  *)
(* only what follows is asserted.                                           *)
AuthorizeNode_Shallow(d, id) ==
  LET node == NodeOf(d.dag, id) IN
  CASE node.kind = "predicate" ->
         \E r \in Registry.records : r.status = "curated" /\ r.triple = node.of
    [] OTHER -> Derived(d, id, RuleOf(node.kind))
NodeAuthorized(d, id, authorized) ==
  LET node == NodeOf(d.dag, id)
      parts == IF node.kind = "consequence" THEN {node.kids[2]} ELSE ToSet(node.kids)
  IN
  CASE node.kind = "predicate" ->
         \E r \in Registry.records : r.status = "curated" /\ r.triple = node.of
    [] node.kind = "question" -> node.kids[1] \in authorized
    [] node.kind = "qualification" -> node.of \in Qualifiers /\ node.kids[1] \in authorized
    [] OTHER -> parts \subseteq authorized /\ Derived(d, id, RuleOf(node.kind))

(* The walk goes down to the leaves; an address is computed from those of   *)
(* the children, so it is no deeper than the nodes are many.                *)
AuthorizedUpTo(d) ==
  LET upTo[n \in 0..Cardinality(Ids(d.dag))] ==
        IF n = 0 THEN {}
        ELSE LET deeper == upTo[n - 1]
             IN  {id \in Ids(d.dag) : NodeAuthorized(d, id, deeper)}
  IN  upTo
AuthorizeNode(d, id) == id \in AuthorizedUpTo(d)[Cardinality(Ids(d.dag))]

(* A stated predicate must be the content of the very fact it is bound to;  *)
(* every other claim keeps its fact and is judged by its content.           *)
AuthorizeClaim(d, c) ==
  LET node == NodeOf(d.dag, c.proposition) IN
  IF node.kind = "predicate"
  THEN \E r \in Lookup(Registry, d.bindings[c.claim]) :
         r.status = "curated" /\ r.triple = node.of
  ELSE AuthorizeNode(d, c.proposition)

AssertionFault(d) == \E c \in ProjectedClaims(d.tree) : ~ AuthorizeClaim(d, c)
-----------------------------------------------------------------------------
(* The draft is whatever a caller proposes.                                *)
ChainInit == draft \in Drafts /\ stage = "draft" /\ failure = "none"

Boundary(from, to, name, fault) ==
  /\ stage = from /\ failure = "none"
  /\ IF fault THEN failure' = name /\ UNCHANGED stage
     ELSE stage' = to /\ UNCHANGED failure
  /\ UNCHANGED draft

TryCandidate == Boundary("draft", "candidate", "structure", CandidateFault(draft))
TryAdmit == Boundary("candidate", "admitted", "admission", AdmissionFault(draft))
TryCertify == Boundary("admitted", "certified", "evidence", EvidenceFault(draft))
TryAuthorize == Boundary("certified", "authorized", "assertion", AssertionFault(draft))

ChainNext == TryCandidate \/ TryAdmit \/ TryCertify \/ TryAuthorize
ChainSpec == ChainInit /\ [][ChainNext]_chainVars
-----------------------------------------------------------------------------
(* What asserting a proposition commits the speaker to: its parts, theirs,  *)
(* and so on, the antecedent of a consequence left out.                     *)
AssertedKids(dag, id) ==
  LET node == NodeOf(dag, id)
  IN  IF node.kind = "consequence" THEN {node.kids[2]} ELSE ToSet(node.kids)
Asserted(dag, from) == Spread([id \in Ids(dag) |-> AssertedKids(dag, id)], from)

(* Derivable is not assertable: whatever an authorized plan commits the     *)
(* speaker to is, at every depth, a curated triple or the conclusion of a   *)
(* confirmed rule, no qualifier is slipped in, and the fact behind each     *)
(* claim is curated and, where it has a validity window, was asked about at *)
(* a date inside it.                                                        *)
OnlyCuratedIsAsserted ==
  stage = "authorized" =>
    /\ \A id \in Asserted(draft.dag, StatedPropositions(draft.tree)) :
         LET node == NodeOf(draft.dag, id) IN
         CASE node.kind = "predicate" ->
                \E r \in Registry.records : r.status = "curated" /\ r.triple = node.of
           [] node.kind = "qualification" -> node.of \in Qualifiers
           [] node.kind = "question" -> TRUE
           [] OTHER -> \E s \in draft.steps :
                         s.conclusion = id
                         /\ Confirms(s.rule, s.premises, id, draft.dag)
    /\ \A c \in ClaimIds(draft.tree) :
         \E r \in Registry.records :
           /\ r.id = draft.bindings[c] /\ r.status = "curated"
           /\ r.from # NoDate => draft.asOf >= r.from
           /\ r.to # NoDate => draft.asOf # NoDate /\ draft.asOf < r.to
=============================================================================
