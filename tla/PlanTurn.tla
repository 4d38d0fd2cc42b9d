------------------------------ MODULE PlanTurn ------------------------------
(***************************************************************************)
(* A turn with the V2 response plan: whether the turn is in the scope of   *)
(* the rollout, the attempt through its boundaries under one captured      *)
(* contract and budget, what the attempt may speak with, who renders, and  *)
(* what the guard does with it.                                            *)
(***************************************************************************)
EXTENDS PlanReplay

CONSTANTS
  Topics,       \* what the assets make of each topic, see Boundaries
  Allowlist,    \* the topics of the canary
  Limits        \* the budget: how many of each resource an attempt may use

(* The budget names five resources, and a realized surface is never empty. *)
TurnAssumption ==
  /\ DOMAIN Limits = {"propositions", "derivations", "occurrences", "clauses", "bytes"}
  /\ \A t \in DOMAIN Topics : Topics[t].nodes # None

VARIABLES at, request, plan, reply

turnVars == <<at, request, plan, reply>>

Requests ==
  {[topic |-> t, mode |-> m, authority |-> a, intent |-> i] :
     t \in DOMAIN Topics, m \in {"off", "shadow", "canary", "audited"},
     a \in {"disabled", "canary"}, i \in {"define", "other"}}
-----------------------------------------------------------------------------
InScope(mode, topic) ==
  CASE mode = "off" -> FALSE
    [] mode = "shadow" -> TRUE
    [] mode = "canary" -> topic \in Allowlist
    [] mode = "audited" -> Topics[topic].audited

Eligible(r) ==
  InScope(r.mode, r.topic) /\ (r.authority = "canary" => r.intent = "define")

(* The assets the executor compares with the contract it is given.          *)
Compared == {"packs", "policy", "budgets", "self_policy", "valency", "morphology", "depth"}
Drifted(contract) ==
  \E d \in Domains : \E p \in PartsOf[d] \cap Compared :
    contract.snaps[d].content[p] # assets[p]

Over(topic, resource) == Topics[topic].work[resource] > Limits[resource]

(* What stands between a topic and a surface, in order: the check, the      *)
(* strongest certificate held when it fails, and the failure.               *)
Boundaries(topic, contract) ==
  LET t == Topics[topic] IN
  << <<~ ContractHolds(contract) \/ Drifted(contract), "none", "startup">>,
     <<~ t.audited, "none", "not applicable">>,
     <<\E r \in {"propositions", "derivations", "occurrences"} : Over(topic, r),
       "candidate", "budget">>,
     <<~ t.admitted, "candidate", "admission">>,
     <<~ t.certified, "admitted", "evidence">>,
     <<~ t.asserted, "certified", "assertion">>,
     <<\E r \in {"propositions", "occurrences"} : Over(topic, r), "authorized", "budget">>,
     <<t.forms = "no frame", "authorized", "valency">>,
     <<Over(topic, "clauses"), "authorized", "budget">>,
     <<t.forms = "mismatch", "authorized", "realization">>,
     <<t.forms = "incomplete", "authorized", "incomplete form">>,
     <<Over(topic, "bytes"), "realizable", "budget">> >>

Rejected(boundary) ==
  [certificate |-> boundary[2], failure |-> boundary[3],
   witness |-> boundary[3] = "budget", surface |-> None]

RejectedKeepingSurface(topic, boundary) ==
  [certificate |-> boundary[2], failure |-> boundary[3], witness |-> boundary[3] = "budget",
   surface |-> IF boundary[2] = "realizable" THEN Topics[topic].nodes ELSE None]

Execute_KeepsSurface(topic, contract) ==
  LET all == Boundaries(topic, contract)
      failed == {i \in DOMAIN all : all[i][1]}
  IN  IF failed = {}
      THEN [certificate |-> "realizable", failure |-> "none", witness |-> FALSE,
            surface |-> Topics[topic].nodes]
      ELSE RejectedKeepingSurface(topic, all[CHOOSE i \in failed : \A j \in failed : i <= j])
Execute(topic, contract) ==
  LET all == Boundaries(topic, contract)
      failed == {i \in DOMAIN all : all[i][1]}
  IN  IF failed = {}
      THEN [certificate |-> "realizable", failure |-> "none", witness |-> FALSE,
            surface |-> Topics[topic].nodes]
      ELSE Rejected(all[CHOOSE i \in failed : \A j \in failed : i <= j])

FallbackAction(failure) ==
  CASE failure = "none" -> "v2 renderer"
    [] failure = "startup" -> "fail loud"
    [] failure = "incomplete form" -> "audited v1 renderer"
    [] OTHER -> "typed non declarative"

(* The surface of the audited registry stands in for forms that are missing, *)
(* and only for those.                                                       *)
AuthorityOutcome(topic, result) ==
  IF result.surface # None THEN [kind |-> "compositional", output |-> result.surface]
  ELSE IF FallbackAction(result.failure) = "audited v1 renderer"
       THEN [kind |-> "realization downgrade", output |-> Topics[topic].verbatim]
  ELSE [kind |-> "typed non declarative", output |-> None]

(* Scope, execution and authority each count one step down from what was    *)
(* asked for.                                                               *)
Downgrades(r, result, outcome) ==
  (IF r.mode # "off" /\ ~ Eligible(r) THEN 1 ELSE 0)
  + (IF Eligible(r) /\ result.failure # "none" THEN 1 ELSE 0)
  + (IF Eligible(r) /\ outcome.kind = "realization downgrade" THEN 1 ELSE 0)

NoPlan == [receipt |-> FALSE, failure |-> "none", certificate |-> "none",
           outcome |-> [kind |-> "not attempted", output |-> None],
           downgrades |-> 0, recorded |-> FALSE]

CanEmit(r, p) ==
  /\ p.receipt /\ r.authority = "canary" /\ r.topic \in Allowlist
  /\ p.outcome.kind \in {"compositional", "audited verbatim"}
-----------------------------------------------------------------------------
TurnInit == /\ ReplayInit /\ at = "idle" /\ request = None /\ plan = NoPlan
            /\ reply = None

(* Turning authority to the canary also sets the mode.                      *)
Receive(r) ==
  /\ at = "idle"
  /\ r.authority = "canary" => r.mode = "canary"
  /\ at' = "routed" /\ request' = r /\ plan' = NoPlan /\ reply' = None
  /\ record' = None /\ said' = None /\ audit' = None
  /\ UNCHANGED assets

(* The contract is captured from the assets in use; a record is kept of a   *)
(* realized attempt, unless the running binary cannot be read.              *)
RecordResponsePlan ==
  LET contract == Contract(assets)
      result == Execute(request.topic, contract)
      outcome == AuthorityOutcome(request.topic, result)
  IN
  /\ at = "routed" /\ at' = "planned"
  /\ \/ /\ ~ Eligible(request)
        /\ plan' = [NoPlan EXCEPT !.downgrades = Downgrades(request, NoPlan, NoPlan.outcome)]
        /\ UNCHANGED <<record, said>>
     \/ \E readable \in BOOLEAN :
          LET recorded == result.failure = "none" /\ readable IN
          /\ Eligible(request)
          /\ plan' = [receipt |-> TRUE, failure |-> result.failure,
                      certificate |-> result.certificate, outcome |-> outcome,
                      downgrades |-> Downgrades(request, result, outcome),
                      recorded |-> recorded]
          /\ IF recorded
             THEN /\ record' = TurnRecord(assets, request.topic, result.surface)
                  /\ said' = [clauses |-> result.surface, under |-> assets]
             ELSE UNCHANGED <<record, said>>
  /\ UNCHANGED <<request, reply, assets, audit>>

(* Without a receipt that can emit, the renderer asked for speaks.          *)
Render ==
  /\ at = "planned" /\ at' = "rendered"
  /\ reply' = IF CanEmit(request, plan)
              THEN [source |-> "v2", text |-> plan.outcome.output, class |-> "pending"]
              ELSE [source |-> "v1", text |-> None, class |-> "pending"]
  /\ UNCHANGED <<request, plan>> /\ UNCHANGED replayVars

GuardTurn(blocked) ==
  /\ at = "rendered" /\ at' = "idle"
  /\ reply' = [source |-> IF blocked THEN "guard" ELSE reply.source,
               text |-> IF blocked THEN None ELSE reply.text,
               class |-> IF request.authority # "canary" THEN "none"
                         ELSE IF ~ CanEmit(request, plan) THEN "denied before render"
                         ELSE IF blocked THEN "rendered, blocked" ELSE "emitted"]
  /\ UNCHANGED <<request, plan>> /\ UNCHANGED replayVars

TurnNext ==
  \/ \E r \in Requests : Receive(r)
  \/ RecordResponsePlan
  \/ Render
  \/ \E blocked \in BOOLEAN : GuardTurn(blocked)
  \/ at = "idle" /\ ReplayNext /\ UNCHANGED turnVars

TurnSpec == TurnInit /\ [][TurnNext]_<<turnVars, replayVars>>
-----------------------------------------------------------------------------
(* V2 speaks only where it may and only with a whole certificate: under the *)
(* canary authority, on an allowlisted topic, in a turn that asks for a     *)
(* definition, with every boundary and every budget passed, word for word   *)
(* the surface that was realized; and any turn that asked for V2 and does   *)
(* not hold such a surface counts a step down.                              *)
V2SpeaksCertified ==
  /\ reply # None /\ reply.source = "v2" =>
       /\ request.authority = "canary" /\ request.intent = "define"
       /\ request.topic \in Allowlist /\ Topics[request.topic].audited
       /\ plan.certificate = "realizable" /\ plan.failure = "none"
       /\ \A r \in DOMAIN Limits : ~ Over(request.topic, r)
       /\ reply.text = Topics[request.topic].nodes
  /\ (at \in {"planned", "rendered"} /\ request.mode # "off") =>
       (plan.downgrades = 0) = (plan.outcome.kind = "compositional")

(* The canary fails closed: a turn under its authority that V2 may not      *)
(* render is never given to a V1 renderer.                                  *)
CanaryFailsClosed ==
  request # None /\ request.authority = "canary" /\ reply # None => reply.source # "v1"
=============================================================================
