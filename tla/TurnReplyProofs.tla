-------------------------- MODULE TurnReplyProofs --------------------------
(***************************************************************************)
(* Proofs about a reply: PlanChain, which authorizes what a V2 plan says,  *)
(* for any proposals and facts; PlanSurface, which finds the words, for    *)
(* any bundle and frames; PlanTurn and PlanReplay, where a plan is spoken  *)
(* and the record of it verified later, for any topics, budget and         *)
(* allowlist; and TurnGuard, for any texts, heuristics and history limit.  *)
(***************************************************************************)
EXTENDS PlanChain, PlanTurn, TurnGuard, PlanSurface, FiniteSetTheorems,
        SequenceTheorems, WellFoundedInduction, TLAPS

(* A set of positions that is not empty has a first.                       *)
LEMMA FirstOfPositions ==
  ASSUME NEW S, S \subseteq Nat, S # {}
  PROVE  \E v \in S : \A w \in S : v <= w
<1>1. PICK v \in S : \A w \in S : <<w, v>> \notin OpToRel(<, Nat)
  BY NatLessThanWellFounded, WFMin, Zenon
<1>2. ASSUME NEW w \in S PROVE v <= w
  <2>1. <<w, v>> \notin {e \in Nat \X Nat : e[1] < e[2]}
    BY <1>1 DEF OpToRel
  <2>2. v \in Nat /\ w \in Nat
    OBVIOUS
  <2> QED BY <2>1, <2>2
<1> QED BY <1>2

(* FirstFault tells of a fault whenever a check fails.                     *)
LEMMA FirstFaultTells ==
  ASSUME NEW checks, DOMAIN checks \subseteq Nat,
         \A i \in DOMAIN checks : checks[i][1] => checks[i][2] # "ok",
         FirstFault(checks) = "ok"
  PROVE  \A i \in DOMAIN checks : ~ checks[i][1]
<1> DEFINE failed == {i \in DOMAIN checks : checks[i][1]}
           first == CHOOSE i \in failed : \A j \in failed : i <= j
<1>1. ASSUME failed # {} PROVE FALSE
  <2>1. \E i \in failed : \A j \in failed : i <= j
    BY <1>1, FirstOfPositions
  <2>2. first \in failed
    BY <2>1
  <2>3. FirstFault(checks) = checks[first][2]
    BY <1>1 DEF FirstFault
  <2> QED BY <2>2, <2>3
<1> QED BY <1>1

-----------------------------------------------------------------------------
(* What the executor gives: a surface exactly when every boundary and every *)
(* budget is passed, and it is the topic's.                                *)
LEMMA ExecuteGivesWholePlans ==
  ASSUME TurnAssumption, NEW topic \in DOMAIN Topics, NEW contract
  PROVE  LET result == Execute(topic, contract) IN
         \/ /\ result.failure = "none" /\ result.certificate = "realizable"
            /\ result.surface = Topics[topic].nodes /\ result.surface # None
            /\ Topics[topic].audited
            /\ \A r \in DOMAIN Limits : ~ Over(topic, r)
         \/ result.failure # "none" /\ result.surface = None
<1> DEFINE all == Boundaries(topic, contract)
           failed == {i \in DOMAIN all : all[i][1]}
           first == CHOOSE i \in failed : \A j \in failed : i <= j
<1>1. /\ DOMAIN all = 1 .. 12
      /\ \A i \in 1 .. 12 : all[i][3] # "none"
      /\ all[2][1] = ~ Topics[topic].audited
      /\ all[3][1] = \E r \in {"propositions", "derivations", "occurrences"} : Over(topic, r)
      /\ all[9][1] = Over(topic, "clauses")
      /\ all[12][1] = Over(topic, "bytes")
  BY DEF Boundaries
<1> HIDE DEF all
<1>2. CASE failed = {}
  <2>0. \A i \in 1 .. 12 : ~ all[i][1]
    BY <1>1, <1>2
  <2>1. /\ 2 \in 1 .. 12 /\ 3 \in 1 .. 12 /\ 9 \in 1 .. 12 /\ 12 \in 1 .. 12
    OBVIOUS
  <2>2. /\ Topics[topic].audited
        /\ ~ Over(topic, "propositions") /\ ~ Over(topic, "derivations")
        /\ ~ Over(topic, "occurrences") /\ ~ Over(topic, "clauses") /\ ~ Over(topic, "bytes")
    BY <1>1, <2>0, <2>1, Zenon
  <2>3. Execute(topic, contract)
          = [certificate |-> "realizable", failure |-> "none", witness |-> FALSE,
             surface |-> Topics[topic].nodes]
    BY <1>2 DEF Execute, all
  <2> QED BY <2>2, <2>3 DEF TurnAssumption
<1>3. CASE failed # {}
  <2>1. \E i \in failed : \A j \in failed : i <= j
    BY <1>1, <1>3, FirstOfPositions
  <2>2. first \in 1 .. 12
    BY <1>1, <2>1
  <2>3. Execute(topic, contract) = Rejected(all[first])
    BY <1>3 DEF Execute, all
  <2>4. Execute(topic, contract).failure = all[first][3]
        /\ Execute(topic, contract).surface = None
    BY <2>3 DEF Rejected
  <2> QED BY <1>1, <2>2, <2>4
<1> QED BY <1>2, <1>3

(* What a planned turn holds until it is answered: an attempt only in the   *)
(* scope that was asked for, a compositional outcome only with a whole      *)
(* certificate, and a step down counted exactly when there is none.         *)
PlanTells ==
  /\ request \in Requests /\ (request.authority = "canary" => request.mode = "canary")
  /\ plan.receipt => Eligible(request)
  /\ plan.outcome.kind # "audited verbatim"
  /\ plan.outcome.kind = "compositional" =>
       /\ plan.certificate = "realizable" /\ plan.failure = "none"
       /\ Topics[request.topic].audited
       /\ \A r \in DOMAIN Limits : ~ Over(request.topic, r)
       /\ plan.outcome.output = Topics[request.topic].nodes
  /\ request.mode # "off" => (plan.downgrades = 0 <=> plan.outcome.kind = "compositional")

Certified ==
  /\ request.authority = "canary" /\ request.intent = "define"
  /\ request.topic \in Allowlist /\ Topics[request.topic].audited
  /\ plan.certificate = "realizable" /\ plan.failure = "none"
  /\ \A r \in DOMAIN Limits : ~ Over(request.topic, r)
  /\ reply.text = Topics[request.topic].nodes

SpeechInv ==
  /\ at = "routed" => request \in Requests /\ (request.authority = "canary" => request.mode = "canary")
  /\ at \in {"routed", "planned"} => reply = None
  /\ at \in {"planned", "rendered"} => PlanTells
  /\ (reply # None \/ at = "rendered") /\ reply.source = "v2" => Certified

(* Planning a turn is the step that has to tell the truth about it.         *)
LEMMA PlanningTells ==
  ASSUME TurnAssumption, SpeechInv, RecordResponsePlan
  PROVE  PlanTells' /\ at = "routed" /\ at' = "planned" /\ UNCHANGED <<request, reply>>
<1>1. /\ at = "routed" /\ at' = "planned" /\ UNCHANGED <<request, reply>>
      /\ request \in Requests /\ (request.authority = "canary" => request.mode = "canary")
  BY DEF RecordResponsePlan, SpeechInv
<1>2. request.topic \in DOMAIN Topics
  BY <1>1 DEF Requests
<1> DEFINE result == Execute(request.topic, Contract(assets))
           outcome == AuthorityOutcome(request.topic, result)
<1>3. CASE ~ Eligible(request)
           /\ plan' = [NoPlan EXCEPT !.downgrades = Downgrades(request, NoPlan, NoPlan.outcome)]
  <2>0. plan'.downgrades = Downgrades(request, NoPlan, NoPlan.outcome)
    BY <1>3 DEF NoPlan
  <2>1. ~ plan'.receipt /\ plan'.outcome.kind = "not attempted"
    BY <1>3 DEF NoPlan
  <2>2. request.mode # "off" => plan'.downgrades = 1
    <3>1. /\ (IF Eligible(request) /\ NoPlan.failure # "none" THEN 1 ELSE 0) = 0
          /\ (IF Eligible(request) /\ NoPlan.outcome.kind = "realization downgrade" THEN 1 ELSE 0) = 0
      BY <1>3
    <3>2. request.mode # "off" => (IF request.mode # "off" /\ ~ Eligible(request) THEN 1 ELSE 0) = 1
      BY <1>3
    <3>3. request.mode # "off" => Downgrades(request, NoPlan, NoPlan.outcome) = 1 + 0 + 0
      BY <3>1, <3>2, Zenon DEF Downgrades
    <3>4. 1 + 0 + 0 = 1
      OBVIOUS
    <3> QED BY <2>0, <3>3, <3>4, Zenon
  <2>3. request.mode # "off" => plan'.downgrades # 0
    BY <2>2
  <2> QED BY <1>1, <2>1, <2>3 DEF PlanTells
<1>4. CASE /\ Eligible(request)
           /\ plan'.failure = result.failure /\ plan'.certificate = result.certificate
           /\ plan'.outcome = outcome /\ plan'.downgrades = Downgrades(request, result, outcome)
  <2>1. \/ /\ result.failure = "none" /\ result.certificate = "realizable"
           /\ result.surface = Topics[request.topic].nodes /\ result.surface # None
           /\ Topics[request.topic].audited
           /\ \A r \in DOMAIN Limits : ~ Over(request.topic, r)
        \/ result.failure # "none" /\ result.surface = None
    BY <1>2, ExecuteGivesWholePlans
  <2> HIDE DEF result
  <2>2. CASE result.surface # None
    <3>1. outcome = [kind |-> "compositional", output |-> result.surface]
      BY <2>2 DEF AuthorityOutcome
    <3>2. plan'.downgrades = 0
      BY <1>4, <2>1, <2>2, <3>1 DEF Downgrades
    <3> QED BY <1>1, <1>4, <2>1, <2>2, <3>1, <3>2 DEF PlanTells, Eligible, Over
  <2>3. CASE result.surface = None
    <3>1. outcome.kind \in {"realization downgrade", "typed non declarative"}
      BY <2>3 DEF AuthorityOutcome
    <3>2. plan'.downgrades # 0
      <4>1. (IF Eligible(request) /\ result.failure # "none" THEN 1 ELSE 0) = 1
        BY <1>4, <2>1, <2>3
      <4>2. /\ (IF request.mode # "off" /\ ~ Eligible(request) THEN 1 ELSE 0) \in {0, 1}
            /\ (IF Eligible(request) /\ outcome.kind = "realization downgrade" THEN 1 ELSE 0) \in {0, 1}
        OBVIOUS
      <4>3. \E a, b \in {0, 1} : Downgrades(request, result, outcome) = a + 1 + b
        BY <4>1, <4>2, Zenon DEF Downgrades
      <4> QED BY <1>4, <4>3
    <3> QED BY <1>1, <1>4, <3>1, <3>2 DEF PlanTells, Eligible
  <2> QED BY <2>2, <2>3
<1> QED BY <1>1, <1>3, <1>4 DEF RecordResponsePlan

LEMMA SpeechStep ==
  ASSUME TurnAssumption, SpeechInv, [TurnNext]_<<turnVars, replayVars>>
  PROVE  SpeechInv'
<1>1. ASSUME UNCHANGED turnVars PROVE SpeechInv'
  BY <1>1 DEF SpeechInv, turnVars, PlanTells, Certified, Eligible, InScope, Over
<1>2. ASSUME NEW r \in Requests, Receive(r) PROVE SpeechInv'
  BY <1>2 DEF Receive, SpeechInv
<1>3. CASE RecordResponsePlan
  BY <1>3, PlanningTells DEF SpeechInv
<1>4. CASE Render
  <2>1. /\ at = "planned" /\ at' = "rendered" /\ UNCHANGED <<request, plan>> /\ PlanTells
    BY <1>4 DEF Render, SpeechInv
  <2>2. PlanTells'
    BY <2>1 DEF PlanTells, Eligible, InScope, Over
  <2>3. CASE CanEmit(request, plan)
    <3>1. /\ reply' = [source |-> "v2", text |-> plan.outcome.output, class |-> "pending"]
          /\ plan.receipt /\ request.authority = "canary" /\ request.topic \in Allowlist
          /\ plan.outcome.kind = "compositional"
      BY <1>4, <2>1, <2>3 DEF Render, CanEmit, PlanTells
    <3>2. Certified'
      BY <2>1, <3>1 DEF Certified, PlanTells, Eligible, Over
    <3> QED BY <2>1, <2>2, <3>2 DEF SpeechInv
  <2>4. CASE ~ CanEmit(request, plan)
    BY <1>4, <2>1, <2>2, <2>4 DEF SpeechInv, Render
  <2> QED BY <2>3, <2>4
<1>5. ASSUME NEW blocked \in BOOLEAN, GuardTurn(blocked) PROVE SpeechInv'
  <2>1. at = "rendered" /\ at' = "idle" /\ UNCHANGED <<request, plan>>
    BY <1>5 DEF GuardTurn
  <2>2. CASE blocked
    BY <1>5, <2>1, <2>2 DEF GuardTurn, SpeechInv
  <2>3. CASE ~ blocked
    <3>1. reply'.source = reply.source /\ reply'.text = reply.text
      BY <1>5, <2>3 DEF GuardTurn
    <3> QED BY <2>1, <3>1 DEF SpeechInv, Certified, Over
  <2> QED BY <2>2, <2>3
<1> QED BY <1>1, <1>2, <1>3, <1>4, <1>5 DEF TurnNext, turnVars

(* V2 speaks only where it may and only with a whole certificate, and every *)
(* turn that asked for V2 and has none counts a step down.                  *)
THEOREM V2SpeechIsCertified ==
  ASSUME TurnAssumption
  PROVE  TurnSpec => []V2SpeaksCertified
<1>1. TurnInit => SpeechInv
  BY DEF TurnInit, SpeechInv
<1>2. SpeechInv => V2SpeaksCertified
  BY DEF SpeechInv, V2SpeaksCertified, Certified, PlanTells
<1> QED BY <1>1, <1>2, SpeechStep, PTL DEF TurnSpec

-----------------------------------------------------------------------------
(* A verification that finds no fault has found the record whole, at the    *)
(* authority level the authority the verifier has, and at the reproduction  *)
(* level everything and the words.                                          *)
LEMMA VerifyVouches ==
  ASSUME NEW r, NEW level \in {"integrity", "authority", "reproduction"},
         NEW contract, NEW binary,
         Verify(r, level, contract, binary).verdict = "ok"
  PROVE  /\ RecordFault(r) = "ok"
         /\ level # "integrity" =>
              contract # None /\ contract.snaps["authority"] = r.contract.snaps["authority"]
         /\ level = "reproduction" =>
              /\ contract.snaps["planning"] = r.contract.snaps["planning"]
              /\ contract.snaps["realization"] = r.contract.snaps["realization"]
              /\ contract.snaps["selection"] = r.contract.snaps["selection"]
              /\ binary # None /\ binary = r.binary
              /\ Reproduce(r.replay) # None
<1>0. \A b, n : <<b, n>>[1] = b /\ <<b, n>>[2] = n
  OBVIOUS
<1> DEFINE bad == RecordFault(r) # "ok"
           missing == contract = None \/ (level = "reproduction" /\ binary = None)
           Differs(d) == contract # None /\ contract.snaps[d] # r.contract.snaps[d]
           otherDigest == contract # None /\ contract.digest # r.contract.digest
           otherBinary == binary # r.binary
           untold == Reproduce(r.replay) = None
           p1 == <<bad, RecordFault(r)>>
           p2 == <<missing, "unavailable">>
           p3 == <<Differs("authority"), "authority">>
           p4 == <<Differs("planning"), "planning">>
           p5 == <<Differs("realization"), "realization">>
           p6 == <<Differs("selection"), "selection">>
           p7 == <<otherDigest, "contract">>
           p8 == <<otherBinary, "binary">>
           p9 == <<untold, "surface">>
           held == IF level = "integrity" THEN << >> ELSE <<p2, p3>>
           again == IF level # "reproduction" THEN << >> ELSE <<p4, p5, p6, p7, p8, p9>>
           checks == <<p1>> \o held \o again
<1>1. FirstFault(checks) = "ok"
  BY DEF Verify
<1>2. /\ p1[1] = bad /\ p1[2] = RecordFault(r)
      /\ p2[1] = missing /\ p3[1] = Differs("authority") /\ p4[1] = Differs("planning")
      /\ p5[1] = Differs("realization") /\ p6[1] = Differs("selection")
      /\ p8[1] = otherBinary /\ p9[1] = untold
  BY <1>0, Zenon
<1>3. /\ p2[2] # "ok" /\ p3[2] # "ok" /\ p4[2] # "ok" /\ p5[2] # "ok" /\ p6[2] # "ok"
      /\ p7[2] # "ok" /\ p8[2] # "ok" /\ p9[2] # "ok"
  OBVIOUS
<1> HIDE DEF p1, p2, p3, p4, p5, p6, p7, p8, p9
<1>4. p1[1] => p1[2] # "ok"
  BY <1>2, Zenon DEF bad
<1>5. CASE level = "integrity"
  <2>1. DOMAIN checks = 1 .. 1 /\ checks[1] = p1
    BY <1>5
  <2> HIDE DEF checks
  <2>2. \A i \in DOMAIN checks : ~ checks[i][1]
    BY <1>1, <1>4, <2>1, FirstFaultTells
  <2>3. ~ p1[1]
    BY <2>1, <2>2
  <2>4. ~ bad
    BY <1>2, <2>3, Zenon
  <2> QED BY <1>5, <2>4
<1>6. CASE level = "authority"
  <2>1. /\ DOMAIN checks = 1 .. 3
        /\ checks[1] = p1 /\ checks[2] = p2 /\ checks[3] = p3
    BY <1>6
  <2> HIDE DEF checks
  <2>2. \A i \in DOMAIN checks : checks[i][1] => checks[i][2] # "ok"
    BY <1>3, <1>4, <2>1
  <2>3. \A i \in DOMAIN checks : ~ checks[i][1]
    BY <1>1, <2>1, <2>2, FirstFaultTells
  <2>4. ~ p1[1] /\ ~ p2[1] /\ ~ p3[1]
    BY <2>1, <2>3
  <2>5. ~ bad /\ ~ missing /\ ~ Differs("authority")
    BY <1>2, <2>4, Zenon
  <2> QED BY <1>6, <2>5
<1>7. CASE level = "reproduction"
  <2>1. /\ DOMAIN checks = 1 .. 9
        /\ checks[1] = p1 /\ checks[2] = p2 /\ checks[3] = p3 /\ checks[4] = p4
        /\ checks[5] = p5 /\ checks[6] = p6 /\ checks[7] = p7 /\ checks[8] = p8
        /\ checks[9] = p9
    BY <1>7
  <2> HIDE DEF checks
  <2>2. \A i \in DOMAIN checks : checks[i][1] => checks[i][2] # "ok"
    BY <1>3, <1>4, <2>1
  <2>3. \A i \in DOMAIN checks : ~ checks[i][1]
    BY <1>1, <2>1, <2>2, FirstFaultTells
  <2>4. ~ p1[1] /\ ~ p2[1] /\ ~ p3[1] /\ ~ p4[1] /\ ~ p5[1] /\ ~ p6[1] /\ ~ p8[1] /\ ~ p9[1]
    BY <2>1, <2>3
  <2>5. /\ ~ bad /\ ~ missing /\ ~ Differs("authority") /\ ~ Differs("planning")
        /\ ~ Differs("realization") /\ ~ Differs("selection") /\ ~ otherBinary /\ ~ untold
    BY <1>2, <2>4, Zenon
  <2> QED BY <1>7, <2>5
<1> QED BY <1>5, <1>6, <1>7

(* A record without a fault carries the digest of its own fields.           *)
LEMMA WholeRecordsDigest ==
  ASSUME NEW r, RecordFault(r) = "ok"
  PROVE  r.digest = StageDigest(r)
<1>0. \A b, n : <<b, n>>[1] = b /\ <<b, n>>[2] = n
  OBVIOUS
<1> DEFINE b1 == ~ ContractHolds(r.contract) \/ ~ BundleHolds(r.replay)
           b2 == \/ r.schema # 2 \/ r.replay.body.contract # r.contract.digest
                 \/ r.replay.body.root # r.selection.root
           b3 == r.selection.policy # r.contract.snaps["selection"].content["self_policy"]
           b4 == r.digest # StageDigest(r)
           p4 == <<b4, "integrity">>
           checks == << <<b1, "integrity">>, <<b2, "bundle">>, <<b3, "selection">>, p4 >>
<1>1. FirstFault(checks) = "ok"
  BY DEF RecordFault
<1>2. p4[1] = b4
  BY <1>0, Zenon
<1>3. /\ DOMAIN checks = 1 .. 4 /\ checks[4] = p4
      /\ \A i \in DOMAIN checks : checks[i][2] # "ok"
  OBVIOUS
<1> HIDE DEF p4, checks
<1>4. \A i \in DOMAIN checks : ~ checks[i][1]
  BY <1>1, <1>3, FirstFaultTells
<1>5. ~ p4[1]
  BY <1>3, <1>4
<1>6. ~ b4
  BY <1>2, <1>5, Zenon
<1> QED BY <1>6

(* The record of the last turn as it was written.                           *)
Written(t) == TurnRecord(said.under, t, said.clauses)

(* A record is the one written but for one misread field: its digest is the *)
(* written one, or its fields are.                                         *)
RecordInv ==
  /\ assets = [a \in Assets |-> assets[a]]
  /\ record # None =>
       /\ said.under = [a \in Assets |-> said.under[a]]
       /\ record = [schema |-> record.schema, contract |-> record.contract,
                    selection |-> record.selection, binary |-> record.binary,
                    replay |-> record.replay, digest |-> record.digest]
       /\ \E t \in DOMAIN Topics :
            \/ record.digest = StageDigest(Written(t))
            \/ StageDigest(record) = StageDigest(Written(t))

LEMMA WrittenDigest ==
  ASSUME NEW versions, NEW topic, NEW nodes
  PROVE  LET r == TurnRecord(versions, topic, nodes) IN
         /\ r.digest = StageDigest(r)
         /\ r = [schema |-> r.schema, contract |-> r.contract, selection |-> r.selection,
                 binary |-> r.binary, replay |-> r.replay, digest |-> r.digest]
         /\ r.binary = versions["binary"] /\ r.contract = Contract(versions)
         /\ \E root : r.replay = Bundle(topic, Contract(versions), root, nodes)
  BY DEF TurnRecord, StageDigest

LEMMA MisreadKeepsRecord ==
  ASSUME RecordInv, Misread
  PROVE  RecordInv'
<1>1. /\ record # None /\ record.digest = StageDigest(record) /\ UNCHANGED <<assets, said>>
      /\ record = [schema |-> record.schema, contract |-> record.contract,
                   selection |-> record.selection, binary |-> record.binary,
                   replay |-> record.replay, digest |-> record.digest]
  BY DEF Misread, RecordInv
<1>2. PICK t \in DOMAIN Topics : record.digest = StageDigest(Written(t))
  BY <1>1 DEF RecordInv
<1>3. \/ /\ record'.digest = record.digest
         /\ record' = [schema |-> record'.schema, contract |-> record'.contract,
                       selection |-> record'.selection, binary |-> record'.binary,
                       replay |-> record'.replay, digest |-> record'.digest]
      \/ record' = [record EXCEPT !.digest = None]
  <2>1. ASSUME NEW d, record' = [record EXCEPT !.contract.snaps[d].content = [p \in DOMAIN @ |-> 0]]
        PROVE  <1>3!1
    BY <1>1, <2>1
  <2> QED
    BY <1>1, <2>1 DEF Misread
<1> QED BY <1>1, <1>2, <1>3 DEF RecordInv, Written, StageDigest

LEMMA RecordStep ==
  ASSUME SpeechInv, RecordInv, [TurnNext]_<<turnVars, replayVars>>
  PROVE  RecordInv'
<1>1. ASSUME UNCHANGED <<assets, record, said>> PROVE RecordInv'
  BY <1>1 DEF RecordInv, Written
<1>2. ASSUME NEW r \in Requests, Receive(r) PROVE RecordInv'
  BY <1>2 DEF Receive, RecordInv
<1>3. CASE RecordResponsePlan
  <2> DEFINE result == Execute(request.topic, Contract(assets))
  <2>1. assets' = assets /\ assets = [a \in Assets |-> assets[a]]
    BY <1>3 DEF RecordResponsePlan, RecordInv
  <2>2. request.topic \in DOMAIN Topics
    BY <1>3 DEF RecordResponsePlan, SpeechInv, Requests
  <2>3. CASE UNCHANGED <<record, said>>
    BY <1>1, <2>1, <2>3
  <2>4. CASE /\ record' = TurnRecord(assets, request.topic, result.surface)
             /\ said' = [clauses |-> result.surface, under |-> assets]
    <3> DEFINE w == TurnRecord(assets, request.topic, result.surface)
    <3>1. /\ w.digest = StageDigest(w)
          /\ w = [schema |-> w.schema, contract |-> w.contract, selection |-> w.selection,
                  binary |-> w.binary, replay |-> w.replay, digest |-> w.digest]
      BY WrittenDigest
    <3> HIDE DEF w, result
    <3>2. PICK topic \in DOMAIN Topics : topic = request.topic
      BY <2>2
    <3>3. record' = w /\ w = Written(topic)' /\ said'.under = assets
      BY <2>4, <3>2 DEF Written, w
    <3>4. record'.digest = StageDigest(Written(topic)')
      BY <3>1, <3>3
    <3> QED BY <2>1, <3>1, <3>3, <3>4 DEF RecordInv, StageDigest
  <2> QED BY <1>3, <2>3, <2>4 DEF RecordResponsePlan
<1>4. CASE Render
  BY <1>1, <1>4 DEF Render, replayVars
<1>5. ASSUME NEW blocked \in BOOLEAN, GuardTurn(blocked) PROVE RecordInv'
  BY <1>1, <1>5 DEF GuardTurn, replayVars
<1>6. ASSUME NEW a \in Assets, Replace(a) PROVE RecordInv'
  BY <1>6 DEF Replace, RecordInv, Written
<1>7. CASE Misread
  BY <1>7, MisreadKeepsRecord
<1>8. ASSUME NEW l \in {"integrity", "authority", "reproduction"}, Replay(l) PROVE RecordInv'
  BY <1>1, <1>8 DEF Replay
<1> QED
  BY <1>1, <1>2, <1>3, <1>4, <1>5, <1>6, <1>7, <1>8 DEF TurnNext, ReplayNext, replayVars

(* What a record without a fault tells of the turn it was written in.       *)
LEMMA WholeRecordsTell ==
  ASSUME RecordInv, record # None, RecordFault(record) = "ok"
  PROVE  /\ record.binary = said.under["binary"] /\ record.contract = Contract(said.under)
         /\ \E t \in DOMAIN Topics : \E root :
              record.replay = Bundle(t, Contract(said.under), root, said.clauses)
<1>1. PICK t \in DOMAIN Topics : StageDigest(record) = StageDigest(Written(t))
  BY WholeRecordsDigest DEF RecordInv
<1>2. /\ Written(t).binary = said.under["binary"] /\ Written(t).contract = Contract(said.under)
      /\ \E root : Written(t).replay = Bundle(t, Contract(said.under), root, said.clauses)
  BY WrittenDigest DEF Written
<1>3. /\ record.binary = Written(t).binary /\ record.contract = Written(t).contract
      /\ record.replay = Written(t).replay
  BY <1>1 DEF StageDigest
<1> QED BY <1>2, <1>3

(* Two contracts that agree on a domain were captured from the same parts.  *)
LEMMA SameSnapshot ==
  ASSUME NEW v, NEW w, NEW d \in Domains, Contract(v).snaps[d] = Contract(w).snaps[d]
  PROVE  \A p \in PartsOf[d] : v[p] = w[p]
<1>1. /\ Contract(v).snaps[d] = Snapshot(d, v) /\ Contract(w).snaps[d] = Snapshot(d, w)
  BY DEF Contract
<1>2. Snapshot(d, v).content = Snapshot(d, w).content
  BY <1>1
<1>3. [p \in PartsOf[d] |-> v[p]] = [p \in PartsOf[d] |-> w[p]]
  BY <1>2 DEF Snapshot
<1> QED BY <1>3

LEMMA ReproducesTheWords ==
  ASSUME NEW input, NEW contract, NEW root, NEW nodes,
         Reproduce(Bundle(input, contract, root, nodes)) # None
  PROVE  Reproduce(Bundle(input, contract, root, nodes)) = nodes
  BY DEF Reproduce, Bundle, SurfaceOf

LEMMA ReplayVouches ==
  ASSUME RecordInv, NEW level \in {"integrity", "authority", "reproduction"}, Replay(level),
         audit'.verdict = "ok"
  PROVE  /\ record.binary = said.under["binary"]
         /\ record.contract = Contract(said.under)
         /\ record.replay.body.nodes = said.clauses
         /\ audit'.level \in {"authority", "reproduction"} =>
              \A p \in PartsOf["authority"] : assets[p] = said.under[p]
         /\ audit'.level = "reproduction" =>
              audit'.surface = said.clauses /\ assets = said.under
<1>1. PICK withContract \in BOOLEAN, withBinary \in BOOLEAN :
        audit' = Verify(record, level, IF withContract THEN Contract(assets) ELSE None,
                                       IF withBinary THEN assets["binary"] ELSE None)
  BY DEF Replay
<1> DEFINE contract == IF withContract THEN Contract(assets) ELSE None
           binary == IF withBinary THEN assets["binary"] ELSE None
<1>2. audit' = Verify(record, level, contract, binary)
  BY <1>1
<1>3. /\ (contract = None \/ contract = Contract(assets))
      /\ (binary = None \/ binary = assets["binary"])
  OBVIOUS
<1> HIDE DEF contract, binary
<1>4. /\ RecordFault(record) = "ok"
      /\ level # "integrity" =>
           contract # None /\ contract.snaps["authority"] = record.contract.snaps["authority"]
      /\ level = "reproduction" =>
           /\ contract.snaps["planning"] = record.contract.snaps["planning"]
           /\ contract.snaps["realization"] = record.contract.snaps["realization"]
           /\ contract.snaps["selection"] = record.contract.snaps["selection"]
           /\ binary # None /\ binary = record.binary
           /\ Reproduce(record.replay) # None
  BY <1>2, VerifyVouches
<1>5. record # None
  BY DEF Replay
<1>6. /\ record.binary = said.under["binary"] /\ record.contract = Contract(said.under)
      /\ \E t \in DOMAIN Topics : \E root :
           record.replay = Bundle(t, Contract(said.under), root, said.clauses)
  BY <1>4, <1>5, WholeRecordsTell
<1>7. PICK t, root : record.replay = Bundle(t, Contract(said.under), root, said.clauses)
  BY <1>6
<1>8. record.replay.body.nodes = said.clauses
  BY <1>7 DEF Bundle
<1>9. audit'.level = level
      /\ (level = "reproduction" => audit'.surface = Reproduce(record.replay))
  BY <1>2 DEF Verify
<1>10. Domains = {"authority", "planning", "realization", "selection"}
  BY DEF Domains, PartsOf
<1>11. ASSUME level # "integrity"
       PROVE  \A p \in PartsOf["authority"] : assets[p] = said.under[p]
  <2>1. contract = Contract(assets)
    BY <1>3, <1>4, <1>11
  <2>2. Contract(assets).snaps["authority"] = Contract(said.under).snaps["authority"]
    BY <1>4, <1>6, <1>11, <2>1
  <2> QED BY <1>10, <2>2, SameSnapshot
<1>12. ASSUME level = "reproduction"
       PROVE  audit'.surface = said.clauses /\ assets = said.under
  <2>1. contract = Contract(assets)
    BY <1>3, <1>4, <1>12
  <2>2. \A d \in Domains : Contract(assets).snaps[d] = Contract(said.under).snaps[d]
    BY <1>4, <1>6, <1>10, <1>12, <2>1
  <2>3. \A d \in Domains : \A p \in PartsOf[d] : assets[p] = said.under[p]
    BY <2>2, SameSnapshot
  <2>4. assets["binary"] = said.under["binary"]
    BY <1>3, <1>4, <1>6, <1>12
  <2>5. \A p \in Assets : assets[p] = said.under[p]
    <3>1. \A p \in Assets : p = "binary" \/ \E d \in Domains : p \in PartsOf[d]
      BY DEF Assets
    <3> QED BY <2>3, <2>4, <3>1
  <2>6. /\ assets = [a \in Assets |-> assets[a]]
        /\ said.under = [a \in Assets |-> said.under[a]]
    BY <1>5 DEF RecordInv
  <2>7. assets = said.under
    BY <2>5, <2>6
  <2>8. Reproduce(record.replay) = said.clauses
    BY <1>4, <1>7, <1>12, ReproducesTheWords
  <2> QED BY <1>9, <1>12, <2>7, <2>8
<1> QED BY <1>6, <1>8, <1>9, <1>11, <1>12

(* A verification without a fault vouches for the turn that was.            *)
THEOREM ReplaysTellTheTurn ==
  ASSUME TurnAssumption
  PROVE  TurnSpec => ReplayTellsTheTurn
<1>1. TurnInit => SpeechInv /\ RecordInv
  BY DEF TurnInit, ReplayInit, SpeechInv, RecordInv
<1>2. SpeechInv /\ RecordInv /\ [TurnNext]_<<turnVars, replayVars>> => (SpeechInv /\ RecordInv)'
  BY SpeechStep, RecordStep
<1>3. SpeechInv /\ RecordInv /\ [TurnNext]_<<turnVars, replayVars>>
        => [audit = None /\ audit' # None /\ audit'.verdict = "ok" =>
              /\ record.binary = said.under["binary"]
              /\ record.contract = Contract(said.under)
              /\ record.replay.body.nodes = said.clauses
              /\ audit'.level \in {"authority", "reproduction"} =>
                   \A p \in PartsOf["authority"] : assets[p] = said.under[p]
              /\ audit'.level = "reproduction" =>
                   audit'.surface = said.clauses /\ assets = said.under]_replayVars
  <2> SUFFICES ASSUME RecordInv, [TurnNext]_<<turnVars, replayVars>>,
                      audit = None, audit' # None, audit'.verdict = "ok"
               PROVE  /\ record.binary = said.under["binary"]
                      /\ record.contract = Contract(said.under)
                      /\ record.replay.body.nodes = said.clauses
                      /\ audit'.level \in {"authority", "reproduction"} =>
                           \A p \in PartsOf["authority"] : assets[p] = said.under[p]
                      /\ audit'.level = "reproduction" =>
                           audit'.surface = said.clauses /\ assets = said.under
    OBVIOUS
  <2>1. \E level \in {"integrity", "authority", "reproduction"} : Replay(level)
    BY DEF TurnNext, ReplayNext, Receive, RecordResponsePlan, Render, GuardTurn, Replace, Misread,
           replayVars
  <2> QED BY <2>1, ReplayVouches
<1> QED BY <1>1, <1>2, <1>3, PTL DEF TurnSpec, ReplayTellsTheTurn

-----------------------------------------------------------------------------
(* The texts of the guard: those rendered and the one shown in their place. *)
Texts == {r.text : r \in Renderings} \cup {RefusalText}

(* What the latest entries of a sequence are.                               *)
LEMMA LatestEntries ==
  ASSUME NEW T, NEW s \in Seq(T), NEW n \in Nat
  PROVE  LET l == Latest(s, n) IN
         /\ l \in Seq(T)
         /\ Len(l) = IF Len(s) > n THEN n ELSE Len(s)
         /\ \A i \in 1 .. Len(l) : l[i] = s[Len(s) - Len(l) + i]
<1>1. CASE Len(s) > n
  <2>1. Latest(s, n) = SubSeq(s, Len(s) - n + 1, Len(s))
    BY <1>1 DEF Latest
  <2>2. Len(s) \in Nat /\ Len(s) - n + 1 \in 1 .. Len(s) + 1
    BY <1>1
  <2> QED BY <1>1, <2>1, <2>2
<1>2. CASE Len(s) <= n
  <2>2. Len(s) \in Nat /\ ~ (Len(s) > n)
    BY <1>2
  <2>1. Latest(s, n) = SubSeq(s, 1, Len(s))
    BY <2>2 DEF Latest
  <2>3. SubSeq(s, 1, Len(s)) = s
    OBVIOUS
  <2>4. \A i \in 1 .. Len(s) : Len(s) - Len(s) + i = i
    BY <2>2
  <2> QED BY <2>1, <2>2, <2>3, <2>4
<1> QED BY <1>1, <1>2

LEMMA PlacesBefore ==
  ASSUME NEW kept \in Nat, NEW size \in Nat, NEW n \in Nat, n >= 1,
         kept = IF size >= n THEN n ELSE size + 1, NEW k \in 1 .. kept - 1
  PROVE  /\ kept - k \in 1 .. kept /\ (size + 1) - kept + (kept - k) = size + 1 - k
         /\ size + 1 - k \in 1 .. size
  OBVIOUS

(* l keeps the n latest of s followed by x: every entry is one place further *)
(* in the past.                                                             *)
KeptOneMore(l, s, x, n) ==
  /\ Len(l) = IF Len(s) >= n THEN n ELSE Len(s) + 1
  /\ l[Len(l)] = x
  /\ \A k \in 1 .. Len(l) - 1 : l[Len(l) - k] = s[Len(s) + 1 - k]

LEMMA KeepingOneMore ==
  ASSUME NEW T, NEW s \in Seq(T), NEW x \in T, NEW n \in Nat, n >= 1,
         NEW a, a = Append(s, x), NEW l, l = Latest(a, n)
  PROVE  l \in Seq(T) /\ KeptOneMore(l, s, x, n)
<1>1. /\ a \in Seq(T) /\ Len(s) \in Nat /\ Len(a) = Len(s) + 1 /\ a[Len(s) + 1] = x
      /\ \A i \in 1 .. Len(s) : a[i] = s[i]
  OBVIOUS
<1>2. /\ l \in Seq(T) /\ Len(l) = IF Len(a) > n THEN n ELSE Len(a)
      /\ \A i \in 1 .. Len(l) : l[i] = a[Len(a) - Len(l) + i]
  BY <1>1, LatestEntries
<1>3. Len(l) \in 1 .. Len(a) /\ Len(l) = IF Len(s) >= n THEN n ELSE Len(s) + 1
  BY <1>1, <1>2
<1>4. l[Len(l)] = x
  <2>1. PICK e \in 1 .. Len(l) : e = Len(l) /\ Len(a) - e + e = Len(s) + 1
    BY <1>1, <1>3
  <2>2. l[e] = a[Len(a) - e + e]
    BY <1>2, <2>1
  <2> QED BY <1>1, <2>1, <2>2
<1>5. ASSUME NEW k \in 1 .. Len(l) - 1 PROVE l[Len(l) - k] = s[Len(s) + 1 - k]
  <2>0. /\ Len(l) - k \in 1 .. Len(l) /\ Len(a) - Len(l) + (Len(l) - k) = Len(s) + 1 - k
        /\ Len(s) + 1 - k \in 1 .. Len(s)
    BY <1>1, <1>3, PlacesBefore
  <2>1. PICK e \in 1 .. Len(l) : e = Len(l) - k /\ Len(a) - Len(l) + e = Len(s) + 1 - k
    BY <2>0
  <2>2. l[e] = a[Len(a) - Len(l) + e]
    BY <1>2
  <2> QED BY <1>1, <2>0, <2>1, <2>2
<1> QED BY <1>2, <1>3, <1>4, <1>5 DEF KeptOneMore

(* Two sequences end alike, as far back as n.                               *)
EndAlike(h, s, n) ==
  /\ Len(h) = Len(s) \/ (Len(h) >= n /\ Len(s) >= n)
  /\ \A k \in Nat : k < n /\ k < Len(h) => h[Len(h) - k] = s[Len(s) - k]

LEMMA SameEnds ==
  ASSUME NEW T, NEW h \in Seq(T), NEW s \in Seq(T), NEW n \in Nat, EndAlike(h, s, n)
  PROVE  Latest(h, n) = Latest(s, n)
<1> DEFINE lh == Latest(h, n)
           ls == Latest(s, n)
<1>1. /\ lh \in Seq(T) /\ Len(lh) = (IF Len(h) > n THEN n ELSE Len(h))
      /\ \A i \in 1 .. Len(lh) : lh[i] = h[Len(h) - Len(lh) + i]
  BY LatestEntries
<1>2. /\ ls \in Seq(T) /\ Len(ls) = (IF Len(s) > n THEN n ELSE Len(s))
      /\ \A i \in 1 .. Len(ls) : ls[i] = s[Len(s) - Len(ls) + i]
  BY LatestEntries
<1> HIDE DEF lh, ls
<1>3. PICK a \in Nat, b \in Nat, m \in Nat : a = Len(h) /\ b = Len(s) /\ m = Len(lh)
  BY <1>1
<1>4. m = Len(ls) /\ m <= a /\ m <= b /\ m <= n
  BY <1>1, <1>2, <1>3 DEF EndAlike
<1>5. ASSUME NEW i \in 1 .. m PROVE lh[i] = ls[i]
  <2>1. /\ m - i \in Nat /\ m - i < n /\ m - i < a
        /\ a - (m - i) = a - m + i /\ b - (m - i) = b - m + i
    BY <1>4
  <2>2. h[a - (m - i)] = s[b - (m - i)]
    BY <1>3, <2>1 DEF EndAlike
  <2>3. lh[i] = h[a - m + i] /\ ls[i] = s[b - m + i]
    BY <1>1, <1>2, <1>3, <1>4
  <2> QED BY <2>1, <2>2, <2>3
<1>6. lh = ls
  BY <1>1, <1>2, <1>3, <1>4, <1>5
<1> QED BY <1>6 DEF lh, ls

(* Both keep x, end alike, and before x the second keeps the n in last.      *)
KeptAlike(kept, seen, x, last, n, T) ==
  /\ kept \in Seq(T) /\ seen \in Seq(T) /\ Len(seen) <= n + 1
  /\ EndAlike(kept, seen, n)
  /\ seen # << >> /\ seen[Len(seen)] = x
  /\ SubSeq(seen, 1, Len(seen) - 1) = last

LEMMA KeptTogether ==
  ASSUME NEW T, NEW h \in Seq(T), NEW s \in Seq(T), NEW x \in T,
         NEW n \in Nat, n >= 1, NEW more \in Nat, more = n + 1,
         NEW limit \in Nat, limit >= n, Len(s) <= more,
         NEW kept, kept = Latest(Append(h, x), limit),
         NEW seen, seen = Latest(Append(s, x), more),
         NEW last, last = Latest(s, n), EndAlike(h, s, n)
  PROVE  KeptAlike(kept, seen, x, last, n, T)
<1>1. limit >= 1 /\ more >= 1
  OBVIOUS
<1>2. kept \in Seq(T) /\ KeptOneMore(kept, h, x, limit)
  BY <1>1, KeepingOneMore, Zenon
<1>3. seen \in Seq(T) /\ KeptOneMore(seen, s, x, more)
  BY <1>1, KeepingOneMore, Zenon
<1>4. /\ last \in Seq(T) /\ Len(last) = (IF Len(s) > n THEN n ELSE Len(s))
      /\ \A i \in 1 .. Len(last) : last[i] = s[Len(s) - Len(last) + i]
  BY LatestEntries
<1>5. PICK a \in Nat, b \in Nat, c \in Nat, d \in Nat :
        a = Len(h) /\ b = Len(s) /\ c = Len(kept) /\ d = Len(seen)
  BY <1>2, <1>3
<1>6. /\ c = (IF a >= limit THEN limit ELSE a + 1) /\ d = (IF b >= n + 1 THEN n + 1 ELSE b + 1)
      /\ (a = b \/ (a >= n /\ b >= n)) /\ b <= n + 1
  BY <1>2, <1>3, <1>5 DEF KeptOneMore, EndAlike
<1>7. d <= n + 1 /\ d >= 1 /\ c >= 1 /\ (c = d \/ (c >= n /\ d >= n))
  BY <1>6
<1>8. ASSUME NEW k \in Nat, k < n, k < c PROVE kept[c - k] = seen[d - k]
  <2>1. CASE k = 0
    <3>1. c - k = c /\ d - k = d
      BY <2>1
    <3> QED BY <1>2, <1>3, <1>5, <3>1 DEF KeptOneMore
  <2>2. CASE k # 0
    <3>1. k \in 1 .. c - 1 /\ k \in 1 .. d - 1
      BY <1>7, <1>8, <2>2
    <3>2. PICK j \in Nat : j = k - 1
      BY <2>2
    <3>3. j < n /\ j < a /\ a - j = a + 1 - k /\ b - j = b + 1 - k
      BY <1>6, <1>8, <2>2, <3>2
    <3>4. h[a - j] = s[b - j]
      BY <1>5, <3>3 DEF EndAlike
    <3>5. kept[c - k] = h[a + 1 - k] /\ seen[d - k] = s[b + 1 - k]
      BY <1>2, <1>3, <1>5, <3>1 DEF KeptOneMore
    <3> QED BY <3>3, <3>4, <3>5
  <2> QED BY <2>1, <2>2
<1>9. SubSeq(seen, 1, d - 1) = last
  <2>1. d - 1 \in Nat /\ d - 1 <= d
    BY <1>7
  <2>2. /\ SubSeq(seen, 1, d - 1) \in Seq(T) /\ Len(SubSeq(seen, 1, d - 1)) = d - 1
        /\ \A i \in 1 .. d - 1 : SubSeq(seen, 1, d - 1)[i] = seen[i]
    BY <1>3, <1>5, <2>1
  <2>3. Len(last) = d - 1
    BY <1>4, <1>5, <1>6
  <2>4. ASSUME NEW i \in 1 .. d - 1 PROVE seen[i] = last[i]
    <3>1. PICK k \in Nat : k = d - i
      BY <1>7
    <3>2. k \in 1 .. d - 1 /\ d - k = i /\ b + 1 - k = b - (d - 1) + i
      BY <1>7, <3>1
    <3>3. seen[d - k] = s[b + 1 - k]
      BY <1>3, <1>5, <3>2 DEF KeptOneMore
    <3>4. last[i] = s[b - (d - 1) + i]
      BY <1>4, <1>5, <2>3
    <3> QED BY <3>2, <3>3, <3>4
  <2> QED BY <1>4, <2>2, <2>3, <2>4
<1>10. seen # << >>
  BY <1>5, <1>7
<1> QED BY <1>2, <1>3, <1>5, <1>7, <1>8, <1>9, <1>10 DEF KeptOneMore, EndAlike, KeptAlike

(* The history ends as what the user saw ends, as far back as the guard     *)
(* looks.                                                                   *)
GuardInv ==
  /\ history \in Seq(Texts) /\ shown \in Seq(Texts) /\ Len(shown) <= 5 + 1
  /\ EndAlike(history, shown, 5)
  /\ StuckIsNoticed

LEMMA GuardStep ==
  ASSUME GuardAssumption, GuardInv, [GuardNext]_guardVars
  PROVE  GuardInv'
<1>1. CASE UNCHANGED guardVars
  BY <1>1 DEF GuardInv, guardVars, StuckIsNoticed
<1>2. ASSUME NEW input \in Inputs, NEW topic \in TopicWords, NEW r \in Renderings,
             Respond(r, Verdict(input, topic, r))
      PROVE  GuardInv'
  <2> DEFINE verdict == Verdict(input, topic, r)
  <2>1. PICK h \in Seq(Texts), s \in Seq(Texts), n \in Nat, more \in Nat, limit \in Nat :
          h = history /\ s = shown /\ n = 5 /\ more = n + 1 /\ limit = HistoryLimit
    BY DEF GuardInv, GuardAssumption
  <2>2. PICK x \in Texts : x = IF Refused(verdict) THEN RefusalText ELSE r.text
    BY DEF Texts
  <2>3. /\ history' = Latest(Append(h, x), limit)
        /\ shown' = Latest(Append(s, x), more)
        /\ decision'.verdict = verdict
    BY <1>2, <2>1, <2>2 DEF Respond, Record, HISTORY_LOOKBACK
  <2> HIDE DEF verdict
  <2>4. /\ n >= 1 /\ more = n + 1 /\ limit >= n /\ Len(s) <= more
        /\ EndAlike(h, s, n)
    BY <2>1 DEF GuardInv, GuardAssumption
  <2>5. PICK kept, seen, last :
          /\ kept = Latest(Append(h, x), limit) /\ seen = Latest(Append(s, x), more)
          /\ last = Latest(s, n)
    OBVIOUS
  <2>6. KeptAlike(kept, seen, x, last, n, Texts)
    BY <2>4, <2>5, KeptTogether, Zenon
  <2>7. Latest(h, n) = last
    BY <2>4, <2>5, SameEnds
  <2>8. history' = kept /\ shown' = seen
    BY <2>3, <2>5
  <2>9. StuckIsNoticed'
    <3> DEFINE Tells(status, stuck) ==
                 (status = "Allowed" => ~ stuck) /\ (status = "InvariantWarn" => stuck)
               again(text) == Matches(text, last) >= REPETITION_THRESHOLD
    <3>1. Stuck(r) <=> again(r.text)
      BY <2>1, <2>7 DEF Stuck, HISTORY_LOOKBACK
    <3>2. verdict.status \in {"Allowed", "InvariantWarn"} => ~ Refused(verdict)
      BY DEF verdict, Verdict, Refused
    <3>3. Tells(verdict.status, Stuck(r))
      BY Zenon DEF verdict, Verdict
    <3>4. Tells(decision'.verdict.status, again(x))
      BY <2>2, <2>3, <3>1, <3>2, <3>3
    <3> QED
      BY <2>6, <2>8, <3>4 DEF KeptAlike, StuckIsNoticed
  <2> QED BY <2>1, <2>6, <2>8, <2>9 DEF GuardInv, KeptAlike
<1> QED BY <1>1, <1>2 DEF GuardNext, GuardStage

(* Every answer the user has seen three times among the last five is warned *)
(* of, and no other is, whatever the texts and the heuristics' findings, as  *)
(* long as the history keeps the five entries the check looks back at.      *)
THEOREM StuckAnswersAreNoticed ==
  ASSUME GuardAssumption PROVE GuardSpec => []StuckIsNoticed
<1>1. GuardInit => GuardInv
  BY DEF GuardInit, GuardInv, StuckIsNoticed, EndAlike
<1>2. GuardInv /\ [GuardNext]_guardVars => GuardInv'
  BY GuardStep
<1>3. GuardInv => StuckIsNoticed
  BY DEF GuardInv
<1> QED BY <1>1, <1>2, <1>3, PTL DEF GuardSpec

-----------------------------------------------------------------------------
(* PlanChain.  A set of numbers that holds 0 and each successor is all.     *)
LEMMA CountingUp ==
  ASSUME NEW S, 0 \in S, \A n \in Nat : n \in S => n + 1 \in S
  PROVE  \A n \in Nat : n \in S
<1> SUFFICES ASSUME Nat \ S # {} PROVE FALSE
  OBVIOUS
<1>1. PICK v \in Nat \ S : \A w \in Nat \ S : v <= w
  <2> DEFINE rest == Nat \ S
  <2>1. rest \subseteq Nat /\ rest # {}
    OBVIOUS
  <2> HIDE DEF rest
  <2>2. \E v \in rest : \A w \in rest : v <= w
    BY <2>1, FirstOfPositions
  <2> QED BY <2>2 DEF rest
<1>2. v # 0 /\ v - 1 \in Nat /\ v - 1 < v
  BY <1>1
<1>3. v - 1 \in S
  BY <1>1, <1>2
<1>4. v - 1 + 1 \in S
  BY <1>2, <1>3
<1> QED BY <1>1, <1>4

(* The recursive function exists that adds the next nodes step by step.     *)
OneMore(below, known) == known \cup UNION {below[id] : id \in known \cap DOMAIN below}

LEMMA SpreadEquations ==
  ASSUME NEW below, NEW from, NEW N \in Nat, N = Cardinality(DOMAIN below)
  PROVE  /\ SpreadUpTo(below, from)[0] = from
         /\ \A n \in 1 .. N :
              SpreadUpTo(below, from)[n] = OneMore(below, SpreadUpTo(below, from)[n - 1])
<1> DEFINE Body(f, n) == [i \in 0 .. n |-> IF i = 0 THEN from ELSE OneMore(below, f[i - 1])]
           S == {n \in Nat : \E f : f = Body(f, n)}
<1>1. 0 \in S
  <2>1. [i \in 0 .. 0 |-> from] = Body([i \in 0 .. 0 |-> from], 0)
    OBVIOUS
  <2> QED BY <2>1
<1>2. ASSUME NEW n \in Nat, n \in S PROVE n + 1 \in S
  <2>1. PICK f : f = Body(f, n)
    BY <1>2
  <2> DEFINE g == [i \in 0 .. n + 1 |-> IF i <= n THEN f[i] ELSE OneMore(below, f[n])]
  <2>2. \A i \in 0 .. n + 1 : i # 0 => g[i - 1] = f[i - 1]
    OBVIOUS
  <2>3. \A i \in 0 .. n + 1 : g[i] = IF i = 0 THEN from ELSE OneMore(below, g[i - 1])
    <3> SUFFICES ASSUME NEW i \in 0 .. n + 1
                 PROVE  g[i] = IF i = 0 THEN from ELSE OneMore(below, g[i - 1])
      OBVIOUS
    <3>1. CASE i <= n
      BY <2>1, <2>2, <3>1
    <3>2. CASE i = n + 1
      BY <2>2, <3>2
    <3> QED BY <3>1, <3>2
  <2>4. g = Body(g, n + 1)
    BY <2>3
  <2>5. n + 1 \in Nat /\ \E h : h = Body(h, n + 1)
    <3> HIDE DEF g, Body
    <3> QED BY <2>4
  <2> QED BY <2>5
<1>3. N \in S
  <2>1. \A n \in Nat : n \in S => n + 1 \in S
    BY <1>2
  <2> HIDE DEF S
  <2> QED BY <1>1, <2>1, CountingUp
<1>4. SpreadUpTo(below, from) = Body(SpreadUpTo(below, from), N)
  BY <1>3 DEF SpreadUpTo, OneMore
<1> HIDE DEF Body
<1>5. \A n \in 0 .. N :
        SpreadUpTo(below, from)[n] =
          IF n = 0 THEN from ELSE OneMore(below, SpreadUpTo(below, from)[n - 1])
  <2>1. \A f, n, i : i \in 0 .. n => Body(f, n)[i] = IF i = 0 THEN from ELSE OneMore(below, f[i - 1])
    BY DEF Body
  <2> QED BY <1>4, <2>1
<1>6. 0 \in 0 .. N /\ \A n \in 1 .. N : n \in 0 .. N /\ n # 0
  OBVIOUS
<1> QED BY <1>5, <1>6, Zenon

(* What spreads from good nodes stays among good nodes, if each good node   *)
(* leads to good nodes only.                                                *)
LEMMA SpreadStays ==
  ASSUME NEW below, IsFiniteSet(DOMAIN below), NEW from, NEW good, from \subseteq good,
         \A id \in good \cap DOMAIN below : below[id] \subseteq good
  PROVE  Spread(below, from) \subseteq good
<1> DEFINE N == Cardinality(DOMAIN below)
           after == SpreadUpTo(below, from)
           S == {n \in Nat : n <= N => after[n] \subseteq good}
<1>1. N \in Nat
  BY FS_CardinalityType
<1>2. after[0] = from /\ \A n \in 1 .. N : after[n] = OneMore(below, after[n - 1])
  BY <1>1, SpreadEquations
<1> HIDE DEF N, after
<1>3. 0 \in S
  BY <1>2
<1>4. ASSUME NEW n \in Nat, n \in S PROVE n + 1 \in S
  <2> SUFFICES ASSUME n + 1 <= N PROVE after[n + 1] \subseteq good
    OBVIOUS
  <2>1. n + 1 \in 1 .. N /\ n + 1 - 1 = n /\ n <= N
    BY <1>1
  <2>2. after[n] \subseteq good
    BY <1>4, <2>1
  <2>3. after[n + 1] = OneMore(below, after[n])
    BY <1>2, <2>1
  <2> QED BY <2>2, <2>3 DEF OneMore
<1>5. N \in S
  <2>1. \A n \in Nat : n \in S => n + 1 \in S
    BY <1>4
  <2> HIDE DEF S
  <2> QED BY <1>1, <1>3, <2>1, CountingUp
<1> QED BY <1>1, <1>5 DEF Spread, N, after

(* The same of the walk that authorizes nodes, from the leaves up.          *)
NextAuthorized(d, deeper) == {id \in Ids(d.dag) : NodeAuthorized(d, id, deeper)}

LEMMA AuthorizedEquations ==
  ASSUME NEW d, NEW N \in Nat, N = Cardinality(Ids(d.dag))
  PROVE  /\ AuthorizedUpTo(d)[0] = {}
         /\ \A n \in 1 .. N : AuthorizedUpTo(d)[n] = NextAuthorized(d, AuthorizedUpTo(d)[n - 1])
<1> DEFINE Body(f, n) == [i \in 0 .. n |-> IF i = 0 THEN {} ELSE NextAuthorized(d, f[i - 1])]
           S == {n \in Nat : \E f : f = Body(f, n)}
<1>1. 0 \in S
  <2>1. [i \in 0 .. 0 |-> {}] = Body([i \in 0 .. 0 |-> {}], 0)
    OBVIOUS
  <2> QED BY <2>1
<1>2. ASSUME NEW n \in Nat, n \in S PROVE n + 1 \in S
  <2>1. PICK f : f = Body(f, n)
    BY <1>2
  <2> DEFINE g == [i \in 0 .. n + 1 |-> IF i <= n THEN f[i] ELSE NextAuthorized(d, f[n])]
  <2>2. \A i \in 0 .. n + 1 : i # 0 => g[i - 1] = f[i - 1]
    OBVIOUS
  <2>3. \A i \in 0 .. n + 1 : g[i] = IF i = 0 THEN {} ELSE NextAuthorized(d, g[i - 1])
    <3> SUFFICES ASSUME NEW i \in 0 .. n + 1
                 PROVE  g[i] = IF i = 0 THEN {} ELSE NextAuthorized(d, g[i - 1])
      OBVIOUS
    <3>1. CASE i <= n
      <4>1. i \in 0 .. n
        BY <3>1
      <4>2. \A h : \A k \in 0 .. n :
              Body(h, n)[k] = IF k = 0 THEN {} ELSE NextAuthorized(d, h[k - 1])
        OBVIOUS
      <4>3. f[i] = IF i = 0 THEN {} ELSE NextAuthorized(d, f[i - 1])
        <5> HIDE DEF Body
        <5> QED BY <2>1, <4>1, <4>2
      <4>4. g[i] = f[i] /\ (i # 0 => g[i - 1] = f[i - 1])
        BY <2>2, <3>1
      <4> QED BY <4>3, <4>4
    <3>2. CASE i = n + 1
      BY <2>2, <3>2
    <3> QED BY <3>1, <3>2
  <2>4. g = Body(g, n + 1)
    BY <2>3
  <2>5. n + 1 \in Nat /\ \E h : h = Body(h, n + 1)
    <3> HIDE DEF g, Body
    <3> QED BY <2>4
  <2> QED BY <2>5
<1>3. N \in S
  <2>1. \A n \in Nat : n \in S => n + 1 \in S
    BY <1>2
  <2> HIDE DEF S
  <2> QED BY <1>1, <2>1, CountingUp
<1>4. AuthorizedUpTo(d) = Body(AuthorizedUpTo(d), N)
  BY <1>3 DEF AuthorizedUpTo, NextAuthorized
<1> HIDE DEF Body
<1>5. \A n \in 0 .. N :
        AuthorizedUpTo(d)[n] = IF n = 0 THEN {} ELSE NextAuthorized(d, AuthorizedUpTo(d)[n - 1])
  <2>1. \A f, n, i : i \in 0 .. n => Body(f, n)[i] = IF i = 0 THEN {} ELSE NextAuthorized(d, f[i - 1])
    BY DEF Body
  <2> QED BY <1>4, <2>1
<1>6. 0 \in 0 .. N /\ \A n \in 1 .. N : n \in 0 .. N /\ n # 0
  OBVIOUS
<1> QED BY <1>5, <1>6, Zenon

(* What a node passes on grows with what lies below it.                     *)
LEMMA NodeAuthorizedGrows ==
  ASSUME NEW d, NEW id, NEW A, NEW B, A \subseteq B, NodeAuthorized(d, id, A)
  PROVE  NodeAuthorized(d, id, B)
  BY DEF NodeAuthorized

Authorized(d) == UNION {AuthorizedUpTo(d)[n] : n \in 0 .. Cardinality(Ids(d.dag))}

LEMMA AuthorizedToTheBottom ==
  ASSUME NEW d, IsFiniteSet(Ids(d.dag)), NEW id \in Authorized(d)
  PROVE  id \in Ids(d.dag) /\ NodeAuthorized(d, id, Authorized(d))
<1> DEFINE N == Cardinality(Ids(d.dag))
           level == AuthorizedUpTo(d)
<1>1. N \in Nat
  BY FS_CardinalityType
<1>2. level[0] = {} /\ \A n \in 1 .. N : level[n] = NextAuthorized(d, level[n - 1])
  BY <1>1, AuthorizedEquations
<1>3. PICK n \in 0 .. N : id \in level[n]
  BY DEF Authorized
<1>4. \A k \in 0 .. N : level[k] \subseteq Authorized(d)
  BY DEF Authorized
<1> HIDE DEF N, level
<1>5. n \in 1 .. N /\ n - 1 \in 0 .. N
  BY <1>1, <1>2, <1>3
<1>6. id \in NextAuthorized(d, level[n - 1])
  BY <1>2, <1>3, <1>5
<1>7. id \in Ids(d.dag) /\ NodeAuthorized(d, id, level[n - 1])
  BY <1>6 DEF NextAuthorized
<1> QED BY <1>4, <1>5, <1>7, NodeAuthorizedGrows

-----------------------------------------------------------------------------
(* Nodes that may be asserted: what the walk authorizes, and predicates that *)
(* say what a curated record says.                                          *)
Curated(node) == \E r \in Registry.records : r.status = "curated" /\ r.triple = node.of
Assertable(d) ==
  {id \in Ids(d.dag) : \/ id \in Authorized(d)
                       \/ NodeOf(d.dag, id).kind = "predicate" /\ Curated(NodeOf(d.dag, id))}

(* The node of an identifier is one of the dag's.                           *)
LEMMA NodesHaveShape ==
  ASSUME ChainAssumption, NEW d \in Drafts, NEW id \in Ids(d.dag)
  PROVE  NodeShape(NodeOf(d.dag, id))
<1>1. \E e \in d.dag : e.id = id
  BY DEF Ids
<1>2. NodeOf(d.dag, id) \in {e.node : e \in d.dag}
  BY <1>1 DEF NodeOf
<1> QED BY <1>2 DEF ChainAssumption

LEMMA IdsAreFinite ==
  ASSUME ChainAssumption, NEW d \in Drafts
  PROVE  IsFiniteSet(Ids(d.dag))
<1> DEFINE dag == d.dag
           f == [e \in dag |-> e.id]
<1>1. IsFiniteSet(dag)
  BY DEF ChainAssumption
<1>2. f \in Surjection(dag, Ids(d.dag))
  <2>1. \A e \in dag : f[e] = e.id /\ e.id \in Ids(d.dag)
    BY DEF Ids
  <2>2. \A y \in Ids(d.dag) : \E e \in dag : f[e] = y
    BY DEF Ids
  <2>3. f \in [dag -> Ids(d.dag)]
    BY <2>1
  <2> HIDE DEF f, dag
  <2> QED BY <2>2, <2>3 DEF Surjection
<1> HIDE DEF f, dag
<1> QED BY <1>1, <1>2, FS_Surjection, Zenon

LEMMA AssertableKids ==
  ASSUME ChainAssumption, NEW d \in Drafts, NEW id \in Assertable(d)
  PROVE  AssertedKids(d.dag, id) \subseteq Assertable(d)
<1> DEFINE node == NodeOf(d.dag, id)
           parts == IF node.kind = "consequence" THEN {node.kids[2]} ELSE ToSet(node.kids)
<1>1. id \in Ids(d.dag) /\ IsFiniteSet(Ids(d.dag)) /\ NodeShape(node)
  BY IdsAreFinite, NodesHaveShape DEF Assertable
<1>2. AssertedKids(d.dag, id) = parts
  BY DEF AssertedKids
<1>3. Authorized(d) \subseteq Assertable(d)
  BY <1>1, AuthorizedToTheBottom DEF Assertable
<1>4. CASE node.kind = "predicate"
  <2>1. node.kids \in Seq(DOMAIN Form) /\ Len(node.kids) = 0
    BY <1>1, <1>4 DEF NodeShape
  <2>2. DOMAIN node.kids = {}
    <3> HIDE DEF node
    <3> QED BY <2>1
  <2>3. ToSet(node.kids) = {}
    BY <2>2 DEF ToSet
  <2> QED BY <1>2, <1>4, <2>3
<1>5. CASE node.kind # "predicate"
  <2>1. NodeAuthorized(d, id, Authorized(d))
    BY <1>1, <1>5, AuthorizedToTheBottom DEF Assertable
  <2>2. CASE node.kind \in {"question", "qualification"}
    <3>1. node.kids \in Seq(DOMAIN Form) /\ Len(node.kids) = 1
      BY <1>1, <2>2 DEF NodeShape
    <3>2. DOMAIN node.kids = {1}
      <4> HIDE DEF node
      <4> QED BY <3>1
    <3>3. ToSet(node.kids) = {node.kids[1]}
      BY <3>2 DEF ToSet
    <3>4. node.kids[1] \in Authorized(d)
      BY <2>1, <2>2 DEF NodeAuthorized
    <3> QED BY <1>2, <1>3, <2>2, <3>3, <3>4
  <2>3. CASE node.kind \notin {"predicate", "question", "qualification"}
    <3>1. parts \subseteq Authorized(d)
      BY <2>1, <2>3 DEF NodeAuthorized
    <3> QED BY <1>2, <1>3, <3>1
  <2> QED BY <1>5, <2>2, <2>3
<1> QED BY <1>4, <1>5

(* What is asserted of an authorized draft is assertable, at every depth.   *)
LEMMA AssertedIsAssertable ==
  ASSUME ChainAssumption, NEW d \in Drafts, ~ CandidateFault(d), ~ AssertionFault(d)
  PROVE  Asserted(d.dag, StatedPropositions(d.tree)) \subseteq Assertable(d)
<1> DEFINE stated == StatedPropositions(d.tree)
           below == [id \in Ids(d.dag) |-> AssertedKids(d.dag, id)]
           N == Cardinality(Ids(d.dag))
<1>1. IsFiniteSet(Ids(d.dag)) /\ N \in Nat
  BY IdsAreFinite, FS_CardinalityType
<1>2. ASSUME NEW id \in stated PROVE id \in Assertable(d)
  <2>1. id \in Ids(d.dag)
    BY DEF CandidateFault
  <2>2. PICK c \in ProjectedClaims(d.tree) : c.proposition = id
    <3>1. PICK i \in DOMAIN Leaves(d.tree) : id = Leaves(d.tree)[i].of
      BY DEF StatedPropositions, ToSet
    <3> DEFINE c0 == [claim |-> <<Leaves(d.tree)[i].of, ClaimPath(d.tree, i)>>,
                      proposition |-> Leaves(d.tree)[i].of]
    <3>2. c0 \in ProjectedClaims(d.tree)
      BY DEF ProjectedClaims
    <3>3. c0.proposition = id
      BY <3>1
    <3> HIDE DEF c0
    <3> QED BY <3>2, <3>3
  <2>3. AuthorizeClaim(d, c)
    BY DEF AssertionFault
  <2>4. CASE NodeOf(d.dag, id).kind = "predicate"
    BY <2>1, <2>2, <2>3, <2>4 DEF AuthorizeClaim, Lookup, Assertable, Curated
  <2>5. CASE NodeOf(d.dag, id).kind # "predicate"
    <3>1. id \in AuthorizedUpTo(d)[N]
      BY <2>2, <2>3, <2>5 DEF AuthorizeClaim, AuthorizeNode
    <3>2. id \in Authorized(d)
      BY <1>1, <3>1 DEF Authorized
    <3> QED BY <2>1, <3>2 DEF Assertable
  <2> QED BY <2>4, <2>5
<1>3. \A id \in Assertable(d) \cap DOMAIN below : below[id] \subseteq Assertable(d)
  BY AssertableKids
<1>4. IsFiniteSet(DOMAIN below) /\ stated \subseteq Assertable(d)
  BY <1>1, <1>2
<1>5. Spread(below, stated) \subseteq Assertable(d)
  <2> HIDE DEF below, stated
  <2> QED BY <1>3, <1>4, SpreadStays
<1> QED BY <1>5 DEF Asserted

(* An assertable node is what the property asks of it.                      *)
LEMMA AssertableIsCurated ==
  ASSUME ChainAssumption, NEW d \in Drafts, ~ CandidateFault(d), NEW id \in Assertable(d)
  PROVE  LET node == NodeOf(d.dag, id) IN
         CASE node.kind = "predicate" ->
                \E r \in Registry.records : r.status = "curated" /\ r.triple = node.of
           [] node.kind = "qualification" -> node.of \in Qualifiers
           [] node.kind = "question" -> TRUE
           [] OTHER -> \E s \in d.steps :
                         s.conclusion = id /\ Confirms(s.rule, s.premises, id, d.dag)
<1> DEFINE node == NodeOf(d.dag, id)
<1>1. \/ NodeAuthorized(d, id, Authorized(d))
      \/ node.kind = "predicate" /\ Curated(node)
  BY IdsAreFinite, AuthorizedToTheBottom DEF Assertable
<1>2. CASE node.kind = "predicate"
  BY <1>1, <1>2 DEF NodeAuthorized, Curated
<1>3. CASE node.kind = "qualification"
  BY <1>1, <1>3 DEF NodeAuthorized
<1>4. CASE node.kind = "question"
  BY <1>4
<1>5. CASE node.kind \notin {"predicate", "qualification", "question"}
  <2>1. Derived(d, id, RuleOf(node.kind))
    BY <1>1, <1>5 DEF NodeAuthorized
  <2>2. PICK s \in d.steps : s.conclusion = id
    BY <2>1 DEF Derived
  <2>3. Confirms(s.rule, s.premises, s.conclusion, d.dag)
    BY DEF CandidateFault, DerivationFault
  <2> QED BY <1>5, <2>2, <2>3
<1> QED BY <1>2, <1>3, <1>4, <1>5

(* The fact behind a certified claim was in force on the date asked about.  *)
LEMMA CertifiedInForce ==
  ASSUME ChainAssumption, NEW fact, NEW asOf \in Nat, ClaimCertified(fact, asOf)
  PROVE  \E r \in Registry.records :
           /\ r.id = fact /\ r.status = "curated"
           /\ r.from # NoDate => asOf >= r.from
           /\ r.to # NoDate => asOf # NoDate /\ asOf < r.to
<1> DEFINE found == Lookup(Registry, fact)
           r == CHOOSE x \in found : TRUE
<1>1. r \in found /\ \A x \in found : x.status = "curated"
  BY DEF ClaimCertified
<1>2. r \in Registry.records /\ r.id = fact /\ r.status = "curated" /\ found # {}
  BY <1>1 DEF Lookup
<1>3. r.from \in Nat /\ r.to \in Nat
  BY <1>2 DEF ChainAssumption
<1>4. CASE asOf # NoDate
  <2>1. SelectAt(Registry, fact, asOf) = "ok"
    BY <1>4 DEF ClaimCertified
  <2>2. ~ (r.from # NoDate /\ asOf < r.from) /\ ~ (r.to # NoDate /\ asOf >= r.to)
    BY <1>2, <2>1 DEF SelectAt, SelectCurated
  <2> HIDE DEF r
  <2> QED BY <1>2, <1>3, <1>4, <2>2
<1>5. CASE asOf = NoDate
  <2>1. Select(Registry, fact) = "ok"
    BY <1>5 DEF ClaimCertified
  <2>2. r.from = NoDate /\ r.to = NoDate
    BY <1>2, <2>1 DEF Select
  <2> HIDE DEF r
  <2> QED BY <1>2, <2>2
<1> QED BY <1>4, <1>5

(***************************************************************************)
(* What each certificate stands for: no boundary that was passed on the    *)
(* way to a stage has a fault in the draft that is at this stage.          *)
(***************************************************************************)
ChainInv ==
  /\ draft \in Drafts
  /\ stage \in {"draft", "candidate", "admitted", "certified", "authorized"}
  /\ stage # "draft" => ~ CandidateFault(draft)
  /\ stage \in {"admitted", "certified", "authorized"} => ~ AdmissionFault(draft)
  /\ stage \in {"certified", "authorized"} => ~ EvidenceFault(draft)
  /\ stage = "authorized" => ~ AssertionFault(draft)

LEMMA ChainStep == ChainInv /\ [ChainNext]_chainVars => ChainInv'
<1> SUFFICES ASSUME ChainInv, [ChainNext]_chainVars PROVE ChainInv'
  OBVIOUS
<1>1. draft' = draft
  BY DEF ChainNext, TryCandidate, TryAdmit, TryCertify, TryAuthorize, Boundary, chainVars
<1> DEFINE candidate == CandidateFault(draft)
           admission == AdmissionFault(draft)
           evidence == EvidenceFault(draft)
           assertion == AssertionFault(draft)
<1>2. /\ CandidateFault(draft') = candidate /\ AdmissionFault(draft') = admission
      /\ EvidenceFault(draft') = evidence /\ AssertionFault(draft') = assertion
  BY <1>1
<1>3. \/ stage = "draft" /\ ~ candidate /\ stage' = "candidate"
      \/ stage = "candidate" /\ ~ admission /\ stage' = "admitted"
      \/ stage = "admitted" /\ ~ evidence /\ stage' = "certified"
      \/ stage = "certified" /\ ~ assertion /\ stage' = "authorized"
      \/ stage' = stage
  BY DEF ChainNext, TryCandidate, TryAdmit, TryCertify, TryAuthorize, Boundary, chainVars
<1> HIDE DEF candidate, admission, evidence, assertion
<1>4. /\ stage # "draft" => ~ candidate
      /\ stage \in {"admitted", "certified", "authorized"} => ~ admission
      /\ stage \in {"certified", "authorized"} => ~ evidence
      /\ stage = "authorized" => ~ assertion
  BY DEF ChainInv, candidate, admission, evidence, assertion
<1>5. stage' \in {"draft", "candidate", "admitted", "certified", "authorized"}
  BY <1>3 DEF ChainInv
<1>6. /\ stage' # "draft" => ~ candidate
      /\ stage' \in {"admitted", "certified", "authorized"} => ~ admission
      /\ stage' \in {"certified", "authorized"} => ~ evidence
      /\ stage' = "authorized" => ~ assertion
  BY <1>3, <1>4
<1> QED BY <1>1, <1>2, <1>5, <1>6 DEF ChainInv

(***************************************************************************)
(* Whatever an authorized plan commits the speaker to is, at every depth   *)
(* of any proposal, a curated triple or the conclusion of a confirmed      *)
(* rule, and the fact behind each claim is curated and in force.           *)
(***************************************************************************)
THEOREM OnlyCuratedContentIsAsserted ==
  ASSUME ChainAssumption PROVE ChainSpec => []OnlyCuratedIsAsserted
<1>1. ChainInit => ChainInv
  BY DEF ChainInit, ChainInv
<1>2. ChainInv => OnlyCuratedIsAsserted
  <2> SUFFICES ASSUME ChainInv, stage = "authorized" PROVE OnlyCuratedIsAsserted
    BY DEF OnlyCuratedIsAsserted
  <2>1. /\ draft \in Drafts /\ ~ CandidateFault(draft) /\ ~ AdmissionFault(draft)
        /\ ~ EvidenceFault(draft) /\ ~ AssertionFault(draft)
    BY DEF ChainInv
  <2>2. Asserted(draft.dag, StatedPropositions(draft.tree)) \subseteq Assertable(draft)
    BY <2>1, AssertedIsAssertable
  <2>3. ASSUME NEW id \in Asserted(draft.dag, StatedPropositions(draft.tree))
        PROVE  LET node == NodeOf(draft.dag, id) IN
               CASE node.kind = "predicate" ->
                      \E r \in Registry.records : r.status = "curated" /\ r.triple = node.of
                 [] node.kind = "qualification" -> node.of \in Qualifiers
                 [] node.kind = "question" -> TRUE
                 [] OTHER -> \E s \in draft.steps :
                               s.conclusion = id /\ Confirms(s.rule, s.premises, id, draft.dag)
    BY <2>1, <2>2, AssertableIsCurated
  <2>4. ASSUME NEW c \in ClaimIds(draft.tree)
        PROVE  \E r \in Registry.records :
                 /\ r.id = draft.bindings[c] /\ r.status = "curated"
                 /\ r.from # NoDate => draft.asOf >= r.from
                 /\ r.to # NoDate => draft.asOf # NoDate /\ draft.asOf < r.to
    <3>1. c \in DOMAIN draft.bindings
      BY <2>1 DEF AdmissionFault
    <3>2. ClaimCertified(draft.bindings[c], draft.asOf)
      BY <2>1, <3>1 DEF EvidenceFault
    <3>3. draft.asOf \in Nat
      BY <2>1 DEF ChainAssumption
    <3> QED BY <3>2, <3>3, CertifiedInForce
  <2> QED BY <2>3, <2>4 DEF OnlyCuratedIsAsserted
<1>3. QED
  BY <1>1, <1>2, ChainStep, PTL DEF ChainSpec

-----------------------------------------------------------------------------
(* The key of a case in the singular is one of the keys of a bundle.        *)
LEMMA KeyOfCase ==
  ASSUME NEW case \in Cases
  PROVE  \E k \in DOMAIN CaseNumbers : ParseCaseNumber(CaseNumbers[k]) = <<case, "sg">>
<1>1. DOMAIN CaseNumbers = 1..12
  BY DEF CaseNumbers
<1>2. \A i, j \in 1..12 : CaseNumbers[i] = CaseNumbers[j] => i = j
  BY SMTT(60) DEF CaseNumbers
<1>3. ASSUME NEW k \in 1..12
      PROVE  ParseCaseNumber(CaseNumbers[k]) =
               <<CaseOrder[(k + 1) \div 2], IF k % 2 = 1 THEN "sg" ELSE "pl">>
  <2> DEFINE place == CHOOSE i \in DOMAIN CaseNumbers : CaseNumbers[i] = CaseNumbers[k]
  <2>1. place \in 1..12 /\ CaseNumbers[place] = CaseNumbers[k]
    BY <1>1
  <2>2. place = k
    BY <1>2, <2>1
  <2> QED BY <2>2 DEF ParseCaseNumber
<1>4. /\ (1 + 1) \div 2 = 1 /\ (3 + 1) \div 2 = 2 /\ (5 + 1) \div 2 = 3
      /\ (7 + 1) \div 2 = 4 /\ (9 + 1) \div 2 = 5 /\ (11 + 1) \div 2 = 6
  OBVIOUS
<1>5. \A k \in {1, 3, 5, 7, 9, 11} : k \in 1..12 /\ k % 2 = 1
  OBVIOUS
<1>6. \E k \in {1, 3, 5, 7, 9, 11} : CaseOrder[(k + 1) \div 2] = case
  BY <1>4 DEF CaseOrder, Cases
<1> QED BY <1>1, <1>3, <1>5, <1>6

(* The form of a known lemma is that of an entry of its own, and stands     *)
(* among the candidates of its surface in the case that was asked for.      *)
LEMMA FormIsACandidate ==
  ASSUME NEW run, NEW lemma, NEW case \in Cases,
         Lexeme(run, lemma) # {}, Inflect(run, lemma, case, "sg") # ""
  PROVE  \E x \in Candidates(run, Inflect(run, lemma, case, "sg")) :
           ParseCaseNumber(CaseNumbers[x.at]) = <<case, "sg">>
<1> DEFINE entry == CHOOSE e \in Lexeme(run, lemma) : TRUE
           keys == {CaseNumbers[i] : i \in DOMAIN CaseNumbers}
           key == CHOOSE k \in keys : ParseCaseNumber(k) = <<case, "sg">>
           form == Inflect(run, lemma, case, "sg")
<1>1. entry \in run.lexemes
  BY DEF Lexeme
<1>2. key \in keys /\ ParseCaseNumber(key) = <<case, "sg">>
  <2>1. \E k \in keys : ParseCaseNumber(k) = <<case, "sg">>
    BY KeyOfCase
  <2> HIDE DEF keys
  <2> QED BY <2>1
<1>3. PICK place \in DOMAIN CaseNumbers : CaseNumbers[place] = key
  BY <1>2
<1>4. form = entry.forms[key]
  BY DEF Inflect, GetForm
<1> DEFINE x == [entry |-> entry, at |-> place]
<1>5. x \in [entry : run.lexemes, at : DOMAIN CaseNumbers] /\ x.at = place
  <2> HIDE DEF entry
  <2> QED BY <1>1
<1>6. FormAt(x) = form
  <2> HIDE DEF form, entry, key
  <2> QED BY <1>3, <1>4 DEF FormAt
<1>7. x \in Candidates(run, form)
  BY <1>5, <1>6 DEF Candidates
<1>8. ParseCaseNumber(CaseNumbers[x.at]) = <<case, "sg">>
  BY <1>2, <1>3, <1>5
<1> HIDE DEF x
<1> QED BY <1>7, <1>8

(* What a surface resolves to is read off one of its candidates.            *)
LEMMA ResolvedIsACandidate ==
  ASSUME NEW run, NEW surface, Lemmatize(run, surface).kind = "resolved"
  PROVE  \E c \in Candidates(run, surface) : /\ Lemmatize(run, surface).lemma = c.entry.lemma
                                             /\ Lemmatize(run, surface).gender = c.entry.gender
<1> DEFINE best == MostTrusted(Candidates(run, surface))
           first == CHOOSE c \in best : \A d \in best : c.at <= d.at
<1>1. best # {}
  BY DEF Lemmatize
<1>2. best \subseteq Candidates(run, surface)
  BY DEF MostTrusted
<1>3. \A c \in best : c.at \in Nat
  <2>1. DOMAIN CaseNumbers \subseteq Nat
    BY DEF CaseNumbers
  <2>2. \A c \in Candidates(run, surface) : c.at \in DOMAIN CaseNumbers
    BY DEF Candidates
  <2> QED BY <1>2, <2>1, <2>2
<1>4. \E c \in best : \A d \in best : c.at <= d.at
  <2> DEFINE places == {c.at : c \in best}
  <2>1. places # {} /\ places \subseteq Nat
    <3> HIDE DEF best
    <3> QED BY <1>1, <1>3
  <2>2. PICK least \in places : \A p \in places : least <= p
    <3> HIDE DEF places
    <3> QED BY <2>1, FirstOfPositions
  <2> QED BY <2>2
<1>5. first \in best
  BY <1>4
<1>6. /\ Lemmatize(run, surface).lemma = first.entry.lemma
      /\ Lemmatize(run, surface).gender = first.entry.gender
  <2> HIDE DEF best, first
  <2>1. Lemmatize(run, surface) =
          [kind |-> "resolved", lemma |-> first.entry.lemma,
           case |-> ParseCaseNumber(CaseNumbers[first.at]), gender |-> first.entry.gender]
    BY <1>1 DEF Lemmatize, best, first
  <2> QED BY <2>1
<1> QED BY <1>2, <1>5, <1>6

(* A runtime that was loaded has one entry for a lemma.                     *)
LEMMA OneEntryPerLemma ==
  ASSUME SurfaceAssumption, NEW given, NEW a \in GetRuntime(given).lexemes,
         NEW b \in GetRuntime(given).lexemes, a.lemma = b.lemma
  PROVE  a = b
<1>1. PICK bundle : LoadFault(bundle) = "ok" /\ GetRuntime(given) = RuntimeOf(bundle)
  BY DEF GetRuntime, SurfaceAssumption
<1>2. IndexFault(bundle.lexemes) = "ok"
  <2> DEFINE q1 == bundle.missing = "lexemes"
             q2 == bundle.missing = "manifest"
             q3 == BundleFault(bundle) # "ok"
             q4 == IndexFault(bundle.lexemes) # "ok"
             checks == << <<q1, "unread lexemes">>, <<q2, "unread manifest">>,
                          <<q3, "manifest">>, <<q4, "duplicate lemma">> >>
  <2>1. FirstFault(checks) = "ok"
    BY <1>1 DEF LoadFault
  <2>2. DOMAIN checks = 1..4 /\ checks[4][1] = q4
    <3> HIDE DEF q1, q2, q3, q4
    <3> QED OBVIOUS
  <2>3. \A i \in DOMAIN checks : checks[i][2] # "ok"
    <3> HIDE DEF q1, q2, q3, q4
    <3>1. /\ checks[1][2] # "ok" /\ checks[2][2] # "ok"
          /\ checks[3][2] # "ok" /\ checks[4][2] # "ok"
      OBVIOUS
    <3> HIDE DEF checks
    <3> QED BY <2>2, <3>1
  <2>4. ~ q4
    <3> HIDE DEF checks, q1, q2, q3, q4
    <3>1. \A i \in DOMAIN checks : ~ checks[i][1]
      BY <2>1, <2>2, <2>3, FirstFaultTells
    <3> QED BY <2>2, <3>1
  <2> QED BY <2>4
<1>3. PICK i \in DOMAIN bundle.lexemes : a = ReadEntry(bundle.lexemes[i])
  BY <1>1 DEF RuntimeOf
<1>4. PICK j \in DOMAIN bundle.lexemes : b = ReadEntry(bundle.lexemes[j])
  BY <1>1 DEF RuntimeOf
<1>5. SameLemma(bundle.lexemes[i], bundle.lexemes[j])
  BY <1>3, <1>4 DEF ReadEntry, SameLemma
<1> QED BY <1>2, <1>3, <1>4, <1>5 DEF IndexFault

(* A form that is used reads back as its lemma.                             *)
LEMMA FormsRoundTrip ==
  ASSUME NEW run, NEW lemma, NEW case, FormFault(run, lemma, case) = "ok"
  PROVE  LET form == Inflect(run, lemma, case, "sg") IN
         /\ Lexeme(run, lemma) # {} /\ form # ""
         /\ Lemmatize(run, form).kind = "resolved"
         /\ Lemmatize(run, form).lemma = lemma
<1> DEFINE form == Inflect(run, lemma, case, "sg")
           q1 == Lexeme(run, lemma) = {}
           q2 == form = ""
           q3 == ~ RoundTrips(run, lemma, case, "sg", form, "bijective")
           checks == << <<q1, "unknown lemma">>, <<q2, "incomplete form">>,
                        <<q3, "incomplete form">> >>
<1>1. FirstFault(checks) = "ok"
  BY DEF FormFault
<1>2. /\ DOMAIN checks = 1..3
      /\ checks[1][1] = q1 /\ checks[2][1] = q2 /\ checks[3][1] = q3
      /\ checks[1][2] # "ok" /\ checks[2][2] # "ok" /\ checks[3][2] # "ok"
  <2> HIDE DEF q1, q2, q3
  <2> QED OBVIOUS
<1>3. ~ q1 /\ ~ q2 /\ ~ q3
  <2> HIDE DEF q1, q2, q3, checks
  <2>1. \A i \in DOMAIN checks : checks[i][2] # "ok"
    BY <1>2
  <2>2. \A i \in DOMAIN checks : ~ checks[i][1]
    BY <1>1, <1>2, <2>1, FirstFaultTells
  <2> QED BY <1>2, <2>2
<1> QED BY <1>3 DEF RoundTrips

(* A relation that has a frame has one of a whole lexicon: a governed case  *)
(* is a case.                                                               *)
LEMMA FramesGovernCases ==
  ASSUME NEW relation, FrameOf(relation) # {}
  PROVE  LET c == TheFrame(relation).complement IN
         /\ c.kind \in {"none", "uninflected", "direct", "prep"}
         /\ Governs(c) => c.case \in Cases
<1> DEFINE f == TheFrame(relation)
<1>1. f \in FrameOf(relation)
  BY DEF TheFrame
<1>2. ~ FrameFault(FrameRows) /\ \E i \in DOMAIN FrameRows : f = FrameRows[i]
  BY <1>1 DEF FrameOf, Frames
<1>3. ComplementFault(f.complement) = "ok"
  BY <1>2 DEF FrameFault
<1> DEFINE c == f.complement
           q1 == c.kind \notin {"none", "uninflected", "direct", "prep"}
           q2 == c.kind = "prep" /\ "" \in {c.preposition, c.case}
           q3 == c.kind \in {"direct", "prep"} /\ c.case \notin Cases
           checks == << <<q1, "complement">>, <<q2, "complement">>, <<q3, "case">> >>
<1>4. FirstFault(checks) = "ok"
  BY <1>3 DEF ComplementFault
<1>5. /\ DOMAIN checks = 1..3
      /\ checks[1][1] = q1 /\ checks[2][1] = q2 /\ checks[3][1] = q3
      /\ checks[1][2] # "ok" /\ checks[2][2] # "ok" /\ checks[3][2] # "ok"
  <2> HIDE DEF q1, q2, q3
  <2> QED OBVIOUS
<1>6. ~ q1 /\ ~ q2 /\ ~ q3
  <2> HIDE DEF q1, q2, q3, checks
  <2>1. \A i \in DOMAIN checks : checks[i][2] # "ok"
    BY <1>5
  <2>2. \A i \in DOMAIN checks : ~ checks[i][1]
    BY <1>4, <1>5, <2>1, FirstFaultTells
  <2> QED BY <1>5, <2>2
<1> QED BY <1>6 DEF Governs

(* What is said after the head of a thesis whose complement is not refused. *)
LEMMA ObjectIsSaid ==
  ASSUME NEW run, NEW f, NEW object \in Seq(STRING) \ {<< >>}, Fixed(object, Absent) # Absent,
         f.complement.kind \in {"none", "uninflected", "direct", "prep"},
         ComplementRefused(run, f, ComplementFor(f, object)) = "ok"
  PROVE  LET c == f.complement
             np == ComplementFor(f, object)
             before == IF np = Absent THEN << >> ELSE PrepositionOf(f, np)
             ending == ComplementSurface(run, f, np)
             embedded == c.kind # "prep" \/ StartsWithWord(object, c.preposition)
         IN  /\ c.kind = "none" => before = << >> /\ ending = << >>
             /\ c.kind = "uninflected" => before = << >> /\ ending = object
             /\ (Governs(c) /\ Len(object) > 1) =>
                  ending = object /\ before = IF embedded THEN << >> ELSE <<c.preposition>>
             /\ (Governs(c) /\ Len(object) = 1) =>
                  /\ FormFault(run, object[1], c.case) = "ok"
                  /\ ending = <<Inflect(run, object[1], c.case, "sg")>>
                  /\ before = IF c.kind # "prep" THEN << >>
                              ELSE <<Allomorph(c.preposition, object[1])>>
<1> DEFINE c == f.complement
           np == ComplementFor(f, object)
<1>1. CASE c.kind = "none"
  <2>1. np = Absent
    BY <1>1 DEF ComplementFor, Governs
  <2> QED BY <1>1, <2>1 DEF ComplementSurface, Governs
<1>2. CASE c.kind = "uninflected"
  <2>1. np = Fixed(object, Absent) /\ np # Absent
    BY <1>2 DEF ComplementFor, Governs
  <2>2. np.kind = "fixed" /\ np.text = object
    BY <2>1 DEF Fixed
  <2> HIDE DEF np
  <2>3. PrepositionOf(f, np) = << >> /\ ComplementSurface(run, f, np) = object
    BY <1>2, <2>1, <2>2 DEF PrepositionOf, ComplementSurface
  <2> QED BY <1>2, <2>1, <2>3 DEF Governs, np
<1>3. CASE Governs(c)
  <2>1. c.kind \in {"direct", "prep"}
    BY <1>3 DEF Governs
  <2>2. GovernedFault(run, f, np) = "ok"
    BY <2>1 DEF ComplementRefused
  <2>3. np # Absent
    BY <2>2 DEF GovernedFault
  <2>4. CASE Len(object) > 1
    <3> DEFINE embedded == c.kind = "prep" /\ StartsWithWord(object, c.preposition)
    <3>1. np = IF embedded THEN FixedWithPreposition(object, c.case) ELSE Fixed(object, c.case)
      BY <1>3, <2>1, <2>4 DEF ComplementFor
    <3>2. /\ FixedWithPreposition(object, c.case).kind = "fixed"
          /\ FixedWithPreposition(object, c.case).text = object
          /\ FixedWithPreposition(object, c.case).embedded = TRUE
      BY DEF FixedWithPreposition, Fixed
    <3>3. /\ Fixed(object, c.case).kind = "fixed"
          /\ Fixed(object, c.case).text = object
          /\ Fixed(object, c.case).embedded = FALSE
      BY DEF Fixed
    <3> HIDE DEF embedded
    <3>4. /\ np.kind = "fixed" /\ np.text = object /\ np.embedded = embedded
      BY <3>1, <3>2, <3>3 DEF embedded
    <3> HIDE DEF np
    <3>5. ComplementSurface(run, f, np) = object
      BY <2>3, <3>4 DEF ComplementSurface
    <3>6. PrepositionOf(f, np) = IF c.kind # "prep" \/ embedded THEN << >> ELSE <<c.preposition>>
      BY <3>4 DEF PrepositionOf
    <3>7. (c.kind # "prep" \/ embedded) <=>
            (c.kind # "prep" \/ StartsWithWord(object, c.preposition))
      BY DEF embedded
    <3>8. (IF np = Absent THEN << >> ELSE PrepositionOf(f, np)) =
            IF c.kind # "prep" \/ StartsWithWord(object, c.preposition)
            THEN << >> ELSE <<c.preposition>>
      BY <2>3, <3>6, <3>7
    <3>9. Len(object) # 1 /\ c.kind # "none" /\ c.kind # "uninflected"
      <4>1. Len(object) \in Nat
        OBVIOUS
      <4>2. c.kind # "none" /\ c.kind # "uninflected"
        BY <2>1
      <4>3. \A n \in Nat : n > 1 => n # 1
        OBVIOUS
      <4>4. Len(object) # 1
        BY <2>4, <4>1, <4>3, Zenon
      <4> QED BY <4>2, <4>4
    <3> QED BY <3>5, <3>8, <3>9, Zenon DEF np
  <2>5. CASE Len(object) = 1
    <3>1. np = Lexical(object[1])
      BY <1>3, <2>1, <2>5 DEF ComplementFor
    <3>2. /\ np.kind = "lexical" /\ np.text[1] = object[1] /\ np.embedded = FALSE
      BY <3>1 DEF Lexical
    <3> HIDE DEF np
    <3>3. FormFault(run, object[1], c.case) = "ok"
      BY <2>2, <2>3, <3>2 DEF GovernedFault
    <3>4. ComplementSurface(run, f, np) = <<Inflect(run, object[1], c.case, "sg")>>
      BY <1>3, <2>3, <3>2 DEF ComplementSurface
    <3>5. PrepositionOf(f, np) = IF c.kind # "prep" THEN << >>
                                 ELSE <<Allomorph(c.preposition, object[1])>>
      BY <3>2 DEF PrepositionOf
    <3> QED BY <2>1, <2>3, <2>5, <3>3, <3>4, <3>5 DEF np
  <2> QED BY <2>1, <2>4, <2>5
<1> QED BY <1>1, <1>2, <1>3 DEF Governs

(* The words of a clause come apart into its subject, its head and the rest. *)
LEMMA WordsComeApart ==
  ASSUME NEW U, NEW a \in U, NEW b \in U, NEW p \in Seq(U), NEW q \in Seq(U)
  PROVE  LET words == <<a, b>> \o p \o q IN
         words[1] = a /\ words[2] = b /\ SubSeq(words, 3, Len(words)) = p \o q
<1> DEFINE words == <<a, b>> \o p \o q
           rest == SubSeq(words, 3, Len(words))
<1>1. /\ <<a, b>> \in Seq(U) /\ Len(<<a, b>>) = 2
      /\ <<a, b>>[1] = a /\ <<a, b>>[2] = b
  OBVIOUS
<1>2. words \in Seq(U) /\ Len(words) = 2 + Len(p) + Len(q)
  BY <1>1
<1>3. words[1] = a /\ words[2] = b
  BY <1>1
<1>4. rest \in Seq(U) /\ Len(rest) = Len(p) + Len(q)
  <2> HIDE DEF words
  <2>1. Len(p) \in Nat /\ Len(q) \in Nat
    OBVIOUS
  <2> QED BY <1>2, <2>1
<1>5. p \o q \in Seq(U) /\ Len(p \o q) = Len(p) + Len(q)
  OBVIOUS
<1>6. ASSUME NEW i \in 1..(Len(p) + Len(q)) PROVE rest[i] = (p \o q)[i]
  <2>1. rest[i] = words[i + 2]
    <3> HIDE DEF words
    <3> QED BY <1>2, <1>4
  <2>2. words[i + 2] = (p \o q)[i]
    <3>1. CASE i <= Len(p)
      BY <1>1, <3>1
    <3>2. CASE i > Len(p)
      BY <1>1, <3>2
    <3> QED BY <3>1, <3>2
  <2> QED BY <2>1, <2>2
<1>7. rest = p \o q
  <2> DEFINE whole == p \o q
             n == Len(p) + Len(q)
  <2>1. whole \in Seq(U) /\ Len(whole) = n /\ rest \in Seq(U) /\ Len(rest) = n
    BY <1>4, <1>5
  <2>2. \A i \in 1..n : rest[i] = whole[i]
    BY <1>6
  <2> HIDE DEF rest, whole, n
  <2>3. rest = whole
    BY <2>1, <2>2
  <2> QED BY <2>3 DEF whole
<1> QED BY <1>3, <1>7

(* What stands behind one word is its tail.                                *)
LEMMA BehindOneWord ==
  ASSUME NEW U, NEW a \in U, NEW q \in Seq(U)
  PROVE  (<<a>> \o q)[1] = a /\ Tail(<<a>> \o q) = q
<1> DEFINE s == <<a>> \o q
<1>1. s \in Seq(U) /\ Len(s) = 1 + Len(q) /\ s[1] = a
  OBVIOUS
<1>2. \A i \in 1..Len(q) : s[i + 1] = q[i]
  OBVIOUS
<1>3. Tail(s) \in Seq(U) /\ Len(Tail(s)) = Len(q)
  <2> HIDE DEF s
  <2> QED BY <1>1
<1>4. \A i \in 1..Len(q) : Tail(s)[i] = s[i + 1]
  <2> HIDE DEF s
  <2> QED BY <1>1
<1>5. Tail(s) = q
  <2> HIDE DEF s
  <2> QED BY <1>2, <1>3, <1>4
<1> QED BY <1>1, <1>5

-----------------------------------------------------------------------------
(* Each thing built is built from the one before it: the tree from the      *)
(* claim, the resolved nodes from the tree, the words from them.            *)
SurfaceInv ==
  /\ claim \in Claims
  /\ runtime \in {Absent, GetRuntime(override)}
  /\ syntax # Absent =>
       /\ runtime # Absent /\ FrameOf(claim.relation) # {} /\ syntax = SynTree(claim)
  /\ resolved # Absent =>
       /\ syntax # Absent /\ captured.morphology = runtime.hash
       /\ \A i \in DOMAIN syntax : NodeFault(runtime, syntax[i]) = "ok"
       /\ resolved.nodes = [i \in DOMAIN syntax |-> ResolvedNode(runtime, syntax[i])]
  /\ spoken # Absent =>
       /\ resolved # Absent
       /\ spoken = [i \in DOMAIN resolved.nodes |-> Words(resolved.nodes[i])]

(* Each step builds on what the invariant says of the one before it.        *)
LEMMA SurfaceStep == SurfaceInv /\ [SurfaceNext]_surfaceVars => SurfaceInv'
<1> SUFFICES ASSUME SurfaceInv, [SurfaceNext]_surfaceVars PROVE SurfaceInv'
  OBVIOUS
<1>1. CASE StartRuntime
  BY <1>1 DEF SurfaceInv, StartRuntime
<1>2. CASE BuildSynTree
  BY <1>2 DEF SurfaceInv, BuildSynTree
<1>3. CASE TryRealize
  <2>1. CASE RealizationFault # "ok"
    BY <1>3, <2>1 DEF SurfaceInv, TryRealize
  <2>2. CASE RealizationFault = "ok"
    <3>1. /\ captured.morphology = runtime.hash
          /\ \A i \in DOMAIN syntax : NodeFault(runtime, syntax[i]) = "ok"
      <4> DEFINE faulty == {i \in DOMAIN syntax : NodeFault(runtime, syntax[i]) # "ok"}
                 q1 == Len(syntax) # claim.claims \/ Occurrences(syntax) # 1..claim.claims
                 q2 == faulty # {}
                 q3 == runtime.hash # captured.morphology
                 checks == << <<q1, "occurrence mismatch">>, <<q2, "realization">>,
                              <<q3, "snapshot mismatch">> >>
      <4>1. FirstFault(checks) = "ok"
        BY <2>2 DEF RealizationFault
      <4>2. /\ DOMAIN checks = 1..3
            /\ checks[1][1] = q1 /\ checks[2][1] = q2 /\ checks[3][1] = q3
            /\ checks[1][2] # "ok" /\ checks[2][2] # "ok" /\ checks[3][2] # "ok"
        <5> HIDE DEF q1, q2, q3
        <5> QED OBVIOUS
      <4>3. ~ q2 /\ ~ q3
        <5> HIDE DEF q1, q2, q3, checks
        <5>1. \A i \in DOMAIN checks : checks[i][2] # "ok"
          BY <4>2
        <5>2. \A i \in DOMAIN checks : ~ checks[i][1]
          BY <4>1, <4>2, <5>1, FirstFaultTells
        <5> QED BY <4>2, <5>2
      <4> QED BY <4>3
    <3>2. /\ resolved' = [nodes |-> [i \in DOMAIN syntax |-> ResolvedNode(runtime, syntax[i])],
                          certificate |-> Certificate(syntax)]
          /\ UNCHANGED <<runtime, override, captured, claim, syntax, spoken>>
          /\ syntax # Absent /\ resolved = Absent
      BY <1>3, <2>2 DEF TryRealize
    <3>3. resolved'.nodes = [i \in DOMAIN syntax |-> ResolvedNode(runtime, syntax[i])]
      BY <3>2
    <3> QED BY <3>1, <3>2, <3>3 DEF SurfaceInv
  <2> QED BY <2>1, <2>2
<1>4. CASE Linearize
  BY <1>4 DEF SurfaceInv, Linearize
<1>5. CASE UNCHANGED surfaceVars
  BY <1>5 DEF SurfaceInv, surfaceVars
<1> QED BY <1>1, <1>2, <1>3, <1>4, <1>5 DEF SurfaceNext

(* A thesis passes with its subject and its complement.                     *)
LEMMA ThesisPasses ==
  ASSUME NEW run, NEW q, NodeFault(run, ThesisNode(q)) = "ok"
  PROVE  /\ FormFault(run, q.subject, "nom") = "ok"
         /\ ComplementRefused(run, TheFrame(q.relation),
                              ComplementFor(TheFrame(q.relation), q.object)) = "ok"
<1> DEFINE node == ThesisNode(q)
           np == ComplementFor(TheFrame(q.relation), q.object)
<1>1. /\ node.kind = "clause" /\ node.subject = Lexical(q.subject)
      /\ node.relation = q.relation /\ node.complement = np
  BY DEF ThesisNode
<1>2. node.subject.kind = "lexical" /\ node.subject.text[1] = q.subject
  BY <1>1 DEF Lexical
<1> HIDE DEF node, np
<1>3. NodeFault(run, node) = "ok"
  BY DEF node
<1> DEFINE fault == FormFault(run, q.subject, "nom")
<1>4. NodeFault(run, node) =
        IF FrameOf(q.relation) = {} THEN "valency"
        ELSE IF fault # "ok" THEN fault
        ELSE ComplementRefused(run, TheFrame(q.relation), np)
  BY <1>1, <1>2 DEF NodeFault
<1> HIDE DEF fault
<1>5. fault = "ok" /\ ComplementRefused(run, TheFrame(q.relation), np) = "ok"
  BY <1>3, <1>4
<1> QED BY <1>5 DEF fault, np

(***************************************************************************)
(* Whatever sentence is spoken of a thesis, by whatever bundle of forms    *)
(* and frames, a reader gets the claim back from it.                       *)
(***************************************************************************)
THEOREM SpokenThesesReadBack ==
  ASSUME SurfaceAssumption PROVE SurfaceSpec => []ThesisReadsBack
<1>1. SurfaceInit => SurfaceInv
  BY DEF SurfaceInit, SurfaceInv
<1>2. SurfaceInv => ThesisReadsBack
  <2> SUFFICES ASSUME SurfaceInv, spoken # Absent PROVE ThesisReadsBack
    BY DEF ThesisReadsBack
  <2> DEFINE f == TheFrame(claim.relation)
             c == f.complement
             object == claim.object
             np == ComplementFor(f, object)
             before == IF np = Absent THEN << >> ELSE PrepositionOf(f, np)
             ending == ComplementSurface(runtime, f, np)
             form == Inflect(runtime, claim.subject, "nom", "sg")
             head == Realize(f, SubjectAgreement(runtime, claim.subject))
             words == spoken[1]
             rest == SubSeq(words, 3, Len(words))
             embedded == c.kind # "prep" \/ StartsWithWord(object, c.preposition)
             found == Lemmatize(runtime, form)
  <2>1. /\ claim \in Claims /\ runtime = GetRuntime(override)
        /\ FrameOf(claim.relation) # {} /\ syntax = SynTree(claim)
        /\ captured.morphology = runtime.hash
        /\ \A i \in DOMAIN syntax : NodeFault(runtime, syntax[i]) = "ok"
        /\ resolved.nodes = [i \in DOMAIN syntax |-> ResolvedNode(runtime, syntax[i])]
        /\ spoken = [i \in DOMAIN resolved.nodes |-> Words(resolved.nodes[i])]
    BY DEF SurfaceInv
  <2>2. /\ object \in Seq(STRING) \ {<< >>} /\ claim.statements \in Nat
        /\ Fixed(object, Absent) # Absent
    BY <2>1 DEF SurfaceAssumption
  <2>3. 1 \in DOMAIN syntax /\ syntax[1] = ThesisNode(claim)
    <3> DEFINE thesis == ThesisNode(claim)
               after == [i \in 1..claim.statements |-> FixedNode(i + 1, claim.surface)]
               U == {thesis} \cup {after[i] : i \in 1..claim.statements}
    <3>1. after \in Seq(U)
      <4>1. \A i \in 1..claim.statements : after[i] \in U
        OBVIOUS
      <4>2. after = [i \in 1..claim.statements |-> after[i]]
        OBVIOUS
      <4>3. after \in [1..claim.statements -> U]
        <5> HIDE DEF U
        <5> QED BY <4>1
      <4> HIDE DEF after, U
      <4> QED BY <2>2, <4>3, SeqDef
    <3>2. thesis \in U
      OBVIOUS
    <3>3. syntax = <<thesis>> \o after
      BY <2>1 DEF SynTree
    <3> HIDE DEF thesis, after, U
    <3>4. syntax[1] = thesis
      BY <3>1, <3>2, <3>3, BehindOneWord
    <3>5. <<thesis>> \in Seq(U) /\ Len(<<thesis>>) = 1
      BY <3>2
    <3>6. 1 \in DOMAIN (<<thesis>> \o after)
      BY <3>1, <3>5
    <3> QED BY <3>3, <3>4, <3>6 DEF thesis
  <2>4. NodeFault(runtime, ThesisNode(claim)) = "ok"
    BY <2>1, <2>3
  <2>5. /\ FormFault(runtime, claim.subject, "nom") = "ok"
        /\ ComplementRefused(runtime, f, np) = "ok"
    BY <2>4, ThesisPasses
  <2>6. c.kind \in {"none", "uninflected", "direct", "prep"} /\ (Governs(c) => c.case \in Cases)
    BY <2>1, FramesGovernCases
  <2>7. words = <<form, head>> \o before \o ending
    <3> DEFINE node == ResolvedNode(runtime, ThesisNode(claim))
    <3>1. words = Words(node)
      BY <2>1, <2>3
    <3>2. /\ ThesisNode(claim).kind = "clause" /\ ThesisNode(claim).relation = claim.relation
          /\ ThesisNode(claim).subject.text[1] = claim.subject
          /\ ThesisNode(claim).complement = np
      BY DEF ThesisNode, Lexical
    <3>3. /\ node.kind = "clause" /\ node.subject = form /\ node.head = head
          /\ node.preposition = before /\ node.complement = ending
      <4> HIDE DEF np
      <4> QED BY <3>2 DEF ResolvedNode
    <3> HIDE DEF node, form, head, before, ending
    <3> QED BY <3>1, <3>3 DEF Words
  <2>8. /\ Lexeme(runtime, claim.subject) # {} /\ form # ""
        /\ found.kind = "resolved" /\ found.lemma = claim.subject
    <3> DEFINE case == "nom"
    <3>1. FormFault(runtime, claim.subject, case) = "ok"
      BY <2>5
    <3> HIDE DEF case
    <3>2. LET g == Inflect(runtime, claim.subject, case, "sg") IN
          /\ Lexeme(runtime, claim.subject) # {} /\ g # ""
          /\ Lemmatize(runtime, g).kind = "resolved"
          /\ Lemmatize(runtime, g).lemma = claim.subject
      BY <3>1, FormsRoundTrip, Zenon
    <3> QED BY <3>2 DEF case
  <2>9. SubjectAgreement(runtime, claim.subject) = found.gender
    <3> DEFINE entry == CHOOSE e \in Lexeme(runtime, claim.subject) : TRUE
    <3>1. entry \in runtime.lexemes /\ entry.lemma = claim.subject
      BY <2>8 DEF Lexeme
    <3>2. PICK x \in Candidates(runtime, form) :
            found.lemma = x.entry.lemma /\ found.gender = x.entry.gender
      BY <2>8, ResolvedIsACandidate
    <3>3. x.entry \in runtime.lexemes
      BY DEF Candidates
    <3>4. entry = x.entry
      <4> HIDE DEF entry, found
      <4> QED BY <2>1, <2>8, <3>1, <3>2, <3>3, OneEntryPerLemma DEF found
    <3> QED BY <3>2, <3>4 DEF SubjectAgreement
  <2>10. /\ c.kind = "none" => before = << >> /\ ending = << >>
         /\ c.kind = "uninflected" => before = << >> /\ ending = object
         /\ (Governs(c) /\ Len(object) > 1) =>
              ending = object /\ before = IF embedded THEN << >> ELSE <<c.preposition>>
         /\ (Governs(c) /\ Len(object) = 1) =>
              /\ FormFault(runtime, object[1], c.case) = "ok"
              /\ ending = <<Inflect(runtime, object[1], c.case, "sg")>>
              /\ before = IF c.kind # "prep" THEN << >>
                          ELSE <<Allomorph(c.preposition, object[1])>>
    <3> HIDE DEF f
    <3> QED BY <2>2, <2>5, <2>6, ObjectIsSaid
  <2> DEFINE word == Inflect(runtime, object[1], c.case, "sg")
             preposition == Allomorph(c.preposition, object[1])
             uttered == IF c.kind = "prep" /\ ~ StartsWithWord(object, c.preposition)
                        THEN Tail(rest) ELSE rest
             U == STRING \cup {form, head, word, c.preposition, preposition}
  <2>11. object \in Seq(U)
    <3> HIDE DEF U
    <3>1. STRING \subseteq U
      BY DEF U
    <3> QED BY <2>2, <3>1, SeqMonotonic
  <2>12. /\ Len(object) = 1 \/ Len(object) > 1
         /\ StartsWithWord(object, c.preposition) => Len(object) > 1 /\ object[1] = c.preposition
    <3>1. Len(object) \in Nat /\ Len(object) > 0
      BY <2>2
    <3>2. \A n \in Nat : n > 0 => n = 1 \/ n > 1
      OBVIOUS
    <3>3. Len(object) = 1 \/ Len(object) > 1
      BY <3>1, <3>2, Zenon
    <3> QED BY <3>3 DEF StartsWithWord
  <2>13. /\ form \in U /\ head \in U /\ word \in U
         /\ c.preposition \in U /\ preposition \in U
    OBVIOUS
  <2>14. before \in Seq(U) /\ ending \in Seq(U)
    <3>1. <<word>> \in Seq(U) /\ <<preposition>> \in Seq(U) /\ <<c.preposition>> \in Seq(U)
      <4> HIDE DEF U, word, preposition, c
      <4> QED BY <2>13
    <3>2. << >> \in Seq(U)
      OBVIOUS
    <3>3. ending = << >> \/ ending = object \/ ending = <<word>>
      <4>1. c.kind \in {"none", "uninflected"} \/ Governs(c)
        BY <2>6 DEF Governs
      <4> HIDE DEF U, c, object, before, ending, np, f
      <4> QED BY <2>10, <2>12, <4>1, Zenon DEF word
    <3>4. before = << >> \/ before = <<preposition>> \/ before = <<c.preposition>>
      <4>1. c.kind \in {"none", "uninflected"} \/ Governs(c)
        BY <2>6 DEF Governs
      <4> HIDE DEF U, c, object, before, ending, np, f
      <4> QED BY <2>10, <2>12, <4>1, Zenon DEF preposition, embedded
    <3> HIDE DEF U, word, preposition, c, object, before, ending, np, f
    <3> QED BY <2>11, <3>1, <3>2, <3>3, <3>4
  <2>15. words[1] = form /\ words[2] = head /\ rest = before \o ending
    <3> HIDE DEF U, form, head, before, ending, word, preposition, c
    <3>1. LET w == <<form, head>> \o before \o ending IN
          w[1] = form /\ w[2] = head /\ SubSeq(w, 3, Len(w)) = before \o ending
      BY <2>13, <2>14, WordsComeApart
    <3> HIDE DEF words
    <3> QED BY <2>7, <3>1
  <2>16. \A p \in U : (<<p>> \o ending)[1] = p /\ Tail(<<p>> \o ending) = ending
    <3> HIDE DEF U, ending
    <3> QED BY <2>14, BehindOneWord
  <2>17. << >> \o ending = ending
    <3> HIDE DEF U, ending
    <3> QED BY <2>14
  <2>18. c.kind = "none" => rest = << >>
    <3> HIDE DEF c, before, ending, rest
    <3> QED BY <2>10, <2>15, <2>17
  <2>19. c.kind = "uninflected" => uttered = object
    <3>1. ASSUME c.kind = "uninflected" PROVE uttered = object
      <4>1. rest = object
        <5> HIDE DEF c, before, ending, rest, object
        <5> QED BY <2>10, <2>15, <2>17, <3>1
      <4> HIDE DEF rest, object, c
      <4> QED BY <3>1, <4>1
    <3> QED BY <3>1
  <2>20. ASSUME Governs(c), Len(object) > 1
         PROVE  uttered = object /\ (c.kind = "prep" => rest[1] \in {c.preposition})
    <3>1. ending = object /\ before = IF embedded THEN << >> ELSE <<c.preposition>>
      BY <2>10, <2>20, Zenon
    <3>2. CASE embedded
      <4>1. rest = object
        <5> HIDE DEF c, before, ending, rest, object, embedded
        <5> QED BY <2>15, <2>17, <3>1, <3>2
      <4>2. c.kind = "prep" => StartsWithWord(object, c.preposition)
        BY <3>2
      <4> HIDE DEF c, rest, object
      <4> QED BY <2>12, <4>1, <4>2
    <3>3. CASE ~ embedded
      <4>1. rest = <<c.preposition>> \o ending
        <5> HIDE DEF c, before, ending, rest, object, embedded
        <5> QED BY <2>15, <3>1, <3>3
      <4>2. rest[1] = c.preposition /\ Tail(rest) = ending
        <5> HIDE DEF c, before, ending, rest, object, embedded, U
        <5> QED BY <2>13, <2>16, <4>1
      <4>3. c.kind = "prep" /\ ~ StartsWithWord(object, c.preposition)
        BY <3>3
      <4> HIDE DEF c, rest, object, ending
      <4> QED BY <3>1, <4>2, <4>3
    <3> QED BY <3>2, <3>3
  <2>21. ASSUME Governs(c), Len(object) = 1
         PROVE  /\ uttered = <<word>> /\ FormFault(runtime, object[1], c.case) = "ok"
                /\ c.kind = "prep" => rest[1] = preposition
    <3>1. /\ FormFault(runtime, object[1], c.case) = "ok" /\ ending = <<word>>
          /\ before = IF c.kind # "prep" THEN << >> ELSE <<preposition>>
      BY <2>10, <2>21, Zenon
    <3>2. ~ StartsWithWord(object, c.preposition)
      BY <2>21 DEF StartsWithWord
    <3>3. CASE c.kind # "prep"
      <4>1. rest = ending
        <5> HIDE DEF c, before, ending, rest
        <5> QED BY <2>15, <2>17, <3>1, <3>3
      <4> HIDE DEF c, rest, ending, word
      <4> QED BY <3>1, <3>3, <4>1
    <3>4. CASE c.kind = "prep"
      <4>1. rest[1] = preposition /\ Tail(rest) = ending
        <5>1. rest = <<preposition>> \o ending
          <6> HIDE DEF c, before, ending, rest, preposition
          <6> QED BY <2>15, <3>1, <3>4
        <5> HIDE DEF c, before, ending, rest, preposition, U
        <5> QED BY <2>13, <2>16, <5>1
      <4> HIDE DEF c, rest, ending, word, preposition, object
      <4> QED BY <3>1, <3>2, <3>4, <4>1
    <3> QED BY <3>3, <3>4
  <2>22. c.kind = "prep" => rest[1] \in SpellingsOf(c.preposition)
    <3> SUFFICES ASSUME c.kind = "prep" PROVE rest[1] \in SpellingsOf(c.preposition)
      OBVIOUS
    <3>1. Governs(c)
      BY DEF Governs
    <3>2. CASE Len(object) > 1
      <4>1. rest[1] = c.preposition
        BY <2>20, <3>1, <3>2, Zenon
      <4> QED BY <4>1 DEF SpellingsOf
    <3>3. CASE Len(object) = 1
      <4>1. rest[1] = preposition
        BY <2>21, <3>1, <3>3, Zenon
      <4>2. preposition \in SpellingsOf(c.preposition)
        <5> DEFINE key == <<c.preposition, object[1]>>
        <5>1. CASE key \in DOMAIN Allomorphs
          <6>1. preposition = Allomorphs[key] /\ key[1] = c.preposition
            BY <5>1 DEF Allomorph
          <6> HIDE DEF key, preposition
          <6> QED BY <5>1, <6>1 DEF SpellingsOf
        <5>2. CASE key \notin DOMAIN Allomorphs
          BY <5>2 DEF Allomorph, SpellingsOf
        <5> QED BY <5>1, <5>2
      <4> QED BY <4>1, <4>2
    <3> QED BY <2>12, <3>2, <3>3
  <2>23. (Governs(c) /\ Len(object) = 1) =>
           /\ Len(uttered) = 1 /\ Lemmatize(runtime, uttered[1]).kind = "resolved"
           /\ Lemmatize(runtime, uttered[1]).lemma = object[1]
           /\ \E x \in Candidates(runtime, uttered[1]) :
                ParseCaseNumber(CaseNumbers[x.at]) = <<c.case, "sg">>
    <3> SUFFICES ASSUME Governs(c), Len(object) = 1
                 PROVE  /\ Len(uttered) = 1 /\ Lemmatize(runtime, uttered[1]).kind = "resolved"
                        /\ Lemmatize(runtime, uttered[1]).lemma = object[1]
                        /\ \E x \in Candidates(runtime, uttered[1]) :
                             ParseCaseNumber(CaseNumbers[x.at]) = <<c.case, "sg">>
      OBVIOUS
    <3>1. uttered = <<word>> /\ FormFault(runtime, object[1], c.case) = "ok"
      BY <2>21, Zenon
    <3>2. Len(uttered) = 1 /\ uttered[1] = word
      <4> HIDE DEF uttered, word
      <4> QED BY <3>1
    <3>3. c.case \in Cases
      BY <2>6
    <3> HIDE DEF uttered, c, object, found
    <3>4. LET g == Inflect(runtime, object[1], c.case, "sg") IN
          /\ Lexeme(runtime, object[1]) # {} /\ g # ""
          /\ Lemmatize(runtime, g).kind = "resolved"
          /\ Lemmatize(runtime, g).lemma = object[1]
      <4> DEFINE only == object[1]
                 case == c.case
      <4>1. FormFault(runtime, only, case) = "ok"
        BY <3>1
      <4> HIDE DEF only, case
      <4>2. LET g == Inflect(runtime, only, case, "sg") IN
            /\ Lexeme(runtime, only) # {} /\ g # ""
            /\ Lemmatize(runtime, g).kind = "resolved"
            /\ Lemmatize(runtime, g).lemma = only
        BY <4>1, FormsRoundTrip, Zenon
      <4> QED BY <4>2 DEF only, case
    <3>5. \E x \in Candidates(runtime, word) :
            ParseCaseNumber(CaseNumbers[x.at]) = <<c.case, "sg">>
      BY <3>3, <3>4, FormIsACandidate, Zenon
    <3> QED BY <3>2, <3>4, <3>5, Zenon
  <2>24. words[1] = form /\ (f.kind = "agreeing" => words[2] = Realize(f, found.gender))
    <3> HIDE DEF words, form, f, found
    <3> QED BY <2>9, <2>15
  <2> DEFINE subject == Lemmatize(runtime, words[1])
  <2>25. /\ subject.kind = "resolved" /\ subject.lemma = claim.subject
         /\ f.kind = "agreeing" => words[2] = Realize(f, subject.gender)
         /\ c.kind = "none" => rest = << >>
         /\ c.kind = "prep" => rest[1] \in SpellingsOf(c.preposition)
         /\ (c.kind = "uninflected" \/ (Governs(c) /\ Len(object) > 1)) => uttered = object
         /\ (Governs(c) /\ Len(object) = 1) =>
              /\ Len(uttered) = 1 /\ Lemmatize(runtime, uttered[1]).kind = "resolved"
              /\ Lemmatize(runtime, uttered[1]).lemma = object[1]
              /\ \E x \in Candidates(runtime, uttered[1]) :
                   ParseCaseNumber(CaseNumbers[x.at]) = <<c.case, "sg">>
    <3>1. subject = found
      BY <2>24
    <3> HIDE DEF c, f, object, words, form, np, before, ending, rest, uttered, word, subject, found
    <3> QED BY <2>8, <2>18, <2>19, <2>20, <2>22, <2>23, <2>24, <3>1, Zenon
  <2> QED BY <2>1, <2>25, Zenon DEF ThesisReadsBack
<1>3. QED
  BY <1>1, <1>2, SurfaceStep, PTL DEF SurfaceSpec
=============================================================================
