-------------------------- MODULE StanceDecisions --------------------------
(***************************************************************************)
(* System stances: who may record one, for which turn, and what a later    *)
(* turn makes of it.                                                       *)
(*                                                                         *)
(* A stance decision enters a session after a turn, by one of three        *)
(* wrappers of the pipeline: affirming the turn's topic, explicit from the *)
(* embedding service, or signed by an external issuer against the context  *)
(* prepare_stance_request_context gave it.  Decisions land in a bounded    *)
(* ring.  The next turn reads the ring (temporal contradictions), the      *)
(* guard's verdict on the previous turn (doubt and clarification) and      *)
(* proposes recoveries that nothing applies.                               *)
(*                                                                         *)
(* An issuer may delay, lose or deliver twice what it signs; the process   *)
(* may stop between a turn and the save of its session.                    *)
(***************************************************************************)
EXTENDS Integers, Sequences, FiniteSets

CONSTANTS
  Texts, Topics,      \* user texts, and the topics they normalise to
  TopicOf,            \* parse_and_normalize_topic, a function of the text
  UnfitTopics,        \* topics StanceTopic::new refuses
  Capacity,           \* observations the provenance ring keeps (64)
  Defects,            \* what may be wrong with an attestation itself
  Times,              \* verification times a caller injects
  Confidences,        \* field confidence, in hundredths
  MaxUnsaved,         \* turns a host may run before it saves the session
  MaxTurns, MaxIssued \* bounds on turn numbers and on attestations

StanceAssumption ==
  /\ TopicOf \in [Texts -> Topics] /\ UnfitTopics \subseteq Topics
  /\ Defects \subseteq {"none", "malformed", "audience", "session",
                        "too_long", "key", "signature"}
  /\ Times \subseteq Nat /\ Confidences \subseteq 0 .. 100
  /\ {Capacity, MaxUnsaved, MaxTurns, MaxIssued} \subseteq Nat

VARIABLES
  session,   \* the loaded SystemState: what this module reads and writes of it
  disk,      \* the last saved copy, with its decisions
  issued,    \* attestations the issuer has signed, in order
  decisions, \* history: every decision recorded by the loaded session's past
  last       \* history: what the latest turn saw and did

stanceVars == <<session, disk, issued, decisions, last>>

Polarities == {"Affirmed", "Rejected"}
NoTopic == "no topic"
NoTurn == [result |-> "none"]

FreshSession == [turn |-> 0, topic |-> NoTopic, verdict |-> "none", ring |-> <<>>]

LatestOf(s, n) == IF Len(s) > n THEN SubSeq(s, Len(s) - n + 1, Len(s)) ELSE s
RingSize == IF Capacity < 1 THEN 1 ELSE Capacity

(* The first check that fails names the verdict. *)
Verdict(checks, accepted) ==
  LET failing == {i \in 1 .. Len(checks) : ~checks[i].ok}
  IN  IF failing = {} THEN accepted
      ELSE checks[CHOOSE i \in failing : \A j \in failing : i <= j].why

Check(why, ok) == [why |-> why, ok |-> ok]
----------------------------------------------------------------------------
(* BoundedStanceProvenance::record: one observation per idempotency key.   *)
Record(ring, o) ==
  IF \E i \in 1 .. Len(ring) : ring[i] = o THEN ring
  ELSE LatestOf(Append(ring, o), RingSize)

Observation(turn, topic, polarity) ==
  [turn |-> turn, topic |-> topic, polarity |-> polarity, source |-> "SystemDecision"]

ContradictsFromNextTurn(ring, current) ==
  {i \in 1 .. Len(ring) : /\ ring[i].turn + 1 < current.turn
                          /\ ring[i].topic = current.topic
                          /\ ring[i].polarity # current.polarity}

(* detect_temporal_contradiction: earlier system decisions against this one. *)
Contradicts(ring, current) ==
  {i \in 1 .. Len(ring) : /\ ring[i].source = "SystemDecision"
                          /\ ring[i].turn < current.turn
                          /\ ring[i].topic = current.topic
                          /\ ring[i].polarity # current.polarity}

(* Reading a saved ring back drops what exceeds its capacity. *)
Loaded(s) == [s EXCEPT !.ring = LatestOf(@, RingSize)]

(* The stance request context a caller hands to the issuer.  Nothing moves. *)
RequestContext(text) ==
  [turn |-> session.turn, text |-> text, topic |-> TopicOf[text]]

VerifySignedForAnyTurn(a, text, now) ==
  IF a.defect = "none" /\ a.text = text /\ now \in a.issuedAt .. a.expiresAt
  THEN "Verified" ELSE "Rejected"

(* verify_signed_stance_decision, before the turn runs. *)
VerifySigned(a, text, now) ==
  Verdict(<<Check("Malformed", a.defect # "malformed"),
            Check("AudienceMismatch", a.defect # "audience"),
            Check("SessionMismatch", a.defect # "session"),
            Check("TurnMismatch", a.turn = session.turn),
            Check("RequestDigestMismatch", a.text = text),
            Check("NotYetValid", now >= a.issuedAt),
            Check("Expired", now <= a.expiresAt),
            Check("ValidityWindowTooLong", a.defect # "too_long"),
            Check("UnknownIssuerKey", a.defect # "key"),
            Check("InvalidSignature", a.defect # "signature")>>, "Verified")
----------------------------------------------------------------------------
(* Doubt, in hundredths: compute_doubt and route_for_doubt. *)
ComputeDoubt(confidence, driver) ==
  LET base == 100 - confidence
  IN  CASE driver = "ConatusGate"    -> IF base < 90 THEN 90 ELSE base
        [] driver = "Counterfactual" -> IF base > 80 THEN 100 ELSE base + 20
        [] OTHER                     -> base

DoubtRoute(doubt, recalled) ==
  IF doubt < 75 THEN "RetainCurrent"
  ELSE IF recalled # <<>> THEN "SuppressedByRecentDecision"
  ELSE "Clarify"

(***************************************************************************)
(* immediate_confirmed_same_topic: the store holds the previous decision   *)
(* alone, at the current turn, so recency and the recall limit cannot drop *)
(* it; the topic and the guard's confirmation decide.                      *)
(***************************************************************************)
ImmediateSameTopic(topic) ==
  IF session.verdict \in {"Allowed", "InvariantWarn"} /\ session.topic = topic
  THEN <<session.turn>> ELSE <<>>

DoubtShadowOfAnyTurn(topic, confidence) ==
  DoubtRoute(ComputeDoubt(confidence, "Other"),
             IF session.topic = topic THEN <<session.turn>> ELSE <<>>)

(* record_doubt_shadow: the route proposed, never applied. *)
DoubtShadow(topic, confidence) ==
  DoubtRoute(ComputeDoubt(confidence, "Other"), ImmediateSameTopic(topic))

DoubtfulModes == {"Define", "Assert", "Connect", "Reflect"}

(* clarification_decision, with clarification LimitedEnabled: does this turn ask? *)
Asks(topic, mode, confidence, suppression) ==
  LET doubt == ComputeDoubt(confidence, "Other")
      proposed == DoubtRoute(doubt, <<>>)
      recalled == IF suppression # "Disabled" /\ proposed = "Clarify"
                  THEN ImmediateSameTopic(topic) ELSE <<>>
  IN  /\ mode \in DoubtfulModes /\ proposed = "Clarify"
      /\ ~ /\ suppression = "LimitedEnabled"
           /\ DoubtRoute(doubt, recalled) = "SuppressedByRecentDecision"

(* record_anomaly_shadow: the first admitted evidence, self-reference and   *)
(* anti-conatus before a stance contradiction with the turn to come.        *)
AnomalyShadow(topic, collapse, antiConatus) ==
  LET current == Observation(session.turn + 1, topic, "Affirmed")
  IN  CASE collapse    -> "SelfReferentialCollapse"
        [] antiConatus -> "AntiConatus"
        [] ~collapse /\ ~antiConatus /\ topic \notin UnfitTopics
             /\ Contradicts(session.ring, current) # {} -> "Temporal"
        [] OTHER       -> "not_detected"
----------------------------------------------------------------------------
(* The issuer signs the context of the session as it is now, valid at time 1. *)
Issue(text, topic, polarity, defect) ==
  /\ Len(issued) < MaxIssued /\ last = NoTurn
  /\ RequestContext(text).topic \notin UnfitTopics /\ topic \notin UnfitTopics
  /\ issued' = Append(issued,
       [turn |-> RequestContext(text).turn, text |-> text, topic |-> topic,
        polarity |-> polarity, issuedAt |-> 1, expiresAt |-> 1, defect |-> defect])
  /\ UNCHANGED <<session, disk, decisions, last>>

(***************************************************************************)
(* process_turn as the wrappers see it.  A failed stage restores the       *)
(* session; a refused turn counts, with its topic and its verdict.         *)
(***************************************************************************)
AfterTurn(topic, result) ==
  IF result = "Failed" THEN session
  ELSE [session EXCEPT !.turn = @ + 1, !.topic = topic, !.verdict = result]

Blocked(result) == result \in {"Failed", "BlockedByContract"}

(* The affirmed recorder takes the topic the turn left behind. *)
Affirms(topic, result) ==
  IF Blocked(result) \/ topic \in UnfitTopics THEN {}
  ELSE {[topic |-> topic, polarity |-> "Affirmed", by |-> 0]}

(* record_explicit_stance_decision_if_allowed *)
Explicit(decision, topic, result) ==
  IF Blocked(result) \/ topic # decision.topic THEN {} ELSE {decision}

(* The signed wrapper verifies first, runs the turn in any case, then records. *)
Signed(i, text, result, now) ==
  IF VerifySigned(issued[i], text, now) # "Verified" THEN {}
  ELSE Explicit([topic |-> issued[i].topic, polarity |-> issued[i].polarity,
                 by |-> i], TopicOf[text], result)

MayRun == session.turn < MaxTurns /\ session.turn - disk.session.turn < MaxUnsaved

Results == {"Allowed", "InvariantWarn", "BlockedByContract", "Failed"}

(* Stances are decided on turns without cognitive modes ... *)
DecidingTurn(text, result, decided) ==
  LET after == AfterTurn(TopicOf[text], result)
  IN  /\ MayRun
      /\ \/ decided = {} /\ session' = after /\ decisions' = decisions
         \/ \E d \in decided :
              LET o == Observation(after.turn, d.topic, d.polarity)
              IN  /\ session' = [after EXCEPT !.ring = Record(@, o)]
                  /\ decisions' = Append(decisions, [what |-> o, by |-> d.by, text |-> text])
      /\ last' = NoTurn
      /\ UNCHANGED <<disk, issued>>

AffirmedTurn(text, result) == DecidingTurn(text, result, Affirms(TopicOf[text], result))

ExplicitTurn(text, result, topic, polarity) ==
  DecidingTurn(text, result,
    Explicit([topic |-> topic, polarity |-> polarity, by |-> 0], TopicOf[text], result))

SignedTurn(i, text, result, now) == DecidingTurn(text, result, Signed(i, text, result, now))

(***************************************************************************)
(* ... and the cognitive modes run on turns that decide none.  They do not *)
(* read attestations, so they are explored without any.                    *)
(***************************************************************************)
CognitiveTurn(text, result, confidence, mode, suppression, collapse, antiConatus) ==
  LET topic == TopicOf[text]
  IN  /\ MayRun /\ issued = <<>>
      /\ session' = AfterTurn(topic, result)
      /\ last' = [topic |-> topic, eligible |-> mode \in DoubtfulModes,
                  limited |-> suppression = "LimitedEnabled",
                  asked |-> Asks(topic, mode, confidence, suppression),
                  shadow |-> DoubtShadow(topic, confidence),
                  stronger |-> collapse \/ antiConatus,
                  anomaly |-> AnomalyShadow(topic, collapse, antiConatus)]
      /\ UNCHANGED <<disk, issued, decisions>>

Save ==
  /\ disk' = [session |-> session, decisions |-> decisions]
  /\ UNCHANGED <<session, issued, decisions, last>>

(* The process stops and another loads what was saved. *)
Restart ==
  /\ session' = Loaded(disk.session) /\ decisions' = disk.decisions /\ last' = NoTurn
  /\ UNCHANGED <<disk, issued>>

StanceInit ==
  /\ session = FreshSession /\ disk = [session |-> FreshSession, decisions |-> <<>>]
  /\ issued = <<>> /\ decisions = <<>> /\ last = NoTurn

StanceNext ==
  \/ \E text \in Texts, topic \in Topics, p \in Polarities, d \in Defects :
       Issue(text, topic, p, d)
  \/ \E text \in Texts, r \in Results : AffirmedTurn(text, r)
  \/ \E text \in Texts, r \in Results, topic \in Topics \ UnfitTopics, p \in Polarities :
       ExplicitTurn(text, r, topic, p)
  \/ \E i \in 1 .. Len(issued), text \in Texts, r \in Results, now \in Times :
       SignedTurn(i, text, r, now)
  \/ \E text \in Texts, r \in Results, c \in Confidences, mode \in {"Define", "Greeting"},
        s \in {"Disabled", "TraceOnly", "LimitedEnabled"}, collapse, anti \in BOOLEAN :
       CognitiveTurn(text, r, c, mode, s, collapse, anti)
  \/ Save
  \/ Restart

StanceSpec == StanceInit /\ [][StanceNext]_stanceVars
----------------------------------------------------------------------------
(***************************************************************************)
(* A signed decision stands in a session's past at most once, on the turn  *)
(* that follows the state it was issued against, for the very text and     *)
(* polarity it was issued for, whatever is delivered late, twice, after a  *)
(* refusal or after a restart (ADR-0025: a persisted attestation is never  *)
(* accepted for a later state).                                            *)
(***************************************************************************)
HonouredOnceWhereIssued ==
  \A i \in 1 .. Len(decisions) : decisions[i].by # 0 =>
    LET a == issued[decisions[i].by]
    IN  /\ decisions[i].what = Observation(a.turn + 1, a.topic, a.polarity)
        /\ decisions[i].text = a.text /\ a.defect = "none"
        /\ \A j \in 1 .. Len(decisions) : decisions[j].by = decisions[i].by => j = i

(***************************************************************************)
(* A turn is told of a contradiction exactly when a rejection of its topic *)
(* is among the last Capacity decisions of the session's whole past: no    *)
(* save, reload, refusal or eviction hides one, and none is invented.      *)
(***************************************************************************)
ReversalIsNoticed ==
  (last # NoTurn /\ ~last.stronger /\ last.topic \notin UnfitTopics) =>
    (last.anomaly = "Temporal" <=>
       \E i \in 1 .. Len(decisions) : /\ i > Len(decisions) - RingSize
                                      /\ decisions[i].what.topic = last.topic
                                      /\ decisions[i].what.polarity = "Rejected")

(***************************************************************************)
(* The doubt shadow, computed for evidence by its own code, foretells what *)
(* the enabled clarification does: with suppression on, an eligible turn   *)
(* asks exactly when the shadow proposed to.                               *)
(***************************************************************************)
ShadowForetells ==
  (last # NoTurn /\ last.eligible /\ last.limited) =>
    (last.asked <=> last.shadow = "Clarify")
=============================================================================
