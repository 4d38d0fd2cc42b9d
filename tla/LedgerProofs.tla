---------------------------- MODULE LedgerProofs ----------------------------
(***************************************************************************)
(* Three of the ledgers.  Delegations: the graph stays acyclic and nobody  *)
(* empowers themselves, for any principals, permissions and sequence of    *)
(* delegations.  Commitments: every claim keeps its identifier and its     *)
(* history, for any claims, limits and sequence of the store's operations. *)
(* Stances: for any texts, topics, ring capacity and number of turns,      *)
(* attestations, saves and restarts.                                       *)
(***************************************************************************)
EXTENDS AuthorityMap, CommitmentStore, StanceDecisions, SequenceTheorems, TLAPS

(* A node reaches itself and what its successors lead to. *)
LEMMA ReachIsClosed ==
  ASSUME NEW D \in SUBSET Delegation, NEW p \in Principals
  PROVE  /\ Reach(p, D) \subseteq Principals
         /\ p \in Reach(p, D)
         /\ ClosedDownwards(Reach(p, D), D)
  BY DEF Reach, ClosedDownwards, Delegation

(* A closed set that holds a node holds all it reaches. *)
LEMMA ReachIsLeast ==
  ASSUME NEW D \in SUBSET Delegation, NEW p, NEW S \in SUBSET Principals,
         p \in S, ClosedDownwards(S, D)
  PROVE  Reach(p, D) \subseteq S
  BY DEF Reach

(* The same upwards: a node is among its delegators, and so are theirs. *)
LEMMA DelegatorsAreClosed ==
  ASSUME NEW D \in SUBSET Delegation, NEW p \in Principals
  PROVE  /\ Delegators(p, D) \subseteq Principals
         /\ p \in Delegators(p, D)
         /\ ClosedUpwards(Delegators(p, D), D)
  BY DEF Delegators, ClosedUpwards, Delegation

LEMMA DelegatorsAreLeast ==
  ASSUME NEW D \in SUBSET Delegation, NEW p, NEW S \in SUBSET Principals,
         p \in S, ClosedUpwards(S, D)
  PROVE  Delegators(p, D) \subseteq S
  BY DEF Delegators

(* What a reached node reaches is reached. *)
LEMMA ReachIsTransitive ==
  ASSUME NEW D \in SUBSET Delegation, NEW p \in Principals, NEW q \in Reach(p, D)
  PROVE  Reach(q, D) \subseteq Reach(p, D)
  BY ReachIsClosed, ReachIsLeast

(* An edge from a node outside a reach set adds nothing to it. *)
LEMMA EdgeOutsideAddsNothing ==
  ASSUME NEW D \in SUBSET Delegation, NEW e \in Delegation, NEW p \in Principals,
         e.from \notin Reach(p, D)
  PROVE  Reach(p, D \cup {e}) \subseteq Reach(p, D)
<1>1. p \in Reach(p, D) /\ Reach(p, D) \in SUBSET Principals
  BY ReachIsClosed
<1>2. ClosedDownwards(Reach(p, D), D \cup {e})
  BY ReachIsClosed DEF ClosedDownwards
<1>3. D \cup {e} \in SUBSET Delegation
  OBVIOUS
<1> QED BY <1>1, <1>2, <1>3, ReachIsLeast

(* Who delegates to a principal, at any distance, has that principal below. *)
LEMMA DelegatorsReachBack ==
  ASSUME NEW D \in SUBSET Delegation, NEW p \in Principals, NEW q \in Delegators(p, D)
  PROVE  p \in Reach(q, D)
<1> DEFINE S == {n \in Principals : p \in Reach(n, D)}
<1>1. p \in S
  BY ReachIsClosed
<1>2. ClosedUpwards(S, D)
  <2> SUFFICES ASSUME NEW d \in D, d.to \in S PROVE d.from \in S
    BY DEF ClosedUpwards
  <2>1. d.from \in Principals /\ d.to \in Principals
    BY DEF Delegation
  <2>2. d.to \in Reach(d.from, D)
    BY <2>1, ReachIsClosed DEF ClosedDownwards
  <2>3. Reach(d.to, D) \subseteq Reach(d.from, D)
    BY <2>1, <2>2, ReachIsTransitive
  <2> QED BY <2>1, <2>3
<1>3. S \in SUBSET Principals
  OBVIOUS
<1>4. Delegators(p, D) \subseteq S
  <2> HIDE DEF S
  <2> QED BY <1>1, <1>2, <1>3, DelegatorsAreLeast
<1> QED BY <1>4

(***************************************************************************)
(* One more delegation keeps the graph acyclic: it would have to close a   *)
(* cycle that leads back to its own delegator, which delegate looked for.  *)
(***************************************************************************)
LEMMA DelegateKeepsAcyclic ==
  ASSUME NEW D \in SUBSET Delegation, NEW e \in Delegation,
         \A d \in D : d.from \notin Reach(d.to, D),
         e.from \notin Reach(e.to, D)
  PROVE  \A d \in D \cup {e} : d.from \notin Reach(d.to, D \cup {e})
<1> DEFINE E == D \cup {e}
<1>0. E \in SUBSET Delegation /\ e.from \in Principals /\ e.to \in Principals
  BY DEF Delegation
<1>1. Reach(e.to, E) \subseteq Reach(e.to, D)
  BY <1>0, EdgeOutsideAddsNothing
<1>2. ASSUME NEW d \in D PROVE d.from \notin Reach(d.to, E)
  <2>1. d.from \in Principals /\ d.to \in Principals
    BY DEF Delegation
  <2>2. CASE e.from \notin Reach(d.to, D)
    BY <2>1, <2>2, EdgeOutsideAddsNothing
  <2>3. CASE e.from \in Reach(d.to, D)
    <3> DEFINE S == Reach(d.to, D) \cup Reach(e.to, D)
    <3>1. S \in SUBSET Principals /\ d.to \in S
      BY <2>1, <1>0, ReachIsClosed
    <3>2. ClosedDownwards(S, E)
      <4>1. ClosedDownwards(Reach(d.to, D), D) /\ ClosedDownwards(Reach(e.to, D), D)
        BY <2>1, <1>0, ReachIsClosed
      <4>2. e.to \in S
        BY <1>0, ReachIsClosed
      <4> QED BY <4>1, <4>2 DEF ClosedDownwards
    <3>3. Reach(d.to, E) \subseteq S
      <4> HIDE DEF S
      <4> QED BY <3>1, <3>2, <1>0, ReachIsLeast
    <3>4. d.from \notin Reach(e.to, D)
      <4> SUFFICES ASSUME d.from \in Reach(e.to, D) PROVE FALSE
        OBVIOUS
      <4>1. d.to \in Reach(e.to, D)
        BY <1>0, ReachIsClosed DEF ClosedDownwards
      <4>2. Reach(d.to, D) \subseteq Reach(e.to, D)
        BY <4>1, <1>0, ReachIsTransitive
      <4> QED BY <4>2, <2>3
    <3> QED BY <3>3, <3>4
  <2> QED BY <2>2, <2>3
<1> QED BY <1>1, <1>2

(* The delegation graph is well-typed and never has a cycle. *)
THEOREM DelegationsAreAcyclic == AuthoritySpec => [](AuthorityTypeOK /\ NoCycle)
<1>1. AuthorityInit => AuthorityTypeOK /\ NoCycle
  BY DEF AuthorityInit, AuthorityTypeOK, NoCycle
<1>2. AuthorityTypeOK /\ NoCycle /\ [AuthorityNext]_delegations
        => (AuthorityTypeOK /\ NoCycle)'
  <2> SUFFICES ASSUME AuthorityTypeOK, NoCycle, [AuthorityNext]_delegations
               PROVE  (AuthorityTypeOK /\ NoCycle)'
    OBVIOUS
  <2>1. CASE UNCHANGED delegations
    BY <2>1 DEF AuthorityTypeOK, NoCycle, Reach, ClosedDownwards
  <2>2. ASSUME NEW from \in Principals, NEW to \in Principals,
               NEW permissions \in SUBSET Permissions, Delegate(from, to, permissions)
        PROVE  (AuthorityTypeOK /\ NoCycle)'
    <3> DEFINE e == [from |-> from, to |-> to, permissions |-> permissions]
    <3>1. e \in Delegation /\ e.from = from /\ e.to = to
      BY DEF Delegation
    <3>2. delegations' = delegations \cup {e} /\ e.from \notin Reach(e.to, delegations)
      BY <2>2 DEF Delegate, WouldCreateCycle
    <3>3. \A d \in delegations \cup {e} : d.from \notin Reach(d.to, delegations \cup {e})
      <4> HIDE DEF e
      <4> QED BY <3>1, <3>2, DelegateKeepsAcyclic DEF AuthorityTypeOK, NoCycle
    <3> QED BY <3>1, <3>2, <3>3 DEF AuthorityTypeOK, NoCycle
  <2> QED BY <2>1, <2>2 DEF AuthorityNext
<1> QED BY <1>1, <1>2, PTL DEF AuthoritySpec

(* For all principals and permissions, whatever is delegated in whatever   *)
(* order: taking a delegation away never takes anything from its maker.    *)
THEOREM NobodyGainsByDelegating == AuthoritySpec => []NobodyEmpowersThemselves
<1>1. AuthorityTypeOK /\ NoCycle => NobodyEmpowersThemselves
  <2> SUFFICES ASSUME AuthorityTypeOK, NoCycle, NEW d \in delegations, NEW x \in Permissions
               PROVE  HasPermission(d.from, x, delegations)
                        <=> HasPermission(d.from, x, delegations \ {d})
    BY DEF NobodyEmpowersThemselves
  <2> DEFINE D == delegations
             R == delegations \ {d}
  <2>1. D \in SUBSET Delegation /\ R \in SUBSET Delegation
        /\ d.from \in Principals /\ d.to \in Principals
    BY DEF AuthorityTypeOK, Delegation
  <2>2. d.to \notin Delegators(d.from, D)
    BY <2>1, DelegatorsReachBack DEF NoCycle
  <2>3. Delegators(d.from, R) \subseteq Delegators(d.from, D)
    <3>1. ClosedUpwards(Delegators(d.from, D), R)
      BY <2>1, DelegatorsAreClosed DEF ClosedUpwards
    <3> QED BY <2>1, <3>1, DelegatorsAreClosed, DelegatorsAreLeast
  <2>4. Delegators(d.from, D) \subseteq Delegators(d.from, R)
    <3>1. ClosedUpwards(Delegators(d.from, R), D)
      BY <2>1, <2>2, <2>3, DelegatorsAreClosed DEF ClosedUpwards
    <3> QED BY <2>1, <3>1, DelegatorsAreClosed, DelegatorsAreLeast
  <2> QED BY <2>2, <2>3, <2>4 DEF HasPermission
<1> QED BY <1>1, DelegationsAreAcyclic, PTL

-----------------------------------------------------------------------------
Events == [kind : {"Committed", "Revised", "Promoted"}, turn : Turns \cup {0}]

(* What is stored under an identifier: functions of the identifiers given  *)
(* out, and for an active claim a lineage that ends in its last turn.       *)
Stored(f) == f = [id \in Ids(f) |-> f[id]] /\ Ids(f) \subseteq 0 .. nextId - 1

Explained(id) ==
  /\ id \in Ids(lineage) /\ Len(lineage[id]) # 0
  /\ lineage[id][Len(lineage[id])].turn = active[id].turn

ClaimInv ==
  /\ nextId \in Nat
  /\ Stored(active) /\ Stored(quarantine) /\ Stored(lineage)
  /\ \A id \in Ids(lineage) : lineage[id] \in Seq(Events)
  /\ \A id \in Ids(active) : Explained(id)

(* A lineage with one more event.                                          *)
LEMMA OneMoreEvent ==
  ASSUME NEW s \in Seq(Events), NEW e \in Events
  PROVE  LET r == Append(s, e)
         IN  /\ r \in Seq(Events) /\ Len(r) = Len(s) + 1 /\ Len(r) # 0
             /\ r[Len(r)] = e /\ s = SubSeq(r, 1, Len(s))
<1> DEFINE r == Append(s, e)
<1>1. /\ r \in Seq(Events) /\ Len(r) = Len(s) + 1 /\ Len(r) # 0 /\ r[Len(r)] = e
      /\ \A i \in 1 .. Len(s) : r[i] = s[i]
  OBVIOUS
<1> HIDE DEF r
<1>2. /\ SubSeq(r, 1, Len(s)) \in Seq(Events) /\ Len(SubSeq(r, 1, Len(s))) = Len(s)
      /\ \A i \in 1 .. Len(s) : SubSeq(r, 1, Len(s))[i] = s[i]
  BY <1>1
<1>3. s = SubSeq(r, 1, Len(s))
  BY <1>2
<1> QED BY <1>1, <1>3 DEF r

LEMMA HistoryIsOfEvents == ASSUME ClaimInv, NEW id PROVE History(id) \in Seq(Events)
  BY DEF ClaimInv, History

(* An operation keeps what is held, and appends what it did to the lineage *)
(* of each claim it makes active.                                          *)
Accounts(id) ==
  (id \notin Ids(active) \/ active'[id] # active[id]) =>
    /\ Len(lineage'[id]) = Len(History(id)) + 1
    /\ History(id) = SubSeq(lineage'[id], 1, Len(History(id)))

Accounted ==
  /\ ClaimInv'
  /\ Held \subseteq Ids(active') \cup Ids(quarantine')
  /\ \A id \in Ids(active') : Accounts(id)

LEMMA CommitAccounts ==
  ASSUME ClaimInv, NEW claim, NEW turn \in Turns \cup {0}, Commit(claim, turn)
  PROVE  Accounted
<1> DEFINE e == Event("Committed", turn)
<1>0. /\ nextId \in Nat /\ nextId + 1 \in Nat
      /\ nextId \notin Ids(active) /\ nextId \notin Ids(lineage)
      /\ History(nextId) = << >>
  BY DEF ClaimInv, Stored, History
<1>1. e \in Events /\ e.turn = turn
  BY DEF Event, Events
<1> HIDE DEF e
<1>2. /\ Ids(active') = Ids(active) \cup {nextId} /\ Ids(lineage') = Ids(lineage) \cup {nextId}
      /\ active'[nextId].turn = turn /\ lineage'[nextId] = <<e>>
      /\ \A id \in Ids(active) : active'[id] = active[id]
      /\ \A id \in Ids(lineage) : lineage'[id] = lineage[id]
  BY <1>0 DEF Commit, Filed, Ids, Entry, e
<1>3. <<e>> \in Seq(Events) /\ Len(<<e>>) = 1 /\ <<e>>[1] = e /\ << >> = SubSeq(<<e>>, 1, 0)
  BY <1>1
<1>4. Stored(active)' /\ Stored(quarantine)' /\ Stored(lineage)'
  BY <1>0, <1>2 DEF Commit, ClaimInv, Stored, Ids, Filed
<1>5. \A id \in Ids(lineage') : lineage'[id] \in Seq(Events)
  BY <1>2, <1>3 DEF ClaimInv
<1>6. \A id \in Ids(active') : Explained(id)'
  BY <1>1, <1>2, <1>3 DEF ClaimInv, Explained
<1>7. ClaimInv'
  BY <1>0, <1>4, <1>5, <1>6 DEF ClaimInv, Commit
<1>8. Held \subseteq Ids(active') \cup Ids(quarantine')
  BY <1>2 DEF Held, Commit
<1>9. Accounts(nextId)
  <2>1. /\ Len(History(nextId)) = 0 /\ Len(lineage'[nextId]) = 1
        /\ SubSeq(lineage'[nextId], 1, 0) = << >>
    BY <1>0, <1>2, <1>3
  <2> QED BY <1>0, <2>1 DEF Accounts
<1>10. \A id \in Ids(active) : Accounts(id)
  BY <1>2 DEF Accounts
<1> QED BY <1>2, <1>7, <1>8, <1>9, <1>10 DEF Accounted

LEMMA QuarantineAccounts ==
  ASSUME ClaimInv, NEW claim, NEW turn, QuarantineObservation(claim, turn)
  PROVE  Accounted
<1>1. nextId \in Nat /\ nextId + 1 \in Nat /\ nextId' = nextId + 1
      /\ UNCHANGED <<active, lineage>>
  BY DEF ClaimInv, QuarantineObservation
<1>2. Ids(quarantine') = Ids(quarantine) \cup {nextId}
  BY DEF QuarantineObservation, Filed, Ids
<1>3. Stored(active)' /\ Stored(quarantine)' /\ Stored(lineage)'
  BY <1>1, <1>2 DEF QuarantineObservation, ClaimInv, Stored, Ids, Filed
<1>4. ClaimInv'
  BY <1>1, <1>3 DEF ClaimInv, Explained
<1>5. Held \subseteq Ids(active') \cup Ids(quarantine')
  BY <1>1, <1>2 DEF Held
<1> QED BY <1>1, <1>4, <1>5 DEF Accounted, Accounts

LEMMA ReviseAccounts ==
  ASSUME ClaimInv, NEW id, NEW claim, NEW turn \in Turns, Revise(id, claim, turn)
  PROVE  Accounted
<1> DEFINE e == Event("Revised", turn)
           s == History(id)
           r == Append(s, e)
<1>0. nextId \in Nat /\ id \in Ids(active) /\ id \in Ids(lineage) /\ UNCHANGED <<quarantine, nextId>>
  BY DEF ClaimInv, Explained, Revise
<1>1. e \in Events /\ e.turn = turn /\ s \in Seq(Events)
  BY HistoryIsOfEvents DEF Event, Events
<1> HIDE DEF e, s
<1>2. /\ r \in Seq(Events) /\ Len(r) = Len(s) + 1 /\ Len(r) # 0
      /\ r[Len(r)] = e /\ s = SubSeq(r, 1, Len(s))
  BY <1>1, OneMoreEvent
<1>3. /\ Ids(active') = Ids(active) /\ Ids(lineage') = Ids(lineage)
      /\ active'[id].turn = turn /\ lineage'[id] = r
      /\ \A k \in Ids(active) : k # id => active'[k] = active[k]
      /\ \A k \in Ids(lineage) : k # id => lineage'[k] = lineage[k]
  BY <1>0 DEF Revise, ClaimInv, Stored, Filed, Ids, Entry, e, s
<1> HIDE DEF r
<1>4. Stored(active)' /\ Stored(quarantine)' /\ Stored(lineage)'
  BY <1>0, <1>3 DEF Revise, ClaimInv, Stored, Ids, Filed
<1>5. \A k \in Ids(lineage') : lineage'[k] \in Seq(Events)
  BY <1>2, <1>3 DEF ClaimInv
<1>6. \A k \in Ids(active') : Explained(k)'
  BY <1>1, <1>2, <1>3 DEF ClaimInv, Explained
<1>7. ClaimInv'
  BY <1>0, <1>4, <1>5, <1>6 DEF ClaimInv
<1>8. Held \subseteq Ids(active') \cup Ids(quarantine')
  BY <1>0, <1>3 DEF Held
<1>9. Accounts(id)
  BY <1>2, <1>3 DEF Accounts, s
<1>10. \A k \in Ids(active) : k # id => Accounts(k)
  BY <1>3 DEF Accounts
<1> QED BY <1>3, <1>7, <1>8, <1>9, <1>10 DEF Accounted

LEMMA PromotionAccounts ==
  ASSUME ClaimInv, NEW topic, NEW case, NEW turn \in Turns,
         PromoteMatchingQuarantine(topic, case, turn)
  PROVE  Accounted
<1> DEFINE promoted == {id \in Ids(quarantine) : /\ quarantine[id].claim.topic = topic
                                                 /\ quarantine[id].claim.case = case}
           e == Event("Promoted", turn)
<1>0. nextId \in Nat /\ nextId' = nextId /\ promoted \subseteq Ids(quarantine)
  BY DEF ClaimInv, PromoteMatchingQuarantine
<1>1. e \in Events /\ e.turn = turn
  BY DEF Event, Events
<1>2. /\ Ids(quarantine') = Ids(quarantine) \ promoted
      /\ Ids(active') = Ids(active) \cup promoted /\ Ids(lineage') = Ids(lineage) \cup promoted
      /\ \A id \in promoted : active'[id].turn = turn /\ lineage'[id] = Append(History(id), e)
      /\ \A id \in Ids(active) \ promoted : active'[id] = active[id]
      /\ \A id \in Ids(lineage) \ promoted : lineage'[id] = lineage[id]
      /\ quarantine' = [id \in Ids(quarantine') |-> quarantine'[id]]
      /\ active' = [id \in Ids(active') |-> active'[id]]
      /\ lineage' = [id \in Ids(lineage') |-> lineage'[id]]
  BY DEF PromoteMatchingQuarantine, Ids, Entry
<1> HIDE DEF promoted, e
<1>3. ASSUME NEW id \in promoted
      PROVE  /\ lineage'[id] \in Seq(Events) /\ Len(lineage'[id]) = Len(History(id)) + 1
             /\ Len(lineage'[id]) # 0 /\ lineage'[id][Len(lineage'[id])] = e
             /\ History(id) = SubSeq(lineage'[id], 1, Len(History(id)))
  <2>1. History(id) \in Seq(Events) /\ lineage'[id] = Append(History(id), e)
    BY <1>2, HistoryIsOfEvents
  <2> QED BY <1>1, <2>1, OneMoreEvent
<1>4. Stored(active)' /\ Stored(quarantine)' /\ Stored(lineage)'
  <2>1. /\ Ids(active') \subseteq 0 .. nextId - 1 /\ Ids(quarantine') \subseteq 0 .. nextId - 1
        /\ Ids(lineage') \subseteq 0 .. nextId - 1
    BY <1>0, <1>2 DEF ClaimInv, Stored
  <2> QED BY <1>0, <1>2, <2>1 DEF Stored, Ids
<1>5. \A id \in Ids(lineage') : lineage'[id] \in Seq(Events)
  BY <1>2, <1>3 DEF ClaimInv
<1>6. \A id \in Ids(active') : Explained(id)'
  BY <1>1, <1>2, <1>3 DEF ClaimInv, Explained
<1>7. ClaimInv'
  BY <1>0, <1>4, <1>5, <1>6 DEF ClaimInv
<1>8. Held \subseteq Ids(active') \cup Ids(quarantine')
  BY <1>2 DEF Held
<1>9. \A id \in promoted : Accounts(id)
  BY <1>3 DEF Accounts
<1>10. \A id \in Ids(active) \ promoted : Accounts(id)
  BY <1>2 DEF Accounts
<1> QED BY <1>2, <1>7, <1>8, <1>9, <1>10 DEF Accounted

LEMMA ClaimStep == ASSUME ClaimInv, ClaimNext PROVE Accounted
<1>1. ASSUME NEW left, NEW right, Contradict(left, right, 1) PROVE Accounted
  <2>1. UNCHANGED <<active, quarantine, lineage, nextId>>
    BY <1>1 DEF Contradict
  <2> QED BY <2>1 DEF Accounted, Accounts, ClaimInv, Stored, Explained, Held, Ids
<1> QED BY <1>1, CommitAccounts, QuarantineAccounts, ReviseAccounts, PromotionAccounts
        DEF ClaimNext

(***************************************************************************)
(* No operation of the store loses a claim or changes what is actively     *)
(* claimed without an event that says so, and an active entry is what the  *)
(* last event of its lineage left.                                         *)
(***************************************************************************)
THEOREM ClaimsAreAccountedFor == ClaimSpec => ClaimsKeepTheirHistory
<1>1. ClaimInit => ClaimInv
  BY DEF ClaimInit, ClaimInv, Stored, Ids
<1>2. ClaimInv /\ [ClaimNext]_claimVars => ClaimInv'
  <2>1. ASSUME ClaimInv, UNCHANGED claimVars PROVE ClaimInv'
    BY <2>1 DEF claimVars, ClaimInv, Stored, Explained, Ids
  <2> QED BY <2>1, ClaimStep DEF Accounted
<1>3. ClaimInv /\ [ClaimNext]_claimVars =>
        [/\ Held \subseteq Ids(active') \cup Ids(quarantine')
         /\ \A id \in Ids(active') :
              /\ lineage'[id][Len(lineage'[id])].turn = active'[id].turn
              /\ (id \notin Ids(active) \/ active'[id] # active[id]) =>
                   /\ Len(lineage'[id]) = Len(History(id)) + 1
                   /\ History(id) = SubSeq(lineage'[id], 1, Len(History(id)))]_claimVars
  BY ClaimStep DEF Accounted, Accounts, ClaimInv, Explained
<1> QED BY <1>1, <1>2, <1>3, PTL DEF ClaimSpec, ClaimsKeepTheirHistory

-----------------------------------------------------------------------------
(* Stances: what the ring, the sidecar and the attestations tell.           *)
Obs == [turn : Nat, topic : Topics, polarity : Polarities, source : {"SystemDecision"}]

Decision == [what : Obs, by : Nat, text : Texts]

Attestation ==
  [turn : Nat, text : Texts, topic : Topics, polarity : Polarities,
   issuedAt : Nat, expiresAt : Nat, defect : Defects]

SessionState ==
  [turn : Nat, topic : Topics \cup {NoTopic}, verdict : {"none"} \cup Results, ring : Seq(Obs)]

LEMMA RingSizeFact == ASSUME StanceAssumption PROVE RingSize \in Nat \ {0}
  BY DEF StanceAssumption, RingSize

(* The newest n entries of a sequence. *)
LEMMA NewestFacts ==
  ASSUME NEW S, NEW s \in Seq(S), NEW n \in Nat
  PROVE  /\ LatestOf(s, n) \in Seq(S)
         /\ Len(LatestOf(s, n)) = IF Len(s) > n THEN n ELSE Len(s)
         /\ \A i \in 1 .. Len(LatestOf(s, n)) :
              LatestOf(s, n)[i] = s[Len(s) - Len(LatestOf(s, n)) + i]
<1>1. CASE Len(s) > n
  <2>1. \A i \in Len(s) - n + 1 .. Len(s) : s[i] \in S
    BY <1>1, ElementOfSeq
  <2>2. /\ LatestOf(s, n) \in Seq(S) /\ Len(LatestOf(s, n)) = n
        /\ \A i \in 1 .. n : LatestOf(s, n)[i] = s[Len(s) - n + 1 + i - 1]
    BY <1>1, <2>1, SubSeqProperties DEF LatestOf
  <2> QED BY <1>1, <2>2
<1>2. CASE ~(Len(s) > n)
  BY <1>2 DEF LatestOf
<1> QED BY <1>1, <1>2

(* Verification names a failing check unless there is none. *)
LEMMA VerifiedMeansAll ==
  ASSUME NEW a, NEW text, NEW now, VerifySigned(a, text, now) = "Verified"
  PROVE  /\ a.turn = session.turn /\ a.text = text
         /\ a.defect \notin {"malformed", "audience", "session", "too_long", "key", "signature"}
<1> DEFINE checks ==
      <<Check("Malformed", a.defect # "malformed"),
        Check("AudienceMismatch", a.defect # "audience"),
        Check("SessionMismatch", a.defect # "session"),
        Check("TurnMismatch", a.turn = session.turn),
        Check("RequestDigestMismatch", a.text = text),
        Check("NotYetValid", now >= a.issuedAt),
        Check("Expired", now <= a.expiresAt),
        Check("ValidityWindowTooLong", a.defect # "too_long"),
        Check("UnknownIssuerKey", a.defect # "key"),
        Check("InvalidSignature", a.defect # "signature")>>
      failing == {i \in 1 .. Len(checks) : ~checks[i].ok}
<1>1. Len(checks) = 10 /\ failing \subseteq 1 .. 10
  OBVIOUS
<1>2. \A i \in 1 .. 10 : checks[i].why # "Verified"
  BY DEF Check
<1>3. VerifySigned(a, text, now)
        = IF failing = {} THEN "Verified"
          ELSE checks[CHOOSE i \in failing : \A j \in failing : i <= j].why
  BY DEF VerifySigned, Verdict
<1>4. ASSUME failing # {} PROVE FALSE
  <2> HIDE DEF failing, checks
  <2>1. \E i \in failing : \A j \in failing : i <= j
    <3> DEFINE least(i) == \A j \in failing : i <= j
    <3>1. least(1)
      BY <1>1
    <3>2. \A i \in 1 .. 10 : least(i) => i \in failing \/ least(i + 1)
      BY <1>1
    <3>3. ~least(11)
      <4>1. PICK j \in failing : j \in 1 .. 10
        BY <1>1, <1>4
      <4>2. ~(11 <= j)
        BY <4>1
      <4> QED BY <4>2
    <3> HIDE DEF least
    <3>4. \E i \in 1 .. 10 : i \in failing /\ least(i)
      BY <3>1, <3>2, <3>3
    <3> QED BY <3>4 DEF least
  <2>2. (CHOOSE i \in failing : \A j \in failing : i <= j) \in failing
    BY <2>1
  <2> QED BY <1>1, <1>2, <1>3, <1>4, <2>2
<1>5. \A i \in 1 .. 10 : checks[i].ok
  BY <1>1, <1>4
<1>6. checks[1].ok /\ checks[2].ok /\ checks[3].ok /\ checks[4].ok /\ checks[5].ok
      /\ checks[8].ok /\ checks[9].ok /\ checks[10].ok
  BY <1>5
<1> QED BY <1>6 DEF Check
-----------------------------------------------------------------------------
(* A signed decision is the one its attestation asked for, at its turn.     *)
Honoured(e, given) ==
  e.by # 0 => /\ e.by \in 1 .. Len(given)
              /\ e.what = Observation(given[e.by].turn + 1, given[e.by].topic,
                                      given[e.by].polarity)
              /\ e.text = given[e.by].text /\ given[e.by].defect = "none"

(* The ring holds the newest decisions of a past. *)
IsNewest(ring, past) ==
  /\ Len(ring) = IF Len(past) > RingSize THEN RingSize ELSE Len(past)
  /\ \A i \in 1 .. Len(ring) : ring[i] = past[Len(past) - Len(ring) + i].what

(* A session with its past: one decision a turn, in order, none of a turn   *)
(* to come, and the ring holds the newest of them.                          *)
PastInv(s, past, given) ==
  /\ s \in SessionState /\ past \in Seq(Decision)
  /\ \A i \in 1 .. Len(past) : past[i].what.turn <= s.turn /\ Honoured(past[i], given)
  /\ \A i, j \in 1 .. Len(past) : i < j => past[i].what.turn < past[j].what.turn
  /\ IsNewest(s.ring, past)

StanceInv ==
  /\ issued \in Seq(Attestation)
  /\ PastInv(session, decisions, issued) /\ PastInv(disk.session, disk.decisions, issued)
  /\ ReversalIsNoticed /\ ShadowForetells

(* What a session remembers does not depend on attestations to come. *)
LEMMA PastStays ==
  ASSUME NEW given \in Seq(Attestation), NEW more \in Seq(Attestation),
         Len(more) >= Len(given), \A i \in 1 .. Len(given) : more[i] = given[i],
         NEW s, NEW past, PastInv(s, past, given)
  PROVE  PastInv(s, past, more)
<1>1. Len(given) \in Nat /\ Len(more) \in Nat
  BY LenProperties
<1>2. ASSUME NEW i \in 1 .. Len(past) PROVE Honoured(past[i], more)
  <2>1. Honoured(past[i], given)
    BY DEF PastInv
  <2> QED BY <1>1, <2>1 DEF Honoured
<1> QED BY <1>2 DEF PastInv

(* A newer decision is new to the ring, which keeps the newest of them all. *)
LEMMA RecordFacts ==
  ASSUME StanceAssumption, NEW s, NEW past, NEW given, PastInv(s, past, given), NEW e \in Decision,
         e.what.turn > s.turn
  PROVE  LET ring == Record(s.ring, e.what)
             all == Append(past, e)
         IN  /\ ring \in Seq(Obs) /\ all \in Seq(Decision) /\ Len(all) = Len(past) + 1
             /\ IsNewest(ring, all)
<1> DEFINE longer == Append(s.ring, e.what)
           ring == Record(s.ring, e.what)
           all == Append(past, e)
           r == Len(s.ring)
           n == Len(past)
<1>1. /\ s.ring \in Seq(Obs) /\ past \in Seq(Decision) /\ e.what \in Obs /\ s.turn \in Nat
      /\ r \in Nat /\ n \in Nat /\ RingSize \in Nat \ {0}
      /\ r = IF n > RingSize THEN RingSize ELSE n
      /\ \A i \in 1 .. r : s.ring[i] = past[n - r + i].what
  BY RingSizeFact, LenProperties DEF PastInv, IsNewest, SessionState, Decision
<1>2. ASSUME NEW i \in 1 .. r PROVE s.ring[i] # e.what
  <2>1. n - r + i \in 1 .. n
    BY <1>1
  <2>2. past[n - r + i].what.turn <= s.turn
    BY <2>1 DEF PastInv
  <2>3. past[n - r + i] \in Decision
    BY <1>1, <2>1, ElementOfSeq
  <2>4. past[n - r + i].what.turn \in Nat /\ e.what.turn \in Nat
    BY <1>1, <2>3 DEF Decision, Obs
  <2>5. past[n - r + i].what.turn # e.what.turn
    <3> DEFINE there == past[n - r + i].what.turn
               here == e.what.turn
    <3>1. s.turn \in Nat /\ there \in Nat /\ here \in Nat /\ there <= s.turn /\ here > s.turn
      BY <1>1, <2>2, <2>4
    <3> HIDE DEF there, here
    <3>2. there # here
      BY <3>1
    <3> QED BY <3>2 DEF there, here
  <2>6. s.ring[i] = past[n - r + i].what
    BY <1>1
  <2> QED BY <2>5, <2>6
<1>3. ring = LatestOf(longer, RingSize)
  BY <1>2 DEF Record
<1>4. /\ longer \in Seq(Obs) /\ Len(longer) = r + 1
      /\ \A i \in 1 .. r + 1 : longer[i] = IF i <= r THEN s.ring[i] ELSE e.what
  BY <1>1
<1>5. /\ all \in Seq(Decision) /\ Len(all) = n + 1
      /\ \A i \in 1 .. n + 1 : all[i] = IF i <= n THEN past[i] ELSE e
  BY <1>1
<1> HIDE DEF longer, all, ring
<1>6. /\ ring \in Seq(Obs)
      /\ Len(ring) = IF Len(longer) > RingSize THEN RingSize ELSE Len(longer)
      /\ \A i \in 1 .. Len(ring) : ring[i] = longer[Len(longer) - Len(ring) + i]
  BY <1>1, <1>3, <1>4, NewestFacts
<1> DEFINE m == Len(ring)
<1> HIDE DEF r, n, m
<1>7. /\ m = IF n + 1 > RingSize THEN RingSize ELSE n + 1
      /\ m \in Nat /\ m > 0 /\ m <= r + 1 /\ m <= n + 1
  BY <1>1, <1>4, <1>6 DEF m
<1>8. ASSUME NEW i \in 1 .. m PROVE ring[i] = all[n + 1 - m + i].what
  <2> DEFINE j == r + 1 - m + i
             k == n + 1 - m + i
  <2>1. j \in 1 .. r + 1 /\ k \in 1 .. n + 1 /\ (j <= r <=> k <= n) /\ n - r + j = k
    BY <1>1, <1>7
  <2>2. ring[i] = longer[j]
    <3>1. ring[i] = longer[Len(longer) - m + i]
      BY <1>6 DEF m
    <3>2. Len(longer) = r + 1
      BY <1>4
    <3> QED BY <1>1, <1>7, <3>1, <3>2
  <2> HIDE DEF j, k
  <2>3. CASE j <= r
    <3>1. longer[j] = s.ring[j] /\ all[k] = past[k]
      BY <1>4, <1>5, <2>1, <2>3
    <3>2. j \in 1 .. r
      BY <1>1, <2>1, <2>3
    <3>3. s.ring[j] = past[n - r + j].what
      BY <1>1, <3>2
    <3> QED BY <2>1, <2>2, <3>1, <3>3 DEF k
  <2>4. CASE ~(j <= r)
    <3>1. longer[j] = e.what /\ all[k] = e
      BY <1>4, <1>5, <2>1, <2>4
    <3> QED BY <2>2, <3>1 DEF k
  <2> QED BY <2>3, <2>4
<1>9. Len(ring) = IF Len(all) > RingSize THEN RingSize ELSE Len(all)
  BY <1>5, <1>7 DEF m
<1>10. \A i \in 1 .. Len(ring) : ring[i] = all[Len(all) - Len(ring) + i].what
  <2>1. Len(all) = n + 1
    BY <1>5
  <2>2. ASSUME NEW i \in 1 .. m PROVE ring[i] = all[Len(all) - m + i].what
    BY <1>1, <1>7, <1>8, <2>1
  <2> QED BY <2>2 DEF m
<1>11. ring \in Seq(Obs) /\ all \in Seq(Decision) /\ Len(all) = n + 1
  BY <1>5, <1>6
<1>12. IsNewest(ring, all)
  BY <1>9, <1>10 DEF IsNewest
<1> QED BY <1>11, <1>12 DEF all, ring, n
-----------------------------------------------------------------------------
(* What the three wrappers may record. *)
Recordable(d, text, result) ==
  /\ ~Blocked(result)
  /\ d.topic = TopicOf[text] /\ d.polarity \in Polarities
  /\ d.by \in 0 .. Len(issued)
  /\ d.by # 0 => /\ issued[d.by].turn = session.turn /\ issued[d.by].topic = d.topic
                 /\ issued[d.by].polarity = d.polarity /\ issued[d.by].text = text
                 /\ issued[d.by].defect = "none"

LEMMA AffirmsFacts ==
  ASSUME issued \in Seq(Attestation), NEW text, NEW result,
         NEW d \in Affirms(TopicOf[text], result)
  PROVE  Recordable(d, text, result)
  BY LenProperties DEF Affirms, Recordable, Polarities

LEMMA ExplicitFacts ==
  ASSUME issued \in Seq(Attestation), NEW text, NEW result, NEW topic, NEW p \in Polarities,
         NEW d \in Explicit([topic |-> topic, polarity |-> p, by |-> 0], TopicOf[text], result)
  PROVE  Recordable(d, text, result)
  BY LenProperties DEF Explicit, Recordable

LEMMA SignedFacts ==
  ASSUME StanceAssumption, issued \in Seq(Attestation), NEW i \in 1 .. Len(issued),
         NEW text, NEW result, NEW now, NEW d \in Signed(i, text, result, now)
  PROVE  Recordable(d, text, result)
<1> DEFINE a == issued[i]
<1>1. a \in Attestation
  BY ElementOfSeq
<1>2. /\ VerifySigned(a, text, now) = "Verified" /\ ~Blocked(result)
      /\ TopicOf[text] = a.topic /\ d = [topic |-> a.topic, polarity |-> a.polarity, by |-> i]
  BY DEF Signed, Explicit
<1>3. /\ a.turn = session.turn /\ a.text = text
      /\ a.defect \notin {"malformed", "audience", "session", "too_long", "key", "signature"}
  BY <1>2, VerifiedMeansAll
<1>4. a.defect = "none" /\ a.polarity \in Polarities
  BY <1>1, <1>3 DEF Attestation, StanceAssumption
<1> QED BY <1>2, <1>3, <1>4, LenProperties DEF Recordable

(* A turn that decides keeps the past in order. *)
LEMMA DecidingKeeps ==
  ASSUME StanceAssumption, StanceInv, NEW text \in Texts, NEW result \in Results, NEW decided,
         \A d \in decided : Recordable(d, text, result), DecidingTurn(text, result, decided)
  PROVE  StanceInv'
<1> DEFINE after == AfterTurn(TopicOf[text], result)
<1>1. /\ issued \in Seq(Attestation) /\ PastInv(session, decisions, issued) /\ session \in SessionState
      /\ PastInv(disk.session, disk.decisions, issued) /\ disk' = disk /\ issued' = issued
      /\ decisions \in Seq(Decision) /\ session.turn \in Nat /\ session.ring \in Seq(Obs)
  BY DEF StanceInv, DecidingTurn, PastInv, SessionState
<1>2. TopicOf[text] \in Topics
  BY DEF StanceAssumption
<1>3. /\ after \in SessionState /\ after.ring = session.ring
      /\ after.turn = IF result = "Failed" THEN session.turn ELSE session.turn + 1
  <2>1. CASE result = "Failed"
    BY <1>1, <2>1 DEF AfterTurn
  <2>2. CASE result # "Failed"
    <3>1. after = [session EXCEPT !.turn = session.turn + 1, !.topic = TopicOf[text],
                                  !.verdict = result]
      BY <2>2 DEF AfterTurn
    <3>2. session.turn + 1 \in Nat /\ TopicOf[text] \in Topics \cup {NoTopic}
          /\ result \in {"none"} \cup Results
      BY <1>1, <1>2
    <3> QED BY <1>1, <2>2, <3>1, <3>2 DEF SessionState
  <2> QED BY <2>1, <2>2
<1>4. PastInv(disk.session, disk.decisions, issued)'
  BY <1>1 DEF PastInv, Honoured
<1>5. ReversalIsNoticed' /\ ShadowForetells'
  BY DEF DecidingTurn, ReversalIsNoticed, ShadowForetells
<1>6. PastInv(session, decisions, issued)'
  <2>1. CASE session' = after /\ decisions' = decisions
    <3>1. ASSUME NEW i \in 1 .. Len(decisions) PROVE decisions[i].what.turn <= after.turn
      <4>1. decisions[i] \in Decision
        BY <1>1, ElementOfSeq
      <4>2. decisions[i].what.turn \in Nat
        BY <4>1 DEF Decision, Obs
      <4>3. decisions[i].what.turn <= session.turn
        BY <1>1 DEF PastInv
      <4> QED BY <1>1, <1>3, <4>2, <4>3
    <3> HIDE DEF after
    <3> QED BY <1>1, <1>3, <2>1, <3>1 DEF PastInv, Honoured, IsNewest
  <2>2. ASSUME NEW d \in decided,
               session' = [after EXCEPT !.ring =
                             Record(@, Observation(after.turn, d.topic, d.polarity))],
               decisions' = Append(decisions,
                              [what |-> Observation(after.turn, d.topic, d.polarity),
                               by |-> d.by, text |-> text])
        PROVE  PastInv(session, decisions, issued)'
    <3> DEFINE o == Observation(after.turn, d.topic, d.polarity)
               e == [what |-> o, by |-> d.by, text |-> text]
               n == Len(decisions)
    <3>1. Recordable(d, text, result) /\ after.turn = session.turn + 1
      BY <1>3 DEF Recordable, Blocked
    <3>2. o \in Obs /\ o.turn = session.turn + 1 /\ e \in Decision
      BY <1>1, <1>2, <3>1, LenProperties DEF Recordable, Observation, Obs, Decision
    <3>3. Honoured(e, issued)
      BY <3>1, LenProperties, <1>1 DEF Recordable, Honoured
    <3>4. e.what = o /\ e.what.turn = session.turn + 1
      BY <3>2
    <3> HIDE DEF o, e, after
    <3>5. session' = [after EXCEPT !.ring = Record(session.ring, o)] /\ decisions' = Append(decisions, e)
      BY <1>3, <2>2 DEF o, e
    <3>6. e.what.turn > session.turn
      BY <1>1, <3>4
    <3>7. /\ Record(session.ring, e.what) \in Seq(Obs) /\ Append(decisions, e) \in Seq(Decision)
          /\ Len(Append(decisions, e)) = n + 1
          /\ IsNewest(Record(session.ring, e.what), Append(decisions, e))
      BY <1>1, <3>2, <3>6, RecordFacts
    <3>8. /\ session' \in SessionState /\ session'.turn = session.turn + 1
          /\ session'.ring = Record(session.ring, e.what)
      BY <1>1, <1>3, <3>1, <3>4, <3>5, <3>7 DEF SessionState
    <3>9. /\ n \in Nat /\ \A i \in 1 .. n + 1 : decisions'[i] = IF i <= n THEN decisions[i] ELSE e
      BY <1>1, <3>5
    <3>10. ASSUME NEW i \in 1 .. n
           PROVE  /\ decisions[i].what.turn \in Nat /\ decisions[i].what.turn <= session.turn
                  /\ Honoured(decisions[i], issued)
      <4>1. decisions[i] \in Decision
        BY <1>1, ElementOfSeq
      <4>2. decisions[i].what.turn \in Nat
        BY <4>1 DEF Decision, Obs
      <4> QED BY <1>1, <4>2 DEF PastInv
    <3>11. ASSUME NEW i \in 1 .. n + 1
           PROVE  decisions'[i].what.turn <= session'.turn /\ Honoured(decisions'[i], issued')
      <4>1. CASE i <= n
        <5>1. i \in 1 .. n /\ decisions'[i] = decisions[i]
          BY <3>9, <4>1
        <5>2. Honoured(decisions'[i], issued')
          BY <1>1, <3>10, <5>1 DEF Honoured
        <5>3. decisions[i].what.turn <= session.turn + 1
          BY <1>1, <3>10, <5>1
        <5> QED BY <3>8, <5>1, <5>2, <5>3 DEF Honoured
      <4>2. CASE ~(i <= n)
        <5>1. decisions'[i] = e
          BY <3>9, <4>2
        <5> QED BY <1>1, <3>3, <3>4, <3>8, <5>1 DEF Honoured
      <4> QED BY <4>1, <4>2
    <3>12. ASSUME NEW i \in 1 .. n + 1, NEW j \in 1 .. n + 1, i < j
           PROVE  decisions'[i].what.turn < decisions'[j].what.turn
      <4>1. i \in 1 .. n /\ decisions'[i] = decisions[i]
        BY <3>9, <3>12
      <4>2. CASE j <= n
        <5>1. j \in 1 .. n /\ decisions'[j] = decisions[j]
          BY <3>9, <4>2
        <5> QED BY <1>1, <3>12, <4>1, <5>1 DEF PastInv
      <4>3. CASE ~(j <= n)
        <5>1. decisions'[j] = e
          BY <3>9, <4>3
        <5>2. decisions[i].what.turn < session.turn + 1
          BY <1>1, <3>10, <4>1
        <5> QED BY <3>4, <4>1, <5>1, <5>2
      <4> QED BY <4>2, <4>3
    <3>13. IsNewest(session.ring, decisions)'
      BY <3>5, <3>7, <3>8 DEF IsNewest
    <3>14. Len(decisions') = n + 1 /\ decisions' \in Seq(Decision)
      BY <3>5, <3>7
    <3> HIDE DEF n
    <3> QED BY <3>8, <3>11, <3>12, <3>13, <3>14 DEF PastInv
  <2> QED BY <2>1, <2>2 DEF DecidingTurn
<1> QED BY <1>1, <1>4, <1>5, <1>6 DEF StanceInv
-----------------------------------------------------------------------------
LEMMA InitEstablishes == ASSUME StanceAssumption, StanceInit PROVE StanceInv
<1>1. FreshSession \in SessionState
  BY DEF FreshSession, SessionState
<1>2. PastInv(FreshSession, <<>>, <<>>)
  BY <1>1, RingSizeFact DEF PastInv, IsNewest, FreshSession
<1>3. ReversalIsNoticed /\ ShadowForetells
  BY DEF StanceInit, ReversalIsNoticed, ShadowForetells
<1> QED BY <1>2, <1>3 DEF StanceInit, StanceInv

(* A new attestation changes no past: the earlier ones stay where they are. *)
LEMMA IssueKeeps ==
  ASSUME StanceAssumption, StanceInv, NEW text \in Texts, NEW topic \in Topics,
         NEW p \in Polarities, NEW d \in Defects, Issue(text, topic, p, d)
  PROVE  StanceInv'
<1> DEFINE a == [turn |-> session.turn, text |-> text, topic |-> topic, polarity |-> p,
                 issuedAt |-> 1, expiresAt |-> 1, defect |-> d]
<1>1. /\ issued \in Seq(Attestation) /\ PastInv(session, decisions, issued) /\ session.turn \in Nat
      /\ PastInv(disk.session, disk.decisions, issued)
  BY DEF StanceInv, PastInv, SessionState
<1>2. a \in Attestation
  BY <1>1 DEF Attestation
<1>3. /\ issued' = Append(issued, a) /\ session' = session /\ disk' = disk
      /\ decisions' = decisions /\ last' = last /\ last = NoTurn
  BY DEF Issue, RequestContext
<1> HIDE DEF a
<1>4. /\ issued' \in Seq(Attestation) /\ Len(issued') >= Len(issued)
      /\ \A i \in 1 .. Len(issued) : issued'[i] = issued[i]
  BY <1>1, <1>2, <1>3
<1>5. PastInv(session, decisions, issued')
  BY <1>1, <1>4, PastStays
<1>6. PastInv(disk.session, disk.decisions, issued')
  BY <1>1, <1>4, PastStays
<1>7. ReversalIsNoticed' /\ ShadowForetells'
  BY <1>3 DEF ReversalIsNoticed, ShadowForetells, NoTurn
<1> QED BY <1>3, <1>4, <1>5, <1>6, <1>7 DEF StanceInv

(* The ring tells of a rejection exactly when the newest of the past do.    *)
LEMMA RingTellsThePast ==
  ASSUME StanceAssumption, PastInv(session, decisions, issued), NEW topic \in Topics
  PROVE  Contradicts(session.ring, Observation(session.turn + 1, topic, "Affirmed")) # {}
         <=> \E i \in 1 .. Len(decisions) : /\ i > Len(decisions) - RingSize
                                            /\ decisions[i].what.topic = topic
                                            /\ decisions[i].what.polarity = "Rejected"
<1> DEFINE ring == session.ring
           n == Len(decisions)
           r == Len(ring)
           current == Observation(session.turn + 1, topic, "Affirmed")
<1>1. /\ ring \in Seq(Obs) /\ decisions \in Seq(Decision) /\ session.turn \in Nat
      /\ n \in Nat /\ r \in Nat /\ RingSize \in Nat \ {0}
      /\ r = IF n > RingSize THEN RingSize ELSE n
  BY RingSizeFact, LenProperties DEF PastInv, IsNewest, SessionState
<1>2. ASSUME NEW i \in 1 .. r PROVE n - r + i \in 1 .. n /\ ring[i] = decisions[n - r + i].what
  <2>1. n - r + i \in 1 .. n
    BY <1>1
  <2>2. IsNewest(ring, decisions)
    BY DEF PastInv
  <2> QED BY <2>1, <2>2 DEF IsNewest
<1>3. ASSUME NEW k \in 1 .. n
      PROVE  /\ decisions[k].what.turn <= session.turn /\ decisions[k].what.turn \in Nat
             /\ decisions[k].what.source = "SystemDecision"
             /\ decisions[k].what.polarity # "Affirmed" <=> decisions[k].what.polarity = "Rejected"
  <2>1. decisions[k] \in Decision
    BY <1>1, ElementOfSeq
  <2>2. decisions[k].what \in Obs
    BY <2>1 DEF Decision
  <2> QED BY <2>2 DEF Obs, Polarities, PastInv
<1>4. /\ current.turn = session.turn + 1 /\ current.topic = topic
      /\ current.polarity = "Affirmed"
  BY DEF Observation
<1> HIDE DEF current, n, r
<1>5. ASSUME NEW i \in Contradicts(ring, current)
      PROVE  \E k \in 1 .. n : /\ k > n - RingSize /\ decisions[k].what.topic = topic
                               /\ decisions[k].what.polarity = "Rejected"
  <2>1. i \in 1 .. r /\ ring[i].topic = topic /\ ring[i].polarity # "Affirmed"
    BY <1>4 DEF Contradicts, r
  <2> DEFINE k == n - r + i
  <2>2. k \in 1 .. n /\ ring[i] = decisions[k].what /\ k > n - RingSize
    BY <1>1, <1>2, <2>1
  <2> HIDE DEF k
  <2> QED BY <1>3, <2>1, <2>2
<1>6. ASSUME NEW k \in 1 .. n, k > n - RingSize, decisions[k].what.topic = topic,
             decisions[k].what.polarity = "Rejected"
      PROVE  Contradicts(ring, current) # {}
  <2> DEFINE i == k - (n - r)
  <2>1. i \in 1 .. r /\ n - r + i = k
    BY <1>1, <1>6
  <2> HIDE DEF i
  <2>2. ring[i] = decisions[k].what
    BY <1>2, <2>1
  <2>3. decisions[k].what.turn < session.turn + 1
    BY <1>1, <1>3
  <2>4. i \in Contradicts(ring, current)
    BY <1>3, <1>4, <1>6, <2>1, <2>2, <2>3 DEF Contradicts, r
  <2> QED BY <2>4
<1>7. Contradicts(ring, current) # {} =>
        \E k \in 1 .. n : /\ k > n - RingSize /\ decisions[k].what.topic = topic
                          /\ decisions[k].what.polarity = "Rejected"
  BY <1>5
<1> QED BY <1>6, <1>7 DEF current, n

LEMMA CognitiveKeeps ==
  ASSUME StanceAssumption, StanceInv, NEW text \in Texts, NEW result \in Results,
         NEW c \in Confidences, NEW mode, NEW s, NEW collapse \in BOOLEAN, NEW anti \in BOOLEAN,
         CognitiveTurn(text, result, c, mode, s, collapse, anti)
  PROVE  StanceInv'
<1> DEFINE topic == TopicOf[text]
           after == AfterTurn(topic, result)
<1>1. /\ issued \in Seq(Attestation) /\ PastInv(session, decisions, issued) /\ session \in SessionState
      /\ PastInv(disk.session, disk.decisions, issued) /\ disk' = disk /\ issued' = issued
      /\ decisions' = decisions /\ session.turn \in Nat /\ decisions \in Seq(Decision)
      /\ session' = after
  BY DEF StanceInv, CognitiveTurn, PastInv, SessionState
<1>2. topic \in Topics
  BY DEF StanceAssumption
<1>3. /\ after \in SessionState /\ after.ring = session.ring
      /\ after.turn \in {session.turn, session.turn + 1}
  <2>1. CASE result = "Failed"
    BY <1>1, <2>1 DEF AfterTurn
  <2>2. CASE result # "Failed"
    <3>1. after = [session EXCEPT !.turn = session.turn + 1, !.topic = topic, !.verdict = result]
      BY <2>2 DEF AfterTurn
    <3>2. session.turn + 1 \in Nat /\ result \in {"none"} \cup Results
      BY <1>1
    <3> QED BY <1>1, <1>2, <3>1, <3>2 DEF SessionState
  <2> QED BY <2>1, <2>2
<1>4. PastInv(disk.session, disk.decisions, issued)'
  BY <1>1 DEF PastInv, Honoured
<1>5. PastInv(session, decisions, issued)'
  <2>1. ASSUME NEW i \in 1 .. Len(decisions) PROVE decisions[i].what.turn <= after.turn
    <3>1. decisions[i] \in Decision
      BY <1>1, ElementOfSeq
    <3>2. decisions[i].what.turn \in Nat
      BY <3>1 DEF Decision, Obs
    <3>3. decisions[i].what.turn <= session.turn
      BY <1>1 DEF PastInv
    <3> QED BY <1>1, <1>3, <3>2, <3>3
  <2> HIDE DEF after
  <2> QED BY <1>1, <1>3, <2>1 DEF PastInv, Honoured, IsNewest
<1>6. /\ last'.topic = topic /\ last'.stronger = (collapse \/ anti)
      /\ last'.eligible = (mode \in DoubtfulModes) /\ last'.limited = (s = "LimitedEnabled")
      /\ last'.asked = Asks(topic, mode, c, s) /\ last'.shadow = DoubtShadow(topic, c)
      /\ last'.anomaly = AnomalyShadow(topic, collapse, anti)
  BY DEF CognitiveTurn
<1> HIDE DEF topic
<1>7. ReversalIsNoticed'
  <2> SUFFICES ASSUME ~last'.stronger, topic \notin UnfitTopics
               PROVE  last'.anomaly = "Temporal" <=>
                        \E i \in 1 .. Len(decisions) :
                          /\ i > Len(decisions) - RingSize /\ decisions[i].what.topic = topic
                          /\ decisions[i].what.polarity = "Rejected"
    BY <1>1, <1>6 DEF ReversalIsNoticed
  <2>1. ~collapse /\ ~anti
    BY <1>6
  <2>2. last'.anomaly = "Temporal"
          <=> Contradicts(session.ring, Observation(session.turn + 1, topic, "Affirmed")) # {}
    BY <1>6, <2>1 DEF AnomalyShadow
  <2> QED BY <1>1, <1>2, <2>2, RingTellsThePast
<1>8. ShadowForetells'
  <2> SUFFICES ASSUME mode \in DoubtfulModes, s = "LimitedEnabled"
               PROVE  Asks(topic, mode, c, s) <=> DoubtShadow(topic, c) = "Clarify"
    BY <1>6 DEF ShadowForetells
  <2> DEFINE doubt == ComputeDoubt(c, "Other")
             recalled == ImmediateSameTopic(topic)
  <2>1. /\ DoubtShadow(topic, c) = DoubtRoute(doubt, recalled)
        /\ Asks(topic, mode, c, s)
             <=> /\ DoubtRoute(doubt, <<>>) = "Clarify"
                 /\ DoubtRoute(doubt, recalled) # "SuppressedByRecentDecision"
    BY DEF DoubtShadow, Asks
  <2> HIDE DEF doubt, recalled
  <2> QED BY <2>1 DEF DoubtRoute
<1> QED BY <1>1, <1>4, <1>5, <1>7, <1>8 DEF StanceInv

(* A saved session reads back as it was: its ring fits its capacity. *)
LEMMA LoadedIsSaved ==
  ASSUME StanceAssumption, NEW s, NEW past, NEW given, PastInv(s, past, given)
  PROVE  Loaded(s) = s
<1>1. /\ s \in SessionState /\ s.ring \in Seq(Obs) /\ Len(s.ring) <= RingSize
      /\ Len(s.ring) \in Nat /\ RingSize \in Nat
  BY RingSizeFact, LenProperties DEF PastInv, IsNewest, SessionState
<1>2. LatestOf(s.ring, RingSize) = s.ring
  BY <1>1 DEF LatestOf
<1> QED BY <1>1, <1>2 DEF Loaded, SessionState

LEMMA StepKeeps ==
  ASSUME StanceAssumption, StanceInv, [StanceNext]_stanceVars
  PROVE  StanceInv'
<1>1. ASSUME NEW text \in Texts, NEW topic \in Topics, NEW p \in Polarities, NEW d \in Defects,
             Issue(text, topic, p, d)
      PROVE  StanceInv'
  BY <1>1, IssueKeeps
<1>2. ASSUME NEW text \in Texts, NEW r \in Results, AffirmedTurn(text, r)
      PROVE  StanceInv'
  <2>1. \A d \in Affirms(TopicOf[text], r) : Recordable(d, text, r)
    BY AffirmsFacts DEF StanceInv
  <2> QED BY <1>2, <2>1, DecidingKeeps DEF AffirmedTurn
<1>3. ASSUME NEW text \in Texts, NEW r \in Results, NEW topic \in Topics \ UnfitTopics,
             NEW p \in Polarities, ExplicitTurn(text, r, topic, p)
      PROVE  StanceInv'
  <2> DEFINE decided == Explicit([topic |-> topic, polarity |-> p, by |-> 0], TopicOf[text], r)
  <2>1. \A d \in decided : Recordable(d, text, r)
    BY ExplicitFacts DEF StanceInv
  <2>2. DecidingTurn(text, r, decided)
    BY <1>3 DEF ExplicitTurn
  <2> HIDE DEF decided
  <2> QED BY <2>1, <2>2, DecidingKeeps
<1>4. ASSUME NEW i \in 1 .. Len(issued), NEW text \in Texts, NEW r \in Results,
             NEW now \in Times, SignedTurn(i, text, r, now)
      PROVE  StanceInv'
  <2>1. \A d \in Signed(i, text, r, now) : Recordable(d, text, r)
    BY SignedFacts DEF StanceInv
  <2> QED BY <1>4, <2>1, DecidingKeeps DEF SignedTurn
<1>5. ASSUME NEW text \in Texts, NEW r \in Results, NEW c \in Confidences,
             NEW mode \in {"Define", "Greeting"},
             NEW s \in {"Disabled", "TraceOnly", "LimitedEnabled"},
             NEW collapse \in BOOLEAN, NEW anti \in BOOLEAN,
             CognitiveTurn(text, r, c, mode, s, collapse, anti)
      PROVE  StanceInv'
  BY <1>5, CognitiveKeeps
<1>6. CASE Save
  <2>1. /\ disk'.session = session /\ disk'.decisions = decisions /\ session' = session
        /\ issued' = issued /\ decisions' = decisions /\ last' = last
    BY <1>6 DEF Save
  <2>2. PastInv(session, decisions, issued)' /\ PastInv(disk.session, disk.decisions, issued)'
    BY <2>1 DEF StanceInv, PastInv, Honoured
  <2> QED BY <2>1, <2>2 DEF StanceInv, ReversalIsNoticed, ShadowForetells
<1>7. CASE Restart
  <2>1. /\ session' = disk.session /\ decisions' = disk.decisions /\ last' = NoTurn
        /\ disk' = disk /\ issued' = issued
    BY <1>7, LoadedIsSaved DEF Restart, StanceInv
  <2>2. PastInv(session, decisions, issued)' /\ PastInv(disk.session, disk.decisions, issued)'
    BY <2>1 DEF StanceInv, PastInv, Honoured
  <2>3. ReversalIsNoticed' /\ ShadowForetells'
    BY <2>1 DEF ReversalIsNoticed, ShadowForetells, NoTurn
  <2> QED BY <2>1, <2>2, <2>3 DEF StanceInv
<1>8. CASE UNCHANGED stanceVars
  BY <1>8 DEF stanceVars, StanceInv, PastInv, Honoured, ReversalIsNoticed, ShadowForetells
<1> QED BY <1>1, <1>2, <1>3, <1>4, <1>5, <1>6, <1>7, <1>8 DEF StanceNext

(* The inductive invariant: the loaded and the saved session each have a    *)
(* past with at most one decision a turn, in order, each signed one as its  *)
(* attestation asked, and a ring of the newest; what the latest cognitive   *)
(* turn was told fits that past.                                            *)
THEOREM StancesKeepTheirPast == ASSUME StanceAssumption PROVE StanceSpec => []StanceInv
<1>1. StanceInit => StanceInv
  BY InitEstablishes
<1>2. StanceInv /\ [StanceNext]_stanceVars => StanceInv'
  BY StepKeeps
<1> QED BY <1>1, <1>2, PTL DEF StanceSpec

(* A signed decision stands in a session's past at most once, at the turn   *)
(* after the state it was issued against, for its own text and polarity,    *)
(* whatever is delivered late, twice, after a refusal or after a restart.   *)
THEOREM SignedOnce == ASSUME StanceAssumption PROVE StanceSpec => []HonouredOnceWhereIssued
<1>1. ASSUME StanceInv PROVE HonouredOnceWhereIssued
  <2> SUFFICES ASSUME NEW i \in 1 .. Len(decisions), decisions[i].by # 0
               PROVE  LET a == issued[decisions[i].by]
                      IN  /\ decisions[i].what = Observation(a.turn + 1, a.topic, a.polarity)
                          /\ decisions[i].text = a.text /\ a.defect = "none"
                          /\ \A j \in 1 .. Len(decisions) : decisions[j].by = decisions[i].by => j = i
    BY DEF HonouredOnceWhereIssued
  <2>1. PastInv(session, decisions, issued) /\ \A k \in 1 .. Len(decisions) : Honoured(decisions[k], issued)
    BY <1>1 DEF StanceInv, PastInv
  <2>2. ASSUME NEW j \in 1 .. Len(decisions), decisions[j].by = decisions[i].by
        PROVE  j = i
    <3>1. decisions[i].what.turn = decisions[j].what.turn
      BY <2>1, <2>2 DEF Honoured
    <3>2. decisions[i] \in Decision /\ decisions[j] \in Decision
      BY <2>1, ElementOfSeq DEF PastInv
    <3>3. decisions[i].what.turn \in Nat /\ decisions[j].what.turn \in Nat
      BY <3>2 DEF Decision, Obs
    <3>4. ~(i < j) /\ ~(j < i)
      BY <2>1, <3>1, <3>3 DEF PastInv
    <3> QED BY <3>4
  <2> QED BY <2>1, <2>2 DEF Honoured
<1> QED BY <1>1, StancesKeepTheirPast, PTL

(* A turn is told of a contradiction exactly when a rejection of its topic  *)
(* is among the newest decisions of the session's whole past.               *)
THEOREM ReversalsAreNoticed == ASSUME StanceAssumption PROVE StanceSpec => []ReversalIsNoticed
<1>1. StanceInv => ReversalIsNoticed
  BY DEF StanceInv
<1> QED BY <1>1, StancesKeepTheirPast, PTL

(* With suppression on, an eligible turn asks exactly when the shadow,      *)
(* computed by code of its own, proposed to.                                *)
THEOREM ShadowsForetell == ASSUME StanceAssumption PROVE StanceSpec => []ShadowForetells
<1>1. StanceInv => ShadowForetells
  BY DEF StanceInv
<1> QED BY <1>1, StancesKeepTheirPast, PTL
=============================================================================
