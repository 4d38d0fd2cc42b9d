-------------------- MODULE PerspectiveRegistryProofs ---------------------
(***************************************************************************)
(* The registry for any scopes, bounds and sequence of mutations: a thread *)
(* presents at most one version, the one it holds active, what was         *)
(* withdrawn or suspended never returns, the ledger of a thread stays      *)
(* bounded and connected, and what is promoted is presented.               *)
(***************************************************************************)
EXTENDS PerspectiveRegistry, FiniteSetTheorems, WellFoundedInduction, TLAPS

(* A thread whose versions were allocated below n and whose active version *)
(* is the only one marked so.                                              *)
Good(t, n) ==
  /\ t.versions = [v \in DOMAIN t.versions |-> t.versions[v]]
  /\ DOMAIN t.versions \subseteq 1 .. n - 1
  /\ ActiveVersions(t) = {t.active} \ {None}

AllGood(ts, n) ==
  /\ ts = [s \in DOMAIN ts |-> ts[s]]
  /\ \A s \in DOMAIN ts : Good(ts[s], n)

(* The inductive invariant.                                                *)
RegistryInv == nextVersion \in Nat \ {0} /\ AllGood(threads, nextVersion)

(* Nothing withdrawn or suspended in t is active in u.                     *)
NoReturn(t, u) ==
  \A v \in DOMAIN t.versions :
    t.versions[v] \in {"Withdrawn", "Suspended"} => v \notin ActiveVersions(u)

----------------------------------------------------------------------------
(* A set of numbers below a bound has a greatest element unless empty.     *)
LEMMA LargestBelow ==
  ASSUME NEW n \in Nat, NEW S, S \subseteq 1 .. n - 1, S # {}
  PROVE  \E v \in S : \A w \in S : w <= v
<1> DEFINE Gaps == {k \in Nat : n - k \in S}
<1>1. PICK x \in S : TRUE
  OBVIOUS
<1>2. n - x \in Nat /\ n - (n - x) = x
  BY <1>1
<1>3. Gaps \subseteq Nat /\ Gaps # {}
  BY <1>1, <1>2
<1>4. PICK k \in Gaps : \A j \in Gaps : k <= j
  <2> HIDE DEF Gaps
  <2>1. PICK k \in Gaps : \A j \in Gaps : <<j, k>> \notin OpToRel(<, Nat)
    BY <1>3, NatLessThanWellFounded, WFMin, Zenon
  <2>2. ASSUME NEW j \in Gaps PROVE k <= j
    <3>1. <<j, k>> \notin {e \in Nat \X Nat : e[1] < e[2]}
      BY <2>1 DEF OpToRel
    <3>2. j \in Nat /\ k \in Nat
      BY <1>3
    <3>3. ~(j < k)
      BY <3>1, <3>2
    <3>4. QED
      BY <3>2, <3>3
  <2>3. QED
    BY <2>2
<1>5. \A w \in S : n - w \in Gaps
  <2>1. \A w \in S : n - w \in Nat /\ n - (n - w) = w
    OBVIOUS
  <2>2. QED
    BY <2>1
<1>6. \A w \in S : w <= n - k
  <2>1. \A w \in S : k <= n - w
    BY <1>4, <1>5
  <2>2. QED
    BY <1>4, <2>1
<1>7. QED
  BY <1>4, <1>6

(* Suspending a thread leaves no version active.                           *)
LEMMA SuspendedIsGood ==
  ASSUME NEW t, NEW n \in Nat, Good(t, n)
  PROVE  /\ Good(Suspended(t), n)
         /\ ActiveVersions(Suspended(t)) = {}
         /\ Suspended(t).active = None
<1> DEFINE u == Suspended(t)
<1>1. /\ u.active = None
      /\ u.versions = Marked(t.versions, t.active, "Suspended")
  BY DEF Suspended
<1>2. /\ DOMAIN u.versions = DOMAIN t.versions
      /\ u.versions = [v \in DOMAIN u.versions |-> u.versions[v]]
      /\ ActiveVersions(u) = {}
  BY <1>1 DEF Good, ActiveVersions, Marked
<1>3. QED
  BY <1>1, <1>2 DEF Good

(* The cap only takes active versions away.                                *)
LEMMA CapKeepsGood ==
  ASSUME NEW ts, NEW n \in Nat, AllGood(ts, n)
  PROVE  /\ AllGood(EnforceActiveCap(ts), n)
         /\ DOMAIN EnforceActiveCap(ts) = DOMAIN ts
         /\ \A s \in DOMAIN ts :
              ActiveVersions(EnforceActiveCap(ts)[s]) \subseteq ActiveVersions(ts[s])
<1>1. DOMAIN EnforceActiveCap(ts) = DOMAIN ts
  BY DEF EnforceActiveCap
<1>2. ASSUME NEW s \in DOMAIN ts
      PROVE  /\ Good(EnforceActiveCap(ts)[s], n)
             /\ ActiveVersions(EnforceActiveCap(ts)[s]) \subseteq ActiveVersions(ts[s])
  <2>1. EnforceActiveCap(ts)[s] \in {ts[s], Suspended(ts[s])}
    BY DEF EnforceActiveCap
  <2>2. Good(ts[s], n)
    BY DEF AllGood
  <2>3. QED
    BY <2>1, <2>2, SuspendedIsGood
<1>3. EnforceActiveCap(ts) = [s \in DOMAIN ts |-> EnforceActiveCap(ts)[s]]
  BY DEF EnforceActiveCap
<1>4. QED
  BY <1>1, <1>2, <1>3 DEF AllGood

(* Replacing one thread by a good one that revives nothing, and enforcing  *)
(* the cap, keeps every thread good and revives nothing.                   *)
LEMMA UpsertKeeps ==
  ASSUME NEW s, NEW t, NEW n \in Nat,
         AllGood(threads, n), Good(t, n),
         s \in DOMAIN threads => NoReturn(threads[s], t)
  PROVE  /\ AllGood(EnforceActiveCap(Put(s, t)), n)
         /\ \A r \in DOMAIN threads : NoReturn(threads[r], EnforceActiveCap(Put(s, t))[r])
<1> DEFINE put == Put(s, t)
<1>1. AllGood(put, n)
  BY DEF Put, AllGood
<1>2. \A r \in DOMAIN threads : r \in DOMAIN put /\ NoReturn(threads[r], put[r])
  BY DEF Put, AllGood, Good, NoReturn, ActiveVersions
<1>3. QED
  <2> HIDE DEF put
  <2>1. AllGood(EnforceActiveCap(put), n)
    BY <1>1, CapKeepsGood
  <2>2. \A r \in DOMAIN put : ActiveVersions(EnforceActiveCap(put)[r]) \subseteq ActiveVersions(put[r])
    BY <1>1, CapKeepsGood
  <2>3. \A r \in DOMAIN threads : NoReturn(threads[r], EnforceActiveCap(put)[r])
    BY <1>2, <2>2 DEF NoReturn
  <2>4. QED
    BY <2>1, <2>3 DEF put

(* A thread stays good when later versions are allocated elsewhere.        *)
LEMMA GoodGrows ==
  ASSUME NEW n \in Nat, AllGood(threads, n)
  PROVE  AllGood(threads, n + 1)
BY DEF AllGood, Good

(* The thread a mutation starts from.                                      *)
LEMMA ThreadIsGood ==
  ASSUME NEW s, NEW n \in Nat, AllGood(threads, n)
  PROVE  Good(Thread(s), n)
<1>1. CASE s \in DOMAIN threads
  BY <1>1 DEF Thread, AllGood
<1>2. CASE s \notin DOMAIN threads
  <2>1. Good(NewThread, n)
    BY DEF NewThread, Good, ActiveVersions
  <2>2. QED
    BY <1>2, <2>1 DEF Thread
<1>3. QED
  BY <1>1, <1>2
----------------------------------------------------------------------------
(* upsert_active: the prior active version is demoted, the new one added.  *)
LEMMA PromotedIsGood ==
  ASSUME NEW old, NEW n \in Nat \ {0}, Good(old, n), NEW revisions, NEW updated
  PROVE  LET t == [active |-> n,
                   versions |-> BoundVersions(WithVersion(Demoted(old.versions), n, "Active")),
                   revisions |-> revisions, updated |-> updated]
         IN  Good(t, n + 1) /\ NoReturn(old, t)
<1> DEFINE all == WithVersion(Demoted(old.versions), n, "Active")
           kept == BoundVersions(all)
           t == [active |-> n, versions |-> kept, revisions |-> revisions, updated |-> updated]
<1>1. /\ DOMAIN all = DOMAIN old.versions \cup {n}
      /\ all[n] = "Active"
      /\ \A v \in DOMAIN old.versions : v # n /\ all[v] # "Active"
  BY DEF WithVersion, Demoted, Good
<1>2. /\ DOMAIN kept \subseteq DOMAIN all
      /\ n \in DOMAIN kept
      /\ \A v \in DOMAIN kept : kept[v] = all[v]
      /\ kept = [v \in DOMAIN kept |-> kept[v]]
  <2> HIDE DEF all
  <2>1. QED
    BY <1>1 DEF BoundVersions, Retained
<1>3. {v \in DOMAIN kept : kept[v] = "Active"} = {n}
  <2> HIDE DEF all, kept
  <2>1. QED
    BY <1>1, <1>2
<1>4. DOMAIN kept \subseteq 1 .. n
  <2> HIDE DEF all, kept
  <2>1. QED
    BY <1>1, <1>2 DEF Good
<1>5. ActiveVersions(t) = {n}
  <2> HIDE DEF kept
  <2>1. QED
    BY <1>3 DEF ActiveVersions
<1>6. Good(t, n + 1)
  <2> HIDE DEF kept
  <2>1. t.active = n /\ t.versions = kept
    OBVIOUS
  <2>2. {t.active} \ {None} = {n}
    BY <2>1 DEF None
  <2>3. QED
    BY <1>2, <1>4, <1>5, <2>1, <2>2 DEF Good
<1>7. NoReturn(old, t)
  <2>1. \A v \in DOMAIN old.versions : v # n
    BY <1>1
  <2>2. QED
    BY <1>5, <2>1 DEF NoReturn
<1>8. QED
  BY <1>6, <1>7

(* upsert_contested: the new version is not active, the others as before.  *)
LEMMA ContestedIsGood ==
  ASSUME NEW old, NEW n \in Nat \ {0}, Good(old, n), NEW revisions, NEW updated
  PROVE  LET t == [active |-> old.active,
                   versions |-> BoundVersions(WithVersion(old.versions, n, "Contested")),
                   revisions |-> revisions, updated |-> updated]
         IN  Good(t, n + 1) /\ NoReturn(old, t)
<1> DEFINE all == WithVersion(old.versions, n, "Contested")
           kept == BoundVersions(all)
           t == [active |-> old.active, versions |-> kept,
                 revisions |-> revisions, updated |-> updated]
<1>1. /\ DOMAIN all = DOMAIN old.versions \cup {n}
      /\ all[n] = "Contested"
      /\ \A v \in DOMAIN old.versions : v # n /\ all[v] = old.versions[v]
  BY DEF WithVersion, Good
<1>2. /\ DOMAIN kept \subseteq DOMAIN all
      /\ \A v \in DOMAIN all : all[v] = "Active" => v \in DOMAIN kept
      /\ \A v \in DOMAIN kept : kept[v] = all[v]
      /\ kept = [v \in DOMAIN kept |-> kept[v]]
  <2> HIDE DEF all
  <2>1. QED
    BY DEF BoundVersions, Retained
<1>3. {v \in DOMAIN kept : kept[v] = "Active"} = ActiveVersions(old)
  <2> HIDE DEF all, kept
  <2>1. QED
    BY <1>1, <1>2 DEF ActiveVersions
<1>4. DOMAIN kept \subseteq 1 .. n
  <2> HIDE DEF all, kept
  <2>1. QED
    BY <1>1, <1>2 DEF Good
<1>5. t.active = old.active /\ t.versions = kept
  OBVIOUS
<1>6. Good(t, n + 1) /\ NoReturn(old, t)
  <2> HIDE DEF kept, t
  <2>1. ActiveVersions(t) = ActiveVersions(old)
    BY <1>3, <1>5 DEF ActiveVersions
  <2>2. Good(t, n + 1)
    BY <1>2, <1>4, <1>5, <2>1 DEF Good
  <2>3. NoReturn(old, t)
    BY <2>1 DEF NoReturn, ActiveVersions
  <2>4. QED
    BY <2>2, <2>3
<1>7. QED
  BY <1>6

(* rollback: the active version is withdrawn, and what replaces it was     *)
(* revised or contested.                                                   *)
LEMMA RolledBackIsGood ==
  ASSUME NEW old, NEW n \in Nat \ {0}, Good(old, n), NEW revisions, NEW updated
  PROVE  LET to == Replacement(old)
             t == [active |-> to, versions |-> Exchanged(old.versions, old.active, to),
                   revisions |-> revisions, updated |-> updated]
         IN  Good(t, n) /\ NoReturn(old, t)
<1> DEFINE to == Replacement(old)
           marked == Exchanged(old.versions, old.active, to)
           t == [active |-> to, versions |-> marked,
                 revisions |-> revisions, updated |-> updated]
<1>1. to = None \/ to \in Replaceable(old)
  <2>1. Replaceable(old) \subseteq 1 .. n - 1
    BY DEF Replaceable, Good
  <2>2. CASE Replaceable(old) # {}
    <3>1. \E v \in Replaceable(old) : \A w \in Replaceable(old) : w <= v
      BY <2>1, <2>2, LargestBelow
    <3>2. QED
      BY <2>2, <3>1 DEF Replacement, Newest
  <2>3. QED
    BY <2>2 DEF Replacement
<1>2. /\ DOMAIN marked = DOMAIN old.versions
      /\ \A v \in DOMAIN old.versions :
           marked[v] = IF v = to THEN "Active"
                       ELSE IF v = old.active THEN "Withdrawn" ELSE old.versions[v]
      /\ marked = [v \in DOMAIN marked |-> marked[v]]
  <2> HIDE DEF to
  <2>1. QED
    BY DEF Exchanged, Marked
<1>3. None \notin DOMAIN old.versions
  BY DEF None, Good
<1>4. \A v \in DOMAIN old.versions : old.versions[v] = "Active" => v = old.active
  BY DEF Good, ActiveVersions
<1>5. {v \in DOMAIN marked : marked[v] = "Active"} = {to} \ {None}
  <2> HIDE DEF to, marked
  <2>1. QED
    BY <1>1, <1>2, <1>3, <1>4 DEF Replaceable
<1>6. t.active = to /\ t.versions = marked
  OBVIOUS
<1>7. Good(t, n) /\ NoReturn(old, t)
  <2> HIDE DEF to, marked, t
  <2>1. ActiveVersions(t) = {to} \ {None}
    BY <1>5, <1>6 DEF ActiveVersions
  <2>2. Good(t, n)
    BY <1>2, <1>6, <2>1 DEF Good
  <2>3. NoReturn(old, t)
    BY <1>1, <2>1 DEF NoReturn, Replaceable
  <2>4. QED
    BY <2>2, <2>3
<1>8. QED
  BY <1>7

(* suspend: nothing is active afterwards.                                  *)
LEMMA SuspendingIsGood ==
  ASSUME NEW old, NEW n \in Nat \ {0}, Good(old, n), NEW revisions, NEW updated
  PROVE  LET t == [active |-> None,
                   versions |-> Marked(old.versions, old.active, "Suspended"),
                   revisions |-> revisions, updated |-> updated]
         IN  Good(t, n) /\ NoReturn(old, t)
<1> DEFINE t == [active |-> None, versions |-> Marked(old.versions, old.active, "Suspended"),
                 revisions |-> revisions, updated |-> updated]
<1>1. t.active = None /\ t.versions = Suspended(old).versions
  BY DEF Suspended
<1>2. Good(Suspended(old), n) /\ ActiveVersions(Suspended(old)) = {}
  BY SuspendedIsGood
<1>3. Good(t, n) /\ ActiveVersions(t) = {}
  <2> HIDE DEF t
  <2>1. QED
    BY <1>1, <1>2, SuspendedIsGood DEF Good, ActiveVersions
<1>4. QED
  BY <1>3 DEF NoReturn

----------------------------------------------------------------------------
(* Every mutation keeps every thread good and revives nothing.             *)
LEMMA StepKeeps ==
  ASSUME RegistryInv, [Next]_vars
  PROVE  RegistryInv' /\ \A s \in DOMAIN threads : NoReturn(threads[s], threads'[s])
<1> DEFINE Kept == RegistryInv' /\ \A s \in DOMAIN threads : NoReturn(threads[s], threads'[s])
<1>0. /\ nextVersion \in Nat \ {0} /\ AllGood(threads, nextVersion)
      /\ nextVersion + 1 \in Nat \ {0}
  BY DEF RegistryInv
<1>1. CASE UNCHANGED <<threads, nextVersion>>
  BY <1>0, <1>1 DEF RegistryInv, AllGood, Good, NoReturn, ActiveVersions
<1>2. ASSUME NEW s \in Scopes, UpsertActive(s) PROVE Kept
  <2>1. Good(Thread(s), nextVersion)
    BY <1>0, ThreadIsGood
  <2> DEFINE t == [active |-> nextVersion,
                   versions |-> BoundVersions(WithVersion(Demoted(Thread(s).versions), nextVersion, "Active")),
                   revisions |-> Recorded(Thread(s), Thread(s).active, nextVersion, "Promote"),
                   updated |-> turn']
  <2>2. Good(t, nextVersion + 1) /\ NoReturn(Thread(s), t)
    BY <1>0, <2>1, PromotedIsGood
  <2>3. nextVersion' = nextVersion + 1 /\ threads' = EnforceActiveCap(Put(s, t))
    BY <1>2 DEF UpsertActive
  <2> HIDE DEF t
  <2>4. AllGood(threads, nextVersion + 1)
    BY <1>0, GoodGrows
  <2>5. s \in DOMAIN threads => NoReturn(threads[s], t)
    BY <2>2 DEF Thread
  <2>6. QED
    BY <1>0, <2>2, <2>3, <2>4, <2>5, UpsertKeeps DEF RegistryInv
<1>3. ASSUME NEW s \in Scopes, UpsertContested(s) PROVE Kept
  <2>1. Good(Thread(s), nextVersion)
    BY <1>0, ThreadIsGood
  <2> DEFINE t == [active |-> Thread(s).active,
                   versions |-> BoundVersions(WithVersion(Thread(s).versions, nextVersion, "Contested")),
                   revisions |-> Recorded(Thread(s), Thread(s).active, nextVersion, "Contest"),
                   updated |-> turn']
  <2>2. Good(t, nextVersion + 1) /\ NoReturn(Thread(s), t)
    BY <1>0, <2>1, ContestedIsGood
  <2>3. nextVersion' = nextVersion + 1 /\ threads' = EnforceActiveCap(Put(s, t))
    BY <1>3 DEF UpsertContested
  <2> HIDE DEF t
  <2>4. AllGood(threads, nextVersion + 1)
    BY <1>0, GoodGrows
  <2>5. s \in DOMAIN threads => NoReturn(threads[s], t)
    BY <2>2 DEF Thread
  <2>6. QED
    BY <1>0, <2>2, <2>3, <2>4, <2>5, UpsertKeeps DEF RegistryInv
<1>4. ASSUME NEW s \in DOMAIN threads, NEW t,
             Good(t, nextVersion) /\ NoReturn(threads[s], t),
             threads' = [threads EXCEPT ![s] = t], nextVersion' = nextVersion
      PROVE  Kept
  <2>1. DOMAIN threads' = DOMAIN threads /\ threads' = [r \in DOMAIN threads' |-> threads'[r]]
    BY <1>0, <1>4 DEF AllGood
  <2>2. \A r \in DOMAIN threads : threads'[r] = IF r = s THEN t ELSE threads[r]
    BY <1>0, <1>4 DEF AllGood
  <2>3. \A r \in DOMAIN threads : Good(threads'[r], nextVersion)
    BY <1>0, <1>4, <2>2 DEF AllGood
  <2>4. \A r \in DOMAIN threads : NoReturn(threads[r], threads[r])
    BY DEF NoReturn, ActiveVersions
  <2>5. \A r \in DOMAIN threads : NoReturn(threads[r], threads'[r])
    BY <1>4, <2>2, <2>4
  <2>6. AllGood(threads', nextVersion')
    BY <1>4, <2>1, <2>3 DEF AllGood
  <2>7. QED
    BY <1>0, <1>4, <2>5, <2>6 DEF RegistryInv
<1>5. ASSUME NEW s \in Scopes, Suspend(s) PROVE Kept
  <2>1. CASE s \notin DOMAIN threads
    BY <1>1, <1>5, <2>1 DEF Suspend
  <2>2. CASE s \in DOMAIN threads
    <3> DEFINE old == threads[s]
               t == [active |-> None,
                     versions |-> Marked(old.versions, old.active, "Suspended"),
                     revisions |-> IF old.active = None THEN old.revisions
                                   ELSE Recorded(old, old.active, old.active, "SuspendActive"),
                     updated |-> turn']
    <3>1. Good(t, nextVersion) /\ NoReturn(old, t)
      BY <1>0, <2>2, SuspendingIsGood DEF AllGood
    <3>2. threads' = [threads EXCEPT ![s] = t] /\ nextVersion' = nextVersion
      BY <1>5, <2>2 DEF Suspend
    <3> HIDE DEF t
    <3>3. QED
      BY <1>4, <2>2, <3>1, <3>2
  <2>3. QED
    BY <2>1, <2>2
<1>6. ASSUME NEW s \in Scopes, Rollback(s) PROVE Kept
  <2>1. CASE s \notin DOMAIN threads
    BY <1>1, <1>6, <2>1 DEF Rollback
  <2>2. CASE s \in DOMAIN threads
    <3> DEFINE old == threads[s]
               to == Replacement(old)
               t == [active |-> to, versions |-> Exchanged(old.versions, old.active, to),
                     revisions |-> IF to = None THEN old.revisions
                                   ELSE Recorded(old, old.active, to, "RollbackPrior"),
                     updated |-> turn']
    <3>1. Good(t, nextVersion) /\ NoReturn(old, t)
      BY <1>0, <2>2, RolledBackIsGood DEF AllGood
    <3>2. threads' = [threads EXCEPT ![s] = t] /\ nextVersion' = nextVersion
      BY <1>6, <2>2 DEF Rollback
    <3> HIDE DEF t
    <3>3. QED
      BY <1>4, <2>2, <3>1, <3>2
  <2>3. QED
    BY <2>1, <2>2
<1>7. QED
  BY <1>1, <1>2, <1>3, <1>5, <1>6 DEF Next, Apply, ObserveOnly, vars

LEMMA RegistryInvariant == Spec => []RegistryInv
<1>1. Init => RegistryInv
  BY DEF Init, RegistryInv, AllGood
<1>2. RegistryInv /\ [Next]_vars => RegistryInv'
  BY StepKeeps
<1>3. QED
  BY <1>1, <1>2, PTL DEF Spec

(***************************************************************************)
(* A thread's active version is retained and is the only one marked so,    *)
(* for every bound and whatever is promoted, contested, suspended, rolled  *)
(* back or capped: a projection never shows a superseded thesis.           *)
(***************************************************************************)
THEOREM OneActiveVersion == Spec => []ActiveIsSole
<1>1. RegistryInv => ActiveIsSole
  BY DEF RegistryInv, AllGood, Good, ActiveIsSole
<1>2. QED
  BY <1>1, RegistryInvariant, PTL

(***************************************************************************)
(* A withdrawn or suspended version is never active again.                 *)
(***************************************************************************)
THEOREM NothingWithdrawnReturns == Spec => WithdrawnStaysOut
<1>1. RegistryInv /\ [Next]_vars =>
        [\A s \in DOMAIN threads : \A v \in DOMAIN threads[s].versions :
           threads[s].versions[v] \in {"Withdrawn", "Suspended"}
             => v \notin ActiveVersions(threads'[s])]_vars
  BY StepKeeps DEF NoReturn
<1>2. QED
  BY <1>1, RegistryInvariant, PTL DEF Spec, WithdrawnStaysOut

----------------------------------------------------------------------------
(* What else a thread keeps: its bounds, and records that connect.         *)
Records(n) == [from : 0 .. n - 1, to : 0 .. n - 1, decision : Decisions]

Chained(t) ==
  /\ t.revisions # << >> => t.active \in {None, Result(t.revisions[1])}
  /\ \A i \in 2 .. Len(t.revisions) :
       t.revisions[i - 1].from \in {None, Result(t.revisions[i])}

Whole(t, n, now) ==
  /\ t.active \in 0 .. n - 1
  /\ \A v \in DOMAIN t.versions : t.versions[v] \in Statuses
  /\ t.revisions \in Seq(Records(n)) /\ Len(t.revisions) <= MaxRevisions
  /\ t.updated \in 0 .. now
  /\ Cardinality(DOMAIN t.versions) <= MaxInactive + 1
  /\ Chained(t)

AllWhole(ts, n, now) ==
  /\ DOMAIN ts \subseteq Scopes
  /\ \A s \in DOMAIN ts : Whole(ts[s], n, now)

(* The inductive invariant of the ledger.                                  *)
LedgerInv ==
  /\ RegistryInv
  /\ turn \in 0 .. MaxTurn
  /\ AllWhole(threads, nextVersion, turn)

(* A set of numbers has a least element unless it is empty.                *)
LEMMA LeastOf ==
  ASSUME NEW S, S \subseteq Nat, S # {}
  PROVE  \E v \in S : \A w \in S : v <= w
<1>1. PICK v \in S : \A w \in S : <<w, v>> \notin OpToRel(<, Nat)
  BY NatLessThanWellFounded, WFMin, Zenon
<1>2. ASSUME NEW w \in S PROVE v <= w
  <2>1. <<w, v>> \notin {e \in Nat \X Nat : e[1] < e[2]}
    BY <1>1 DEF OpToRel
  <2>2. v \in Nat /\ w \in Nat
    OBVIOUS
  <2>3. ~(w < v)
    BY <2>1, <2>2
  <2> QED BY <2>2, <2>3
<1> QED BY <1>2

(* bound_versions keeps at most MaxInactive versions beside an active one: *)
(* all that it keeps but the oldest are newer than the oldest.             *)
LEMMA BoundedVersions ==
  ASSUME RegistryAssumption,
         NEW n \in Nat, NEW versions, DOMAIN versions \subseteq 1 .. n - 1,
         NEW x, \A v \in DOMAIN versions : versions[v] = "Active" => v = x
  PROVE  Cardinality(DOMAIN BoundVersions(versions)) <= MaxInactive + 1
<1> DEFINE Old == Inactive(versions)
           Newer(v) == {w \in Old : w > v}
           Stay == {v \in Old : Cardinality(Newer(v)) < MaxInactive}
<1>0. MaxInactive \in Nat
  BY DEF RegistryAssumption
<1>1. Old \subseteq 1 .. n - 1 /\ IsFiniteSet(Old)
  <2>1. IsFiniteSet(1 .. n - 1)
    BY FS_Interval
  <2>2. Old \subseteq 1 .. n - 1
    BY DEF Inactive
  <2> QED BY <2>1, <2>2, FS_Subset
<1>2. IsFiniteSet(Stay) /\ Cardinality(Stay) \in Nat
  <2>1. Stay \subseteq Old
    OBVIOUS
  <2> QED BY <1>1, <2>1, FS_Subset, FS_CardinalityType
<1>3. Cardinality(Stay) <= MaxInactive
  <2>1. CASE Stay = {}
    <3> HIDE DEF Stay
    <3> QED BY <1>0, <2>1, FS_EmptySet
  <2>2. CASE Stay # {}
    <3>1. Stay \subseteq Nat
      BY <1>1
    <3>2. PICK m \in Stay : \A w \in Stay : m <= w
      BY <2>2, <3>1, LeastOf
    <3>3. Stay \ {m} \subseteq Newer(m)
      <4>1. \A w \in Stay : w \in Old /\ w \in Nat /\ m \in Nat
        BY <3>1
      <4> HIDE DEF Stay, Old
      <4> QED BY <3>2, <4>1
    <3>4. IsFiniteSet(Newer(m)) /\ Cardinality(Newer(m)) \in Nat
      <4>1. Newer(m) \subseteq Old
        OBVIOUS
      <4> QED BY <1>1, <4>1, FS_Subset, FS_CardinalityType
    <3>5. Cardinality(Stay \ {m}) <= Cardinality(Newer(m))
      BY <3>3, <3>4, FS_Subset
    <3>6. Cardinality(Stay \ {m}) = Cardinality(Stay) - 1
      BY <1>2, <3>2, FS_RemoveElement
    <3>7. Cardinality(Newer(m)) < MaxInactive
      BY <3>2
    <3> HIDE DEF Stay, Newer
    <3> QED BY <1>0, <1>2, <3>4, <3>5, <3>6, <3>7
  <2> QED BY <2>1, <2>2
<1>4. DOMAIN BoundVersions(versions) \subseteq Stay \cup {x}
  BY DEF BoundVersions, Retained, Inactive
<1> HIDE DEF Stay
<1>5. /\ IsFiniteSet(Stay \cup {x})
      /\ Cardinality(Stay \cup {x}) \in Nat /\ Cardinality(Stay \cup {x}) <= MaxInactive + 1
  <2>1. /\ IsFiniteSet(Stay \cup {x})
        /\ Cardinality(Stay \cup {x}) = IF x \in Stay THEN Cardinality(Stay) ELSE Cardinality(Stay) + 1
    BY <1>2, FS_AddElement
  <2> QED BY <1>0, <1>2, <1>3, <2>1
<1>6. Cardinality(DOMAIN BoundVersions(versions)) <= Cardinality(Stay \cup {x})
  BY <1>4, <1>5, FS_Subset
<1>7. Cardinality(DOMAIN BoundVersions(versions)) \in Nat
  BY <1>4, <1>5, FS_Subset, FS_CardinalityType
<1> QED BY <1>0, <1>5, <1>6, <1>7

(* The records of a thread after one more.                                 *)
LEMMA RecordedFacts ==
  ASSUME RegistryAssumption, NEW n \in Nat, NEW t, t.revisions \in Seq(Records(n)),
         NEW from \in 0 .. n - 1, NEW to \in 0 .. n - 1, NEW decision \in Decisions
  PROVE  LET r == Recorded(t, from, to, decision)
         IN  /\ r \in Seq(Records(n)) /\ Len(r) <= MaxRevisions
             /\ r # << >> => r[1] = [from |-> from, to |-> to, decision |-> decision]
             /\ \A i \in 2 .. Len(r) : i - 1 \in 1 .. Len(t.revisions) /\ r[i] = t.revisions[i - 1]
<1> DEFINE new == [from |-> from, to |-> to, decision |-> decision]
           all == <<new>> \o t.revisions
           k == IF Len(all) <= MaxRevisions THEN Len(all) ELSE MaxRevisions
<1>0. MaxRevisions \in Nat /\ new \in Records(n)
  BY DEF RegistryAssumption, Records
<1> HIDE DEF new
<1>1. /\ all \in Seq(Records(n)) /\ Len(all) = Len(t.revisions) + 1
      /\ all[1] = new /\ \A i \in 2 .. Len(all) : all[i] = t.revisions[i - 1]
  BY <1>0
<1> HIDE DEF all
<1>2. k \in Nat /\ k <= Len(all) /\ k <= MaxRevisions
  BY <1>0, <1>1
<1> HIDE DEF k
<1>3. /\ SubSeq(all, 1, k) \in Seq(Records(n)) /\ Len(SubSeq(all, 1, k)) = k
      /\ \A i \in 1 .. k : SubSeq(all, 1, k)[i] = all[i]
  BY <1>1, <1>2
<1>4. Recorded(t, from, to, decision) = SubSeq(all, 1, k)
  BY DEF Recorded, all, k, new
<1>5. SubSeq(all, 1, k) # << >> => SubSeq(all, 1, k)[1] = new
  <2>1. SubSeq(all, 1, k) # << >> => k # 0
    BY <1>3
  <2> QED BY <1>1, <1>2, <1>3, <2>1
<1>6. \A i \in 2 .. k : i - 1 \in 1 .. Len(t.revisions) /\ SubSeq(all, 1, k)[i] = t.revisions[i - 1]
  BY <1>1, <1>2, <1>3
<1> QED BY <1>2, <1>3, <1>4, <1>5, <1>6 DEF new

(* A record that starts from what was active keeps the chain.              *)
LEMMA RecordingChains ==
  ASSUME RegistryAssumption, NEW n \in Nat, NEW t, t.revisions \in Seq(Records(n)), Chained(t),
         t.active \in 0 .. n - 1, NEW to \in 0 .. n - 1, NEW decision \in Decisions, NEW u,
         u.revisions = Recorded(t, t.active, to, decision),
         u.active \in {None, Result([from |-> t.active, to |-> to, decision |-> decision])}
  PROVE  u.revisions \in Seq(Records(n)) /\ Len(u.revisions) <= MaxRevisions /\ Chained(u)
<1> DEFINE new == [from |-> t.active, to |-> to, decision |-> decision]
<1>1. /\ u.revisions \in Seq(Records(n)) /\ Len(u.revisions) <= MaxRevisions
      /\ u.revisions # << >> => u.revisions[1] = new
      /\ \A i \in 2 .. Len(u.revisions) :
           i - 1 \in 1 .. Len(t.revisions) /\ u.revisions[i] = t.revisions[i - 1]
  BY RecordedFacts
<1>2. new.from = t.active /\ u.active \in {None, Result(new)}
  OBVIOUS
<1> HIDE DEF new
<1>3. ASSUME NEW i \in 2 .. Len(u.revisions)
      PROVE  u.revisions[i - 1].from \in {None, Result(u.revisions[i])}
  <2>1. CASE i = 2
    <3>1. u.revisions[1] = new /\ u.revisions[2] = t.revisions[1] /\ t.revisions # << >>
      BY <1>1, <2>1
    <3> QED BY <1>2, <2>1, <3>1 DEF Chained
  <2>2. CASE i # 2
    <3>1. i - 1 \in 2 .. Len(u.revisions) /\ i - 1 \in 2 .. Len(t.revisions)
      BY <1>1, <2>2
    <3>2. u.revisions[i] = t.revisions[i - 1] /\ u.revisions[i - 1] = t.revisions[(i - 1) - 1]
      BY <1>1, <3>1
    <3> QED BY <3>1, <3>2 DEF Chained
  <2> QED BY <2>1, <2>2
<1> QED BY <1>1, <1>2, <1>3 DEF Chained

(* A thread stays whole while versions are allocated and turns pass.       *)
LEMMA WholeGrows ==
  ASSUME NEW n \in Nat, NEW m \in Nat, n <= m, NEW now \in Nat, NEW later \in Nat, now <= later,
         NEW t, Whole(t, n, now)
  PROVE  Whole(t, m, later)
<1>1. Records(n) \subseteq Records(m)
  BY DEF Records
<1>2. t.revisions \in Seq(Records(m))
  BY <1>1 DEF Whole
<1> QED BY <1>2 DEF Whole

LEMMA ThreadIsWhole ==
  ASSUME RegistryAssumption, NEW n \in Nat \ {0}, NEW now \in Nat, AllWhole(threads, n, now), NEW s
  PROVE  Whole(Thread(s), n, now)
<1>1. CASE s \in DOMAIN threads
  BY <1>1 DEF Thread, AllWhole
<1>2. CASE s \notin DOMAIN threads
  <2>1. /\ NewThread.active = 0 /\ NewThread.revisions = << >> /\ NewThread.updated = 0
        /\ DOMAIN NewThread.versions = {}
    BY DEF NewThread, None
  <2>2. Cardinality(DOMAIN NewThread.versions) = 0
    BY <2>1, FS_EmptySet
  <2>3. Chained(NewThread)
    BY <2>1 DEF Chained
  <2>4. << >> \in Seq(Records(n)) /\ Len(<< >>) = 0
    OBVIOUS
  <2>5. NewThread.revisions \in Seq(Records(n)) /\ Len(NewThread.revisions) = 0
    BY <2>1, <2>4
  <2>6. MaxRevisions \in Nat /\ MaxInactive \in Nat
    BY DEF RegistryAssumption
  <2>7. Whole(NewThread, n, now)
    BY <2>1, <2>2, <2>3, <2>5, <2>6 DEF Whole
  <2> QED BY <1>2, <2>7 DEF Thread
<1> QED BY <1>1, <1>2

(* The statuses of a thread after one of them changed.                     *)
LEMMA MarkedFacts ==
  ASSUME NEW versions, \A v \in DOMAIN versions : versions[v] \in Statuses,
         NEW x, NEW status \in Statuses
  PROVE  /\ DOMAIN Marked(versions, x, status) = DOMAIN versions
         /\ \A v \in DOMAIN versions : Marked(versions, x, status)[v] \in Statuses
BY DEF Marked

(* The cap leaves bounds and records as they are.                          *)
LEMMA CapKeepsWhole ==
  ASSUME NEW ts, NEW n \in Nat \ {0}, NEW now \in Nat, AllWhole(ts, n, now)
  PROVE  AllWhole(EnforceActiveCap(ts), n, now)
<1>1. DOMAIN EnforceActiveCap(ts) = DOMAIN ts
  BY DEF EnforceActiveCap
<1>2. ASSUME NEW s \in DOMAIN ts PROVE Whole(EnforceActiveCap(ts)[s], n, now)
  <2>1. EnforceActiveCap(ts)[s] \in {ts[s], Suspended(ts[s])}
    BY DEF EnforceActiveCap
  <2>2. Whole(ts[s], n, now)
    BY DEF AllWhole
  <2> DEFINE t == ts[s]
             u == Suspended(t)
  <2>3. /\ u.active = None /\ u.versions = Marked(t.versions, t.active, "Suspended")
        /\ u.revisions = t.revisions /\ u.updated = t.updated
    BY DEF Suspended
  <2>4. /\ DOMAIN u.versions = DOMAIN t.versions
        /\ \A v \in DOMAIN t.versions : u.versions[v] \in Statuses
    <3>1. \A v \in DOMAIN t.versions : t.versions[v] \in Statuses
      BY <2>2 DEF Whole
    <3>2. "Suspended" \in Statuses
      BY DEF Statuses
    <3> QED BY <2>3, <3>1, <3>2, MarkedFacts
  <2>5. Chained(u)
    <3>1. Chained(t)
      BY <2>2 DEF Whole
    <3> HIDE DEF u, t
    <3> QED BY <2>3, <3>1 DEF Chained
  <2>6. Whole(u, n, now)
    <3>1. Whole(t, n, now)
      BY <2>2
    <3> HIDE DEF u, t
    <3> QED BY <2>3, <2>4, <2>5, <3>1 DEF Whole, None
  <2> QED BY <2>1, <2>2, <2>6
<1> QED BY <1>1, <1>2 DEF AllWhole

----------------------------------------------------------------------------
LEMMA PromotedIsWhole ==
  ASSUME RegistryAssumption, NEW n \in Nat \ {0}, NEW now \in Nat, NEW later \in Nat, now <= later,
         NEW old, Good(old, n), Whole(old, n, now), NEW t,
         t.active = n, t.updated = later,
         t.versions = BoundVersions(WithVersion(Demoted(old.versions), n, "Active")),
         t.revisions = Recorded(old, old.active, n, "Promote")
  PROVE  Whole(t, n + 1, later)
<1> DEFINE all == WithVersion(Demoted(old.versions), n, "Active")
<1>1. Whole(old, n + 1, later)
  BY WholeGrows
<1>2. /\ DOMAIN all \subseteq 1 .. (n + 1) - 1
      /\ \A v \in DOMAIN all : all[v] \in Statuses /\ (all[v] = "Active" => v = n)
  BY <1>1 DEF WithVersion, Demoted, Good, Whole, Statuses
<1> HIDE DEF all
<1>3. Cardinality(DOMAIN BoundVersions(all)) <= MaxInactive + 1
  <2>1. n + 1 \in Nat /\ \A v \in DOMAIN all : all[v] = "Active" => v = n
    BY <1>2
  <2> QED BY <1>2, <2>1, BoundedVersions
<1>4. \A v \in DOMAIN BoundVersions(all) : BoundVersions(all)[v] \in Statuses
  BY <1>2 DEF BoundVersions, Retained
<1>5. Result([from |-> old.active, to |-> n, decision |-> "Promote"]) = n
  BY DEF Result
<1>6. t.revisions \in Seq(Records(n + 1)) /\ Len(t.revisions) <= MaxRevisions /\ Chained(t)
  <2>1. /\ n + 1 \in Nat /\ n \in 0 .. (n + 1) - 1 /\ "Promote" \in Decisions
        /\ old.active \in 0 .. (n + 1) - 1 /\ old.revisions \in Seq(Records(n + 1)) /\ Chained(old)
    BY <1>1 DEF Whole, Decisions
  <2> QED BY <1>5, <2>1, RecordingChains
<1> QED BY <1>3, <1>4, <1>6 DEF Whole, all

LEMMA ContestedIsWhole ==
  ASSUME RegistryAssumption, NEW n \in Nat \ {0}, NEW now \in Nat, NEW later \in Nat, now <= later,
         NEW old, Good(old, n), Whole(old, n, now), NEW t,
         t.active = old.active, t.updated = later,
         t.versions = BoundVersions(WithVersion(old.versions, n, "Contested")),
         t.revisions = Recorded(old, old.active, n, "Contest")
  PROVE  Whole(t, n + 1, later)
<1> DEFINE all == WithVersion(old.versions, n, "Contested")
<1>1. Whole(old, n + 1, later)
  BY WholeGrows
<1>2. \A v \in DOMAIN old.versions : old.versions[v] = "Active" => v = old.active
  BY DEF Good, ActiveVersions
<1>3. /\ DOMAIN all \subseteq 1 .. (n + 1) - 1
      /\ \A v \in DOMAIN all : all[v] \in Statuses /\ (all[v] = "Active" => v = old.active)
  BY <1>1, <1>2 DEF WithVersion, Good, Whole, Statuses
<1> HIDE DEF all
<1>4. Cardinality(DOMAIN BoundVersions(all)) <= MaxInactive + 1
  <2>1. n + 1 \in Nat /\ \A v \in DOMAIN all : all[v] = "Active" => v = old.active
    BY <1>3
  <2> QED BY <1>3, <2>1, BoundedVersions
<1>5. \A v \in DOMAIN BoundVersions(all) : BoundVersions(all)[v] \in Statuses
  BY <1>3 DEF BoundVersions, Retained
<1>6. Result([from |-> old.active, to |-> n, decision |-> "Contest"]) = old.active
  BY DEF Result
<1>7. t.revisions \in Seq(Records(n + 1)) /\ Len(t.revisions) <= MaxRevisions /\ Chained(t)
  <2>1. /\ n + 1 \in Nat /\ n \in 0 .. (n + 1) - 1 /\ "Contest" \in Decisions
        /\ old.active \in 0 .. (n + 1) - 1 /\ old.revisions \in Seq(Records(n + 1)) /\ Chained(old)
    BY <1>1 DEF Whole, Decisions
  <2> QED BY <1>6, <2>1, RecordingChains
<1>8. t.active \in 0 .. (n + 1) - 1
  BY <1>1 DEF Whole
<1> QED BY <1>4, <1>5, <1>7, <1>8 DEF Whole, all

LEMMA SuspendingIsWhole ==
  ASSUME RegistryAssumption, NEW n \in Nat \ {0}, NEW now \in Nat, NEW later \in Nat, now <= later,
         NEW old, Whole(old, n, now), NEW t,
         t.active = None, t.updated = later,
         t.versions = Marked(old.versions, old.active, "Suspended"),
         t.revisions = IF old.active = None THEN old.revisions
                       ELSE Recorded(old, old.active, old.active, "SuspendActive")
  PROVE  Whole(t, n, later)
<1>1. /\ DOMAIN t.versions = DOMAIN old.versions
      /\ \A v \in DOMAIN t.versions : t.versions[v] \in Statuses
  <2>1. (\A v \in DOMAIN old.versions : old.versions[v] \in Statuses) /\ "Suspended" \in Statuses
    BY DEF Whole, Statuses
  <2> QED BY <2>1, MarkedFacts
<1>2. t.revisions \in Seq(Records(n)) /\ Len(t.revisions) <= MaxRevisions /\ Chained(t)
  <2>1. CASE old.active = None
    <3>1. t.revisions = old.revisions /\ t.active = None
      BY <2>1
    <3> QED BY <3>1 DEF Whole, Chained
  <2>2. CASE old.active # None
    <3>1. /\ "SuspendActive" \in Decisions /\ old.active \in 0 .. n - 1
          /\ old.revisions \in Seq(Records(n)) /\ Chained(old)
      BY DEF Whole, Decisions
    <3>2. t.revisions = Recorded(old, old.active, old.active, "SuspendActive")
      BY <2>2
    <3> QED BY <3>1, <3>2, RecordingChains
  <2> QED BY <2>1, <2>2
<1> QED BY <1>1, <1>2 DEF Whole, None

LEMMA RolledBackIsWhole ==
  ASSUME RegistryAssumption, NEW n \in Nat \ {0}, NEW now \in Nat, NEW later \in Nat, now <= later,
         NEW old, Good(old, n), Whole(old, n, now), NEW t,
         t.active = Replacement(old), t.updated = later,
         t.versions = Exchanged(old.versions, old.active, Replacement(old)),
         t.revisions = IF Replacement(old) = None THEN old.revisions
                       ELSE Recorded(old, old.active, Replacement(old), "RollbackPrior")
  PROVE  Whole(t, n, later)
<1> DEFINE to == Replacement(old)
<1>1. to \in 0 .. n - 1
  <2>1. Replaceable(old) \subseteq 1 .. n - 1
    BY DEF Replaceable, Good
  <2>2. CASE Replaceable(old) # {}
    <3>1. \E v \in Replaceable(old) : \A w \in Replaceable(old) : w <= v
      BY <2>1, <2>2, LargestBelow
    <3>2. Replacement(old) \in Replaceable(old)
      BY <2>2, <3>1 DEF Replacement, Newest
    <3> QED BY <2>1, <3>2
  <2>3. CASE Replaceable(old) = {}
    BY <2>3 DEF Replacement, None
  <2> QED BY <2>2, <2>3
<1> HIDE DEF to
<1>2. /\ DOMAIN t.versions = DOMAIN old.versions
      /\ \A v \in DOMAIN t.versions : t.versions[v] \in Statuses
  <2> DEFINE half == Marked(old.versions, old.active, "Withdrawn")
  <2>1. /\ \A v \in DOMAIN old.versions : old.versions[v] \in Statuses
        /\ "Withdrawn" \in Statuses /\ "Active" \in Statuses
    BY DEF Whole, Statuses
  <2>2. /\ DOMAIN half = DOMAIN old.versions
        /\ \A v \in DOMAIN old.versions : half[v] \in Statuses
    BY <2>1, MarkedFacts
  <2>3. t.versions = Marked(half, to, "Active")
    BY DEF Exchanged, to
  <2> HIDE DEF half
  <2> QED BY <2>1, <2>2, <2>3, MarkedFacts
<1>3. t.revisions \in Seq(Records(n)) /\ Len(t.revisions) <= MaxRevisions /\ Chained(t)
  <2>1. CASE to = None
    <3>1. t.revisions = old.revisions /\ t.active = None
      BY <2>1 DEF to
    <3> QED BY <3>1 DEF Whole, Chained
  <2>2. CASE to # None
    <3>1. /\ "RollbackPrior" \in Decisions /\ old.active \in 0 .. n - 1
          /\ old.revisions \in Seq(Records(n)) /\ Chained(old)
      BY DEF Whole, Decisions
    <3>2. t.revisions = Recorded(old, old.active, to, "RollbackPrior") /\ t.active = to
      BY <2>2 DEF to
    <3>3. Result([from |-> old.active, to |-> to, decision |-> "RollbackPrior"]) = to
      BY DEF Result
    <3> QED BY <1>1, <3>1, <3>2, <3>3, RecordingChains
  <2> QED BY <2>1, <2>2
<1> QED BY <1>1, <1>2, <1>3 DEF Whole, to

----------------------------------------------------------------------------
(* Every mutation keeps the ledger.                                        *)
LEMMA PutIsWhole ==
  ASSUME NEW s \in Scopes, NEW n \in Nat \ {0}, NEW now \in Nat, NEW later \in Nat, now <= later,
         AllWhole(threads, n, now), NEW t, Whole(t, n + 1, later)
  PROVE  AllWhole(EnforceActiveCap(Put(s, t)), n + 1, later)
<1>1. n + 1 \in Nat \ {0} /\ n + 1 \in Nat /\ n \in Nat /\ n <= n + 1
  OBVIOUS
<1>2. \A r \in DOMAIN threads : Whole(threads[r], n + 1, later)
  BY <1>1, WholeGrows DEF AllWhole
<1>3. AllWhole(Put(s, t), n + 1, later)
  BY <1>2 DEF AllWhole, Put
<1> DEFINE put == Put(s, t)
<1> HIDE DEF put
<1>4. AllWhole(put, n + 1, later)
  BY <1>3 DEF put
<1>5. AllWhole(EnforceActiveCap(put), n + 1, later)
  BY <1>1, <1>4, CapKeepsWhole
<1> QED BY <1>5 DEF put

LEMMA LedgerStep ==
  ASSUME RegistryAssumption, LedgerInv, [Next]_vars
  PROVE  LedgerInv'
<1>0. /\ nextVersion \in Nat \ {0} /\ nextVersion \in Nat /\ nextVersion <= nextVersion
      /\ AllGood(threads, nextVersion)
      /\ turn \in 0 .. MaxTurn /\ turn \in Nat /\ MaxTurn \in Nat
      /\ AllWhole(threads, nextVersion, turn)
  BY DEF LedgerInv, RegistryInv, RegistryAssumption
<1>1. RegistryInv'
  BY StepKeeps DEF LedgerInv
<1>2. CASE UNCHANGED vars
  BY <1>0, <1>1, <1>2 DEF vars, LedgerInv
<1>3. CASE Next
  <2>1. turn' \in 0 .. MaxTurn /\ turn' \in Nat /\ turn <= turn'
    BY <1>0, <1>3 DEF Next, Apply
  <2>2. SUFFICES AllWhole(threads', nextVersion', turn')
    BY <1>1, <2>1 DEF LedgerInv
  <2>3. \A r \in DOMAIN threads : Whole(threads[r], nextVersion, turn')
    BY <1>0, <2>1, WholeGrows DEF AllWhole
  <2>4. CASE ObserveOnly
    BY <1>0, <2>3, <2>4 DEF ObserveOnly, AllWhole
  <2>5. ASSUME NEW s \in Scopes, UpsertActive(s) PROVE AllWhole(threads', nextVersion', turn')
    <3> DEFINE old == Thread(s)
               t == [active |-> nextVersion,
                     versions |-> BoundVersions(WithVersion(Demoted(old.versions), nextVersion, "Active")),
                     revisions |-> Recorded(old, old.active, nextVersion, "Promote"),
                     updated |-> turn']
    <3>1. Good(old, nextVersion) /\ Whole(old, nextVersion, turn)
      BY <1>0, ThreadIsGood, ThreadIsWhole
    <3>2. /\ t.active = nextVersion /\ t.updated = turn'
          /\ t.versions = BoundVersions(WithVersion(Demoted(old.versions), nextVersion, "Active"))
          /\ t.revisions = Recorded(old, old.active, nextVersion, "Promote")
      OBVIOUS
    <3>3. nextVersion' = nextVersion + 1 /\ threads' = EnforceActiveCap(Put(s, t))
      BY <2>5 DEF UpsertActive
    <3> HIDE DEF t, old
    <3>4. Whole(t, nextVersion + 1, turn')
      BY <1>0, <2>1, <3>1, <3>2, PromotedIsWhole
    <3> QED BY <1>0, <2>1, <3>3, <3>4, PutIsWhole
  <2>6. ASSUME NEW s \in Scopes, UpsertContested(s) PROVE AllWhole(threads', nextVersion', turn')
    <3> DEFINE old == Thread(s)
               t == [active |-> old.active,
                     versions |-> BoundVersions(WithVersion(old.versions, nextVersion, "Contested")),
                     revisions |-> Recorded(old, old.active, nextVersion, "Contest"),
                     updated |-> turn']
    <3>1. Good(old, nextVersion) /\ Whole(old, nextVersion, turn)
      BY <1>0, ThreadIsGood, ThreadIsWhole
    <3>2. /\ t.active = old.active /\ t.updated = turn'
          /\ t.versions = BoundVersions(WithVersion(old.versions, nextVersion, "Contested"))
          /\ t.revisions = Recorded(old, old.active, nextVersion, "Contest")
      OBVIOUS
    <3>3. nextVersion' = nextVersion + 1 /\ threads' = EnforceActiveCap(Put(s, t))
      BY <2>6 DEF UpsertContested
    <3> HIDE DEF t, old
    <3>4. Whole(t, nextVersion + 1, turn')
      BY <1>0, <2>1, <3>1, <3>2, ContestedIsWhole
    <3> QED BY <1>0, <2>1, <3>3, <3>4, PutIsWhole
  <2>7. ASSUME NEW s \in DOMAIN threads, NEW t, Whole(t, nextVersion, turn'),
               threads' = [threads EXCEPT ![s] = t], nextVersion' = nextVersion
        PROVE  AllWhole(threads', nextVersion', turn')
    <3>1. DOMAIN threads' = DOMAIN threads
      BY <1>0, <2>7 DEF AllGood
    <3>2. \A r \in DOMAIN threads : threads'[r] = IF r = s THEN t ELSE threads[r]
      BY <1>0, <2>7 DEF AllGood
    <3> QED BY <1>0, <2>3, <2>7, <3>1, <3>2 DEF AllWhole
  <2>8. ASSUME NEW s \in Scopes, Suspend(s) PROVE AllWhole(threads', nextVersion', turn')
    <3>1. CASE s \notin DOMAIN threads
      BY <1>0, <2>3, <2>8, <3>1 DEF Suspend, AllWhole
    <3>2. CASE s \in DOMAIN threads
      <4> DEFINE old == threads[s]
                 t == [active |-> None,
                       versions |-> Marked(old.versions, old.active, "Suspended"),
                       revisions |-> IF old.active = None THEN old.revisions
                                     ELSE Recorded(old, old.active, old.active, "SuspendActive"),
                       updated |-> turn']
      <4>1. Whole(old, nextVersion, turn)
        BY <1>0, <3>2 DEF AllWhole
      <4>2. threads' = [threads EXCEPT ![s] = t] /\ nextVersion' = nextVersion
        BY <2>8, <3>2 DEF Suspend
      <4>3. /\ t.active = None /\ t.updated = turn'
            /\ t.versions = Marked(old.versions, old.active, "Suspended")
            /\ t.revisions = IF old.active = None THEN old.revisions
                             ELSE Recorded(old, old.active, old.active, "SuspendActive")
        OBVIOUS
      <4> HIDE DEF t, old
      <4>4. Whole(t, nextVersion, turn')
        BY <1>0, <2>1, <4>1, <4>3, SuspendingIsWhole
      <4> QED BY <2>7, <3>2, <4>2, <4>4
    <3> QED BY <3>1, <3>2
  <2>9. ASSUME NEW s \in Scopes, Rollback(s) PROVE AllWhole(threads', nextVersion', turn')
    <3>1. CASE s \notin DOMAIN threads
      BY <1>0, <2>3, <2>9, <3>1 DEF Rollback, AllWhole
    <3>2. CASE s \in DOMAIN threads
      <4> DEFINE old == threads[s]
                 to == Replacement(old)
                 t == [active |-> to, versions |-> Exchanged(old.versions, old.active, to),
                       revisions |-> IF to = None THEN old.revisions
                                     ELSE Recorded(old, old.active, to, "RollbackPrior"),
                       updated |-> turn']
      <4>1. Good(old, nextVersion) /\ Whole(old, nextVersion, turn)
        BY <1>0, <3>2 DEF AllGood, AllWhole
      <4>2. threads' = [threads EXCEPT ![s] = t] /\ nextVersion' = nextVersion
        BY <2>9, <3>2 DEF Rollback
      <4>3. /\ t.active = Replacement(old) /\ t.updated = turn'
            /\ t.versions = Exchanged(old.versions, old.active, Replacement(old))
            /\ t.revisions = IF Replacement(old) = None THEN old.revisions
                             ELSE Recorded(old, old.active, Replacement(old), "RollbackPrior")
        OBVIOUS
      <4> HIDE DEF t, old
      <4>4. Whole(t, nextVersion, turn')
        BY <1>0, <2>1, <4>1, <4>3, RolledBackIsWhole
      <4> QED BY <2>7, <3>2, <4>2, <4>4
    <3> QED BY <3>1, <3>2
  <2> QED BY <1>3, <2>4, <2>5, <2>6, <2>8, <2>9 DEF Next, Apply
<1> QED BY <1>2, <1>3

LEMMA LedgerInvariant == Spec => []LedgerInv
<1>1. Init => LedgerInv
  BY RegistryAssumption DEF Init, LedgerInv, RegistryInv, AllGood, AllWhole
<1>2. LedgerInv /\ [Next]_vars => LedgerInv'
  BY RegistryAssumption, LedgerStep
<1> QED BY <1>1, <1>2, PTL DEF Spec

(***************************************************************************)
(* A thread keeps at most one version more than the bound and its newest   *)
(* records, and each record starts from what the one before it left        *)
(* active: for every bound, scope and sequence of mutations.               *)
(***************************************************************************)
THEOREM LedgerStaysWhole == Spec => []LedgerIsWhole
<1>1. LedgerInv => LedgerIsWhole
  <2> SUFFICES ASSUME LedgerInv PROVE TypeOK /\ RevisionsChain
    BY DEF LedgerIsWhole
  <2>1. /\ AllGood(threads, nextVersion) /\ AllWhole(threads, nextVersion, turn)
        /\ nextVersion \in Nat \ {0} /\ turn \in 0 .. MaxTurn
    BY DEF LedgerInv, RegistryInv
  <2>2. RevisionsChain
    BY <2>1 DEF AllWhole, Whole, Chained, RevisionsChain
  <2>3. ASSUME NEW s \in DOMAIN threads, NEW i \in 1 .. Len(threads[s].revisions)
        PROVE  threads[s].revisions[i].decision \in Decisions
    <3>1. threads[s].revisions \in Seq(Records(nextVersion))
      BY <2>1 DEF AllWhole, Whole
    <3>2. threads[s].revisions[i] \in Records(nextVersion)
      BY <3>1
    <3> QED BY <3>2 DEF Records
  <2>4. TypeOK
    BY <2>1, <2>3 DEF AllGood, Good, AllWhole, Whole, TypeOK
  <2> QED BY <2>2, <2>4
<1> QED BY <1>1, LedgerInvariant, PTL

----------------------------------------------------------------------------
(* A thread that is active and newer than every other is nobody's second.  *)
LEMMA NewestIsFirst ==
  ASSUME NEW ts, NEW s, NEW now \in Nat, ts[s].updated = now,
         \A r \in DOMAIN ts \ {s} : ts[r].updated \in Nat /\ ts[r].updated < now,
         s \in Nat
  PROVE  Ahead(ts, s) = {}
<1>1. \A r \in DOMAIN ts : ~Before(ts, r, s)
  BY DEF Before
<1> QED BY <1>1 DEF Ahead

(* What the cap leaves of a thread but its active version.                 *)
LEMMA CapLeaves ==
  ASSUME NEW ts, NEW s \in DOMAIN ts
  PROVE  /\ EnforceActiveCap(ts)[s].updated = ts[s].updated
         /\ EnforceActiveCap(ts)[s].revisions = ts[s].revisions
         /\ Ahead(ts, s) = {} /\ MaxActive \in Nat \ {0} => EnforceActiveCap(ts)[s] = ts[s]
<1>1. EnforceActiveCap(ts)[s] \in {ts[s], Suspended(ts[s])}
  BY DEF EnforceActiveCap
<1>2. Suspended(ts[s]).updated = ts[s].updated /\ Suspended(ts[s]).revisions = ts[s].revisions
  BY DEF Suspended
<1>3. ASSUME Ahead(ts, s) = {}, MaxActive \in Nat \ {0} PROVE EnforceActiveCap(ts)[s] = ts[s]
  <2>1. ~(Cardinality(Ahead(ts, s)) >= MaxActive)
    BY <1>3, FS_EmptySet
  <2> QED BY <2>1 DEF EnforceActiveCap
<1> QED BY <1>1, <1>2, <1>3

(* The records of a scope that a step puts aside name older versions.      *)
LEMMA OthersRecordOlder ==
  ASSUME NEW n \in Nat, NEW t, t.revisions \in Seq(Records(n)), t.revisions # << >>
  PROVE  t.revisions[1].to # n
<1>1. t.revisions[1] \in Records(n)
  OBVIOUS
<1> QED BY <1>1 DEF Records

(* Promoting to a scope in a turn of its own presents it.                  *)
LEMMA PromotionPresents ==
  ASSUME RegistryAssumption, MaxActive # 0, NEW s \in Scopes,
         LedgerInv, LedgerInv', UpsertActive(s), turn' \in Nat,
         \A r \in DOMAIN threads \ {s} : threads[r].updated < turn'
  PROVE  s \in Projections'
<1> DEFINE old == Thread(s)
           t == [active |-> nextVersion,
                 versions |-> BoundVersions(WithVersion(Demoted(old.versions), nextVersion, "Active")),
                 revisions |-> Recorded(old, old.active, nextVersion, "Promote"),
                 updated |-> turn']
           put == Put(s, t)
<1>1. threads' = EnforceActiveCap(put)
  BY DEF UpsertActive
<1>2. t.active = nextVersion /\ t.updated = turn'
  OBVIOUS
<1>3. /\ nextVersion \in Nat \ {0} /\ MaxActive \in Nat \ {0} /\ s \in Nat
      /\ \A r \in DOMAIN threads : threads[r].updated \in Nat
  <2>1. nextVersion \in Nat \ {0} /\ MaxActive \in Nat \ {0} /\ s \in Nat
    BY DEF LedgerInv, RegistryInv, RegistryAssumption
  <2>2. turn \in Nat /\ AllWhole(threads, nextVersion, turn)
    BY DEF LedgerInv, RegistryAssumption
  <2>3. \A r \in DOMAIN threads : threads[r].updated \in Nat
    BY <2>2 DEF AllWhole, Whole
  <2> QED BY <2>1, <2>3
<1> HIDE DEF t
<1>4. /\ s \in DOMAIN put /\ put[s] = t
      /\ \A r \in DOMAIN put \ {s} : put[r].updated \in Nat /\ put[r].updated < turn'
  BY <1>3 DEF Put
<1> HIDE DEF put
<1>5. put[s].updated = turn'
  BY <1>2, <1>4
<1>6. Ahead(put, s) = {}
  BY <1>3, <1>4, <1>5, NewestIsFirst
<1>7. /\ DOMAIN threads' = DOMAIN put /\ threads'[s] = t
      /\ \A r \in DOMAIN put : threads'[r].updated = put[r].updated
  <2>1. DOMAIN threads' = DOMAIN put
    BY <1>1 DEF EnforceActiveCap
  <2> QED BY <1>1, <1>3, <1>4, <1>6, <2>1, CapLeaves
<1>8. threads'[s].updated = turn'
  BY <1>2, <1>7
<1>9. \A r \in DOMAIN threads' \ {s} : threads'[r].updated \in Nat /\ threads'[r].updated < turn'
  BY <1>4, <1>7
<1>10. Ahead(threads', s) = {}
  BY <1>3, <1>8, <1>9, NewestIsFirst
<1>11. s \in DOMAIN threads' /\ threads'[s].active = nextVersion
  BY <1>2, <1>4, <1>7
<1>12. ActiveVersions(threads'[s]) = {threads'[s].active} \ {None}
  BY <1>11 DEF LedgerInv, RegistryInv, AllGood, Good
<1>13. threads'[s].active \in ActiveVersions(threads'[s])
  BY <1>3, <1>11, <1>12 DEF None
<1>14. Cardinality(Ahead(threads', s)) < MaxActive
  BY <1>3, <1>10, FS_EmptySet
<1> QED BY <1>11, <1>13, <1>14 DEF Projections

(* A step that records a promotion of the next version at s made it.       *)
LEMMA PromotionIsOfTheScope ==
  ASSUME RegistryAssumption, NEW s \in Scopes, LedgerInv, Next,
         nextVersion' # nextVersion, Promoted(s)
  PROVE  UpsertActive(s)
<1>0. /\ nextVersion \in Nat
      /\ \A r \in DOMAIN threads : threads[r].revisions \in Seq(Records(nextVersion))
  BY DEF LedgerInv, RegistryInv, AllWhole, Whole
<1>1. ASSUME NEW r \in Scopes, NEW t, threads' = EnforceActiveCap(Put(r, t)), s # r PROVE FALSE
  <2> DEFINE put == Put(r, t)
  <2>1. DOMAIN threads' = DOMAIN put /\ s \in DOMAIN threads'
    BY <1>1 DEF EnforceActiveCap, Promoted
  <2>2. s \in DOMAIN put /\ s \in DOMAIN threads /\ put[s] = threads[s]
    BY <1>1, <2>1 DEF Put
  <2> HIDE DEF put
  <2>3. threads'[s].revisions = threads[s].revisions
    BY <1>1, <2>2, CapLeaves DEF put
  <2> QED BY <1>0, <2>2, <2>3, OthersRecordOlder DEF Promoted
<1>2. ASSUME NEW r \in Scopes, UpsertActive(r) PROVE r = s
  BY <1>1, <1>2 DEF UpsertActive
<1>3. ASSUME NEW r \in Scopes, UpsertContested(r) PROVE FALSE
  <2> DEFINE old == Thread(r)
             t == [active |-> old.active,
                   versions |-> BoundVersions(WithVersion(old.versions, nextVersion, "Contested")),
                   revisions |-> Recorded(old, old.active, nextVersion, "Contest"),
                   updated |-> turn']
             put == Put(r, t)
  <2>1. threads' = EnforceActiveCap(put)
    BY <1>3 DEF UpsertContested
  <2>2. t.revisions = Recorded(old, old.active, nextVersion, "Contest")
    OBVIOUS
  <2> HIDE DEF t
  <2>3. r = s
    BY <1>1, <2>1
  <2>4. s \in DOMAIN put /\ put[s] = t
    BY <2>3 DEF Put
  <2> HIDE DEF put
  <2>5. threads'[s].revisions = t.revisions
    BY <2>1, <2>4, CapLeaves
  <2>6. Whole(old, nextVersion, turn) /\ nextVersion \in Nat \ {0}
    BY ThreadIsWhole DEF LedgerInv, RegistryInv, RegistryAssumption
  <2> HIDE DEF old
  <2>7. Whole(old, nextVersion + 1, turn)
    <3>1. /\ nextVersion \in Nat /\ nextVersion + 1 \in Nat /\ nextVersion <= nextVersion + 1
          /\ turn \in Nat /\ turn <= turn
      BY <2>6 DEF LedgerInv, RegistryAssumption
    <3> QED BY <2>6, <3>1, WholeGrows
  <2>8. /\ nextVersion + 1 \in Nat /\ old.active \in 0 .. (nextVersion + 1) - 1
        /\ nextVersion \in 0 .. (nextVersion + 1) - 1 /\ "Contest" \in Decisions
        /\ old.revisions \in Seq(Records(nextVersion + 1))
    BY <2>6, <2>7 DEF Whole, Decisions
  <2>9. t.revisions # << >> => t.revisions[1] = [from |-> old.active, to |-> nextVersion, decision |-> "Contest"]
    BY <2>2, <2>8, RecordedFacts
  <2>10. t.revisions # << >> /\ t.revisions[1].decision = "Promote"
    BY <2>5 DEF Promoted
  <2> QED BY <2>9, <2>10
<1> QED BY <1>2, <1>3 DEF Next, Apply, ObserveOnly, Suspend, Rollback

(***************************************************************************)
(* What is promoted in a turn of its own is presented, however many scopes *)
(* are active, whenever anything may be presented at all.                  *)
(***************************************************************************)
THEOREM PromotedIsPresented == ASSUME MaxActive # 0 PROVE Spec => PromotionShows
<1>1. LedgerInv /\ LedgerInv' /\ [Next]_vars =>
        [\A s \in Scopes :
           /\ nextVersion' # nextVersion /\ Promoted(s)
           /\ \A r \in DOMAIN threads \ {s} : threads[r].updated < turn'
           => s \in Projections']_vars
  <2> SUFFICES ASSUME LedgerInv, LedgerInv', Next, NEW s \in Scopes,
                      nextVersion' # nextVersion, Promoted(s),
                      \A r \in DOMAIN threads \ {s} : threads[r].updated < turn'
               PROVE  s \in Projections'
    BY DEF vars
  <2>1. UpsertActive(s)
    BY RegistryAssumption, PromotionIsOfTheScope
  <2>2. turn' \in Nat
    BY RegistryAssumption DEF LedgerInv, RegistryAssumption
  <2> QED BY <2>1, <2>2, RegistryAssumption, PromotionPresents
<1> QED BY <1>1, LedgerInvariant, PTL DEF Spec, PromotionShows
============================================================================
