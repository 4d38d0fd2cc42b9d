----------------------- MODULE PerspectiveRegistry ------------------------
(***************************************************************************)
(* The registry of endorsed perspectives (qxfx0-self/perspective.rs): one  *)
(* thread per scope, holding versions of a thesis of which at most one is  *)
(* active, and the newest revision records.  Mutations promote, contest,   *)
(* suspend and roll back; at most MaxActive scopes are presented.          *)
(*                                                                         *)
(* A version is its ordinal, so a thread's versions are a function from    *)
(* ordinals to statuses, newest highest.  Theses, confidence and profiles  *)
(* are data; thread.status is written and never read.                      *)
(***************************************************************************)
EXTENDS Integers, Sequences, FiniteSets

CONSTANTS
  Scopes,         \* numbers in the order of PerspectiveScope
  MaxActive,      \* max_active_perspectives
  MaxRevisions,   \* max_revisions_per_scope
  MaxInactive,    \* max_inactive_versions
  MaxVersions,    \* bound: versions allocated in a run
  MaxTurn         \* bound: last turn of a run

ASSUME RegistryAssumption ==
  /\ Scopes \subseteq Nat /\ IsFiniteSet(Scopes)
  /\ MaxActive \in Nat /\ MaxInactive \in Nat /\ MaxRevisions \in Nat
  /\ MaxVersions \in Nat /\ MaxTurn \in Nat

None == 0   \* no version: ordinals start at 1

Statuses == {"Active", "Revised", "Contested", "Suspended", "Withdrawn"}

(* What a revision record says was decided: "Promote" stands for           *)
(* PromoteEndorsed and ReviseActive, "Contest" for Quarantine and          *)
(* AcceptBounded, which apply treats alike.                                *)
Decisions == {"Promote", "Contest", "SuspendActive", "RollbackPrior"}

VARIABLES
  threads,      \* scope -> [active, versions, revisions, updated]
  nextVersion,  \* next_version_ordinal
  turn          \* last_updated_turn

vars == <<threads, nextVersion, turn>>

NewThread == [active |-> None, versions |-> [v \in {} |-> "Active"],
              revisions |-> << >>, updated |-> 0]

Thread(s) == IF s \in DOMAIN threads THEN threads[s] ELSE NewThread

Put(s, t) == [r \in DOMAIN threads \cup {s} |-> IF r = s THEN t ELSE threads[r]]

(* Revision records are kept newest first and truncated.                   *)
Recorded(t, from, to, decision) ==
  LET all == <<[from |-> from, to |-> to, decision |-> decision]>> \o t.revisions
  IN  SubSeq(all, 1, IF Len(all) <= MaxRevisions THEN Len(all) ELSE MaxRevisions)

WithVersion(versions, new, status) ==
  [v \in DOMAIN versions \cup {new} |-> IF v = new THEN status ELSE versions[v]]

(* The statuses of a thread once `v` has another one.                      *)
Marked(versions, v, status) ==
  [w \in DOMAIN versions |-> IF w = v THEN status ELSE versions[w]]

(* bound_versions: the active version and the newest inactive ones stay.   *)
Inactive(versions) == {v \in DOMAIN versions : versions[v] # "Active"}
Retained(versions) ==
  {v \in DOMAIN versions :
     \/ versions[v] = "Active"
     \/ Cardinality({w \in Inactive(versions) : w > v}) < MaxInactive}
BoundVersions(versions) == [v \in Retained(versions) |-> versions[v]]

Suspended(t) ==
  [active |-> None, versions |-> Marked(t.versions, t.active, "Suspended"),
   revisions |-> t.revisions, updated |-> t.updated]

(* enforce_active_cap: threads in presentation order, newest turn first,   *)
(* then by scope; past MaxActive they are suspended.                       *)
Before(ts, r, s) ==
  \/ ts[r].updated > ts[s].updated
  \/ ts[r].updated = ts[s].updated /\ r < s

(* Mutant: the cap presents the oldest threads.                            *)
AheadOldestFirst(ts, s) == {r \in DOMAIN ts : ts[r].active # None /\ Before(ts, s, r)}

Ahead(ts, s) == {r \in DOMAIN ts : ts[r].active # None /\ Before(ts, r, s)}

EnforceActiveCap(ts) ==
  [s \in DOMAIN ts |->
     IF ts[s].active # None /\ Cardinality(Ahead(ts, s)) >= MaxActive
       THEN Suspended(ts[s]) ELSE ts[s]]

(* Mutant: the version that was active stays marked so.                    *)
KeepActive(versions) == versions

(* The prior active version of a thread that gets a new one.               *)
Demoted(versions) ==
  [v \in DOMAIN versions |->
     IF versions[v] = "Active" THEN "Revised" ELSE versions[v]]

(* upsert_active: a new active version supersedes the prior one.           *)
UpsertActive(s) ==
  LET old == Thread(s)
  IN  /\ nextVersion <= MaxVersions
      /\ nextVersion' = nextVersion + 1
      /\ threads' = EnforceActiveCap(Put(s,
           [active |-> nextVersion,
            versions |-> BoundVersions(WithVersion(Demoted(old.versions), nextVersion, "Active")),
            revisions |-> Recorded(old, old.active, nextVersion, "Promote"),
            updated |-> turn']))

(* upsert_contested: a new version beside the active one, which stays.     *)
UpsertContested(s) ==
  LET old == Thread(s)
  IN  /\ nextVersion <= MaxVersions
      /\ nextVersion' = nextVersion + 1
      /\ threads' = EnforceActiveCap(Put(s,
           [active |-> old.active,
            versions |-> BoundVersions(WithVersion(old.versions, nextVersion, "Contested")),
            revisions |-> Recorded(old, old.active, nextVersion, "Contest"),
            updated |-> turn']))

(* suspend: recorded only when something was active.                       *)
Suspend(s) ==
  /\ threads' =
       IF s \notin DOMAIN threads THEN threads
       ELSE LET old == threads[s]
            IN  [threads EXCEPT ![s] =
                   [active |-> None,
                    versions |-> Marked(old.versions, old.active, "Suspended"),
                    revisions |-> IF old.active = None THEN old.revisions
                                  ELSE Recorded(old, old.active, old.active, "SuspendActive"),
                    updated |-> turn']]
  /\ UNCHANGED nextVersion

(* Mutant: a suspended version may come back.                              *)
ReplaceableEvenSuspended(t) ==
  {v \in DOMAIN t.versions :
     v # t.active /\ t.versions[v] \in {"Revised", "Contested", "Suspended"}}

(* The versions rollback may return to.                                    *)
Replaceable(t) ==
  {v \in DOMAIN t.versions :
     v # t.active /\ t.versions[v] \in {"Revised", "Contested"}}

Newest(S) == CHOOSE v \in S : \A w \in S : w <= v
Exchanged(versions, from, to) == Marked(Marked(versions, from, "Withdrawn"), to, "Active")
Replacement(t) == IF Replaceable(t) = {} THEN None ELSE Newest(Replaceable(t))

(* Mutant: a rollback leaves no record.                                    *)
RollbackUnrecorded(s) ==
  /\ threads' =
       IF s \notin DOMAIN threads THEN threads
       ELSE LET old == threads[s]
                to == Replacement(old)
            IN  [threads EXCEPT ![s] =
                   [active |-> to,
                    versions |-> Exchanged(old.versions, old.active, to),
                    revisions |-> old.revisions,
                    updated |-> turn']]
  /\ UNCHANGED nextVersion

(* rollback: the active version is withdrawn for the newest one before it, *)
(* if there is one; the cap is not enforced again.                         *)
Rollback(s) ==
  /\ threads' =
       IF s \notin DOMAIN threads THEN threads
       ELSE LET old == threads[s]
                to == Replacement(old)
            IN  [threads EXCEPT ![s] =
                   [active |-> to,
                    versions |-> Exchanged(old.versions, old.active, to),
                    revisions |-> IF to = None THEN old.revisions
                                  ELSE Recorded(old, old.active, to, "RollbackPrior"),
                    updated |-> turn']]
  /\ UNCHANGED nextVersion

ObserveOnly == UNCHANGED <<threads, nextVersion>>

(* apply: a mutation carries the turn it was decided in.                   *)
Apply ==
  /\ turn' \in turn .. MaxTurn
  /\ \/ ObserveOnly
     \/ \E s \in Scopes : UpsertActive(s)
     \/ \E s \in Scopes : UpsertContested(s)
     \/ \E s \in Scopes : Suspend(s)
     \/ \E s \in Scopes : Rollback(s)

Init ==
  /\ threads = [s \in {} |-> NewThread]
  /\ nextVersion = 1
  /\ turn = 0

Next == Apply

Spec == Init /\ [][Next]_vars

----------------------------------------------------------------------------
ActiveVersions(t) == {v \in DOMAIN t.versions : t.versions[v] = "Active"}

(* build_active_projections: the presented scopes; one whose active        *)
(* version is not found among its versions yields nothing.                 *)
Projections ==
  {s \in DOMAIN threads : /\ threads[s].active \in ActiveVersions(threads[s])
                          /\ Cardinality(Ahead(threads, s)) < MaxActive}

(* What a record leaves active: a contest leaves what it found.            *)
Result(record) ==
  CASE record.decision \in {"Promote", "RollbackPrior"} -> record.to
    [] record.decision = "Contest"       -> record.from
    [] record.decision = "SuspendActive" -> None

----------------------------------------------------------------------------
(***************************************************************************)
(* Types and bounds: however suspensions, rollbacks and the cap add to the *)
(* inactive versions, a thread keeps at most one more than the bound.      *)
(***************************************************************************)
TypeOK ==
  /\ DOMAIN threads \subseteq Scopes
  /\ nextVersion \in Nat \ {0} /\ turn \in 0 .. MaxTurn
  /\ \A s \in DOMAIN threads :
       LET t == threads[s]
       IN  /\ t.active \in 0 .. nextVersion - 1
           /\ DOMAIN t.versions \subseteq 1 .. nextVersion - 1
           /\ \A v \in DOMAIN t.versions : t.versions[v] \in Statuses
           /\ Len(t.revisions) <= MaxRevisions
           /\ \A i \in 1 .. Len(t.revisions) : t.revisions[i].decision \in Decisions
           /\ t.updated \in 0 .. turn
           /\ Cardinality(DOMAIN t.versions) <= MaxInactive + 1

(***************************************************************************)
(* A thread's active version is retained and is the only one marked so:    *)
(* build_projection always finds it, and no superseded thesis is presented.*)
(***************************************************************************)
ActiveIsSole ==
  \A s \in DOMAIN threads : ActiveVersions(threads[s]) = {threads[s].active} \ {None}

(***************************************************************************)
(* The lineage explains the present: each record starts from what the one  *)
(* before it left active, or from nothing, and the newest one says what is *)
(* active, unless the cap or a rollback to nothing took it away.           *)
(***************************************************************************)
RevisionsChain ==
  \A s \in DOMAIN threads :
    LET t == threads[s]
    IN  /\ t.revisions # << >> => t.active \in {None, Result(t.revisions[1])}
        /\ \A i \in 2 .. Len(t.revisions) :
             t.revisions[i - 1].from \in {None, Result(t.revisions[i])}

(***************************************************************************)
(* The ledger stays bounded and explainable: within its limits, and every  *)
(* record of a thread connected to the next (bound_versions, revisions).   *)
(***************************************************************************)
LedgerIsWhole == TypeOK /\ RevisionsChain

(***************************************************************************)
(* A withdrawn or suspended version is never active again: a return to it  *)
(* takes a new version.                                                    *)
(***************************************************************************)
WithdrawnStaysOut ==
  [][\A s \in DOMAIN threads : \A v \in DOMAIN threads[s].versions :
       threads[s].versions[v] \in {"Withdrawn", "Suspended"}
         => v \notin ActiveVersions(threads'[s])]_vars

(***************************************************************************)
(* Active projections are newest-first: what is promoted in a turn of its  *)
(* own is presented, however many scopes are active.                       *)
(***************************************************************************)
Promoted(s) ==
  /\ s \in DOMAIN threads' /\ threads'[s].revisions # << >>
  /\ threads'[s].revisions[1].to = nextVersion
  /\ threads'[s].revisions[1].decision = "Promote"

PromotionShows ==
  [][\A s \in Scopes :
       /\ nextVersion' # nextVersion /\ Promoted(s)
       /\ \A r \in DOMAIN threads \ {s} : threads[r].updated < turn'
       => s \in Projections']_vars
============================================================================
