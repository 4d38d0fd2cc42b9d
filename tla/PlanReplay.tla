----------------------------- MODULE PlanReplay -----------------------------
(***************************************************************************)
(* The record a V2 turn leaves: the contract of assets it ran under, the   *)
(* words it selected and the surface they must give again; and the three   *)
(* levels at which a record is verified later, after assets moved on or    *)
(* the record came back other than it was written.                         *)
(* A digest stands for the very value it is computed over, so two digests  *)
(* agree exactly when the values do.                                       *)
(***************************************************************************)
EXTENDS Faults, Sequences, FiniteSets

CONSTANTS
  None,          \* no record, no contract, no answer
  MaxReleases    \* bound: how often an asset or the binary is replaced

VARIABLES
  assets,      \* the version of each asset in use, the binary among them
  record,      \* the record of the last turn, None without one
  said,        \* the clauses that turn realized and the assets it ran under
  audit        \* the answer to a verification of this record, None before one

replayVars == <<assets, record, said, audit>>

PartsOf ==
  [authority |-> {"packs", "rules", "policy"}, planning |-> {"budgets", "canon"},
   realization |-> {"valency", "grammar", "morphology", "depth"},
   selection |-> {"self_policy"}]
Domains == DOMAIN PartsOf
Assets == {"binary"} \cup UNION {PartsOf[d] : d \in Domains}
-----------------------------------------------------------------------------
Snapshot(domain, versions) ==
  LET content == [p \in PartsOf[domain] |-> versions[p]]
  IN  [content |-> content, fingerprint |-> content]

Contract(versions) ==
  LET snaps == [d \in Domains |-> Snapshot(d, versions)]
  IN  [snaps |-> snaps, digest |-> snaps]

ContractHolds(contract) ==
  /\ \A d \in Domains : contract.snaps[d].fingerprint = contract.snaps[d].content
  /\ contract.digest = contract.snaps
-----------------------------------------------------------------------------
(* A captured node is the words it was resolved to, in the order they stand. *)
SurfaceOf(nodes, contract) ==
  [clauses |-> nodes, digest |-> nodes,
   realization |-> contract.snaps["realization"].fingerprint]

Bundle(input, contract, root, nodes) ==
  LET body == [schema |-> 2, input |-> input, contract |-> contract.digest,
               root |-> root, nodes |-> nodes, surface |-> SurfaceOf(nodes, contract)]
  IN  [body |-> body, digest |-> body]

BundleHolds(bundle) == bundle.body.schema = 2 /\ bundle.digest = bundle.body

(* The captured words are put together again and nothing else is consulted. *)
Reproduce(bundle) ==
  LET again == [bundle.body.surface EXCEPT !.clauses = bundle.body.nodes,
                                           !.digest = bundle.body.nodes]
  IN  IF BundleHolds(bundle) /\ again = bundle.body.surface THEN again.clauses ELSE None

(* Every field of the record but the digest itself goes into the digest.    *)
StageDigest_NoBinary(r) == <<r.schema, r.contract, r.selection, r.replay>>
StageDigest(r) == <<r.schema, r.contract, r.selection, r.binary, r.replay>>

TurnRecord(versions, topic, nodes) ==
  LET contract == Contract(versions)
      selection == [root |-> <<topic>>,
                    policy |-> contract.snaps["selection"].content["self_policy"]]
      r == [schema |-> 2, contract |-> contract, selection |-> selection,
            binary |-> versions["binary"],
            replay |-> Bundle(topic, contract, selection.root, nodes)]
  IN  [schema |-> r.schema, contract |-> r.contract, selection |-> r.selection,
       binary |-> r.binary, replay |-> r.replay, digest |-> StageDigest(r)]

RecordFault(r) ==
  FirstFault(<<
    <<~ ContractHolds(r.contract) \/ ~ BundleHolds(r.replay), "integrity">>,
    <<\/ r.schema # 2 \/ r.replay.body.contract # r.contract.digest
      \/ r.replay.body.root # r.selection.root, "bundle">>,
    <<r.selection.policy # r.contract.snaps["selection"].content["self_policy"],
      "selection">>,
    <<r.digest # StageDigest(r), "integrity">> >>)

(* Authority compares one domain with what the verifier holds, reproduction *)
(* all four and the binary, in the order of the list.                       *)
Verify(r, level, contract, binary) ==
  LET missing == contract = None \/ (level = "reproduction" /\ binary = None)
      Differs(d) == contract # None /\ contract.snaps[d] # r.contract.snaps[d]
      fault == FirstFault(
        << <<RecordFault(r) # "ok", RecordFault(r)>> >>
        \o (IF level = "integrity" THEN << >>
            ELSE << <<missing, "unavailable">>, <<Differs("authority"), "authority">> >>)
        \o (IF level # "reproduction" THEN << >>
            ELSE << <<Differs("planning"), "planning">>,
                    <<Differs("realization"), "realization">>,
                    <<Differs("selection"), "selection">>,
                    <<contract # None /\ contract.digest # r.contract.digest, "contract">>,
                    <<binary # r.binary, "binary">>,
                    <<Reproduce(r.replay) = None, "surface">> >>))
  IN  [level |-> level, verdict |-> fault,
       surface |-> IF fault = "ok" /\ level = "reproduction"
                   THEN Reproduce(r.replay) ELSE None]
-----------------------------------------------------------------------------
ReplayInit ==
  /\ assets = [a \in Assets |-> 1]
  /\ record = None /\ said = None /\ audit = None

(* A release replaces an asset or the binary.                               *)
Replace(asset) ==
  /\ assets[asset] = 1 /\ Cardinality({a \in Assets : assets[a] = 2}) < MaxReleases
  /\ assets' = [assets EXCEPT ![asset] = 2]
  /\ audit' = None
  /\ UNCHANGED <<record, said>>

(* The record is read back with one of its fields other than it was written. *)
Misread ==
  /\ record # None /\ record.digest = StageDigest(record)
  /\ record' \in
       {[record EXCEPT !.contract.snaps[d].content = [p \in DOMAIN @ |-> 0]] : d \in Domains}
       \cup {[record EXCEPT !.contract.digest = None], [record EXCEPT !.binary = 0],
             [record EXCEPT !.binary = assets["binary"]], [record EXCEPT !.selection.root = None],
             [record EXCEPT !.selection.policy = 0], [record EXCEPT !.replay.body.nodes = << >>],
             [record EXCEPT !.replay.body.surface.clauses = << >>],
             [record EXCEPT !.replay.body.input = None], [record EXCEPT !.replay.digest = None],
             [record EXCEPT !.digest = None]}
  /\ audit' = None
  /\ UNCHANGED <<assets, said>>

Replay(level) ==
  /\ record # None /\ audit = None
  /\ \E withContract, withBinary \in BOOLEAN :
       audit' = Verify(record, level,
                       IF withContract THEN Contract(assets) ELSE None,
                       IF withBinary THEN assets["binary"] ELSE None)
  /\ UNCHANGED <<assets, record, said>>

ReplayNext == \/ \E a \in Assets : Replace(a)
              \/ Misread
              \/ \E l \in {"integrity", "authority", "reproduction"} : Replay(l)
-----------------------------------------------------------------------------
(* A verification vouches for the turn that was: whichever field of the     *)
(* record came back wrong and whichever asset has been replaced, a record   *)
(* that passes is the one written, at the authority level under the same    *)
(* authority, and what reproduction gives again is what the turn said,      *)
(* under every asset and the binary it ran on.                              *)
ReplayTellsTheTurn ==
  [][audit = None /\ audit' # None /\ audit'.verdict = "ok" =>
       /\ record.binary = said.under["binary"]
       /\ record.contract = Contract(said.under)
       /\ record.replay.body.nodes = said.clauses
       /\ audit'.level \in {"authority", "reproduction"} =>
            \A p \in PartsOf["authority"] : assets[p] = said.under[p]
       /\ audit'.level = "reproduction" =>
            audit'.surface = said.clauses /\ assets = said.under]_replayVars
=============================================================================
