---------------------------- MODULE FactRegistry ----------------------------
(***************************************************************************)
(* The immutable model of curated facts: what may be registered, and what  *)
(* a reader may select from it with and without a date.                    *)
(***************************************************************************)
EXTENDS Faults, Sequences, FiniteSets, SequencesExt

NoDate == 0

ValidateShape(r) ==
  FirstFault(<< <<r.id = "", "validation">>,
                <<r.pack = "" \/ r.ref = "", "missing provenance">>,
                <<r.confidence > 10000, "validation">> >>)

FactFault(records, i, concepts, relations) ==
  LET r == records[i] IN
  FirstFault(<< <<ValidateShape(r) # "ok", ValidateShape(r)>>,
                <<\E j \in 1..(i - 1) : records[j].id = r.id, "duplicate fact">>,
                <<{r.subject, r.object} \ concepts # {}, "unknown concept">>,
                <<r.relation \notin relations, "unknown relation">> >>)

(* The records are taken one by one, then the bindings of the predicates,   *)
(* then, with every record in place, the conditions between the facts.      *)
RegistryFault(records, bindings, concepts, relations) ==
  LET ids == {records[i].id : i \in DOMAIN records}
      faults == [i \in DOMAIN records |-> FactFault(records, i, concepts, relations)]
      ofRecords == FirstFault([i \in DOMAIN records |-> <<faults[i] # "ok", faults[i]>>])
  IN
  FirstFault(
    << <<ofRecords # "ok", ofRecords>>,
       <<\E i \in DOMAIN bindings :
           \/ bindings[i].fact \notin ids
           \/ \E j \in 1..(i - 1) : bindings[j].predicate = bindings[i].predicate,
         "bad binding">>,
       <<\E i \in DOMAIN records : ~ records[i].conditions \subseteq ids, "unknown fact">> >>)

(* A registry: the records, one per id, and the fact of each bound predicate. *)
Registered(records, bindings) ==
  [records |-> ToSet(records), bindings |-> ToSet(bindings)]

Lookup(registry, id) == {r \in registry.records : r.id = id}
SelectCurated(r) == IF r.status = "curated" THEN "ok" ELSE "not curated"

Select(registry, id) ==
  LET found == Lookup(registry, id)
      r == CHOOSE x \in found : TRUE
  IN  IF found = {} THEN "unknown fact"
      ELSE IF r.from # NoDate \/ r.to # NoDate THEN "temporal validity required"
      ELSE SelectCurated(r)

SelectAt(registry, id, asOf) ==
  LET found == Lookup(registry, id)
      r == CHOOSE x \in found : TRUE
  IN  IF found = {} THEN "unknown fact"
      ELSE IF SelectCurated(r) # "ok" THEN SelectCurated(r)
      ELSE IF \/ r.from # NoDate /\ asOf < r.from
              \/ r.to # NoDate /\ asOf >= r.to
           THEN "outside validity window" ELSE "ok"

FactsOfPredicate(registry, predicate) ==
  {b.fact : b \in {x \in registry.bindings : x.predicate = predicate}}

SelectByPredicate(registry, predicate) ==
  IF FactsOfPredicate(registry, predicate) = {} THEN "no fact"
  ELSE Select(registry, CHOOSE f \in FactsOfPredicate(registry, predicate) : TRUE)

BoundFacts(registry) == {b.fact : b \in registry.bindings}
=============================================================================
