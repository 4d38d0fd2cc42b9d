------------------------------ MODULE FactPacks ------------------------------
(***************************************************************************)
(* The set of active knowledge packs: each pack checked against its        *)
(* manifest, their concepts and facts gathered, the whole refused when two *)
(* packs disagree; and the resolution of an input phrase to a concept.     *)
(***************************************************************************)
EXTENDS FactRegistry

CONSTANTS
  PackPool,      \* the packs that may be activated
  Atoms,         \* the atoms of the seed graph
  Relations,     \* the typed relations
  Fold,          \* the normalised words a surface word becomes, often one
  LemmaOf,       \* the lemma of a normalised word, itself when unresolved
  Phrases,       \* the phrases asked about
  MaxActive      \* bound: packs active at once

(* Packs are read from lists, and words are folded to words. *)
PoolAssumption ==
  /\ MaxActive \in Nat
  /\ \A pack \in PackPool : /\ pack.concepts \in Seq(ToSet(pack.concepts))
                            /\ pack.facts \in Seq(ToSet(pack.facts))
  /\ \A phrase \in Phrases :
       phrase \in Seq({w \in DOMAIN Fold : Fold[w] \in Seq(DOMAIN LemmaOf)})

VARIABLES active, world   \* the packs in order of activation; what they load to

packVars == <<active, world>>

(* The lists of each pack, or the words of each word, put one after the other. *)
GatheredUpTo(lists) ==
  LET upTo[n \in 0..Len(lists)] == IF n = 0 THEN << >> ELSE upTo[n - 1] \o lists[n]
  IN  upTo
Gathered(lists) == GatheredUpTo(lists)[Len(lists)]

Normalize(phrase) == Gathered([i \in DOMAIN phrase |-> Fold[phrase[i]]])
-----------------------------------------------------------------------------
ManifestFault(pack) ==
  FirstFault(<< <<pack.id = "" \/ pack.version = 0 \/ ~ pack.provenance, "identity">>,
                <<DOMAIN pack.hashes # {"concepts", "facts", "relations"}, "files">>,
                <<\E f \in DOMAIN pack.hashes : pack.hashes[f] # f, "hash">> >>)

(* What a pack may not bring to the packs before it. *)
PackFault(packs, i) ==
  LET pack == packs[i]
      seen == {packs[j] : j \in 1..(i - 1)}
      conceptsSeen == UNION {{c.id : c \in ToSet(p.concepts)} : p \in seen}
      factsSeen == UNION {{f.record.id : f \in ToSet(p.facts)} : p \in seen}
      relationIds == ToSet(pack.relations)
  IN
  FirstFault(
    << <<ManifestFault(pack) # "ok", "manifest">>,
       <<\E p \in seen : p.id = pack.id, "duplicate pack">>,
       <<pack.concepts = << >> \/ pack.relations = << >>, "empty pack">>,
       <<~ relationIds \subseteq Relations, "unknown relation">>,
       <<Cardinality(relationIds) # Len(pack.relations), "repeated relation">>,
       <<\E k \in DOMAIN pack.concepts :
           LET c == pack.concepts[k] IN
           \/ c.pack # pack.id
           \/ c.id \in conceptsSeen
           \/ \E j \in 1..(k - 1) : pack.concepts[j].id = c.id,
         "duplicate concept">>,
       <<\E k \in DOMAIN pack.facts :
           LET f == pack.facts[k].record IN
           \/ f.pack # pack.id
           \/ f.relation \notin relationIds
           \/ f.id \in factsSeen
           \/ \E j \in 1..(k - 1) : pack.facts[j].record.id = f.id,
         "duplicate fact">> >>)

(* Two facts with one subject and one relation must name one object. *)
InConflict(facts) ==
  \E f, g \in facts :
    f.subject = g.subject /\ f.relation = g.relation /\ f.object # g.object

(* The fingerprint sorts the identities of the packs before it hashes them. *)
Fingerprint(packs) == {<<p.id, p.version, p.hashes>> : p \in ToSet(packs)}

ConceptFault(concepts) ==
  \E i \in DOMAIN concepts :
    LET c == concepts[i] IN
    \/ \E j \in 1..(i - 1) : concepts[j].id = c.id
    \/ c.atom \notin Atoms
    \/ c.lemma = << >> \/ c.pack = "" \/ c.version = 0

(* Every alias keeps all the concepts that register it. *)
Register_Overwrites(concepts, alias) ==
  LET owners == {i \in DOMAIN concepts :
                   alias \in {Normalize(a) : a \in {concepts[i].lemma} \cup concepts[i].aliases}}
  IN  {concepts[i].id : i \in {k \in owners : \A j \in owners : j <= k}}
Register(concepts, alias) ==
  {c.id : c \in {x \in ToSet(concepts) :
                   alias \in {Normalize(a) : a \in {x.lemma} \cup x.aliases} \ {<< >>}}}

RefusedWorld(why) ==
  [verdict |-> why, registry |-> Registered(<< >>, << >>), concepts |-> << >>,
   fingerprint |-> {}]

(* Packs are read in order and the first fault refuses the whole set. *)
Load(packs) ==
  LET concepts == Gathered([i \in DOMAIN packs |-> packs[i].concepts])
      facts == Gathered([i \in DOMAIN packs |-> packs[i].facts])
      records == [i \in DOMAIN facts |-> facts[i].record]
      bindings == [i \in DOMAIN facts |->
                     [predicate |-> facts[i].predicate, fact |-> facts[i].record.id]]
      conceptIds == {concepts[i].id : i \in DOMAIN concepts}
      ofPack == FirstFault([i \in DOMAIN packs |->
                              <<PackFault(packs, i) # "ok", PackFault(packs, i)>>])
      ofRegistry == RegistryFault(records, bindings, conceptIds, Relations)
      fault == FirstFault(<< <<packs = << >>, "empty set">>,
                             <<ofPack # "ok", ofPack>>,
                             <<InConflict(ToSet(records)), "fact conflict">>,
                             <<ConceptFault(concepts), "concept">>,
                             <<ofRegistry # "ok", ofRegistry>> >>)
  IN  IF fault # "ok" THEN RefusedWorld(fault)
      ELSE [verdict |-> "ok", registry |-> Registered(records, bindings),
            concepts |-> concepts, fingerprint |-> Fingerprint(packs)]
-----------------------------------------------------------------------------
(* Spans of the phrase that some concept registers, the longest first and   *)
(* of those the leftmost; the lemmas are tried when no surface matches.     *)
Spans(concepts, words) ==
  {x \in (1..Len(words)) \X (0..Len(words)) :
     /\ x[1] + x[2] <= Len(words)
     /\ Register(concepts, SubSeq(words, x[2] + 1, x[2] + x[1])) # {}}
SpanOf_ShortestFirst(concepts, words) ==
  LET spans == Spans(concepts, words)
  IN  IF spans = {} THEN << >>
      ELSE CHOOSE x \in spans : \A y \in spans :
             x[1] < y[1] \/ (x[1] = y[1] /\ x[2] <= y[2])
Longest(spans) ==
  CHOOSE x \in spans : \A y \in spans : x[1] > y[1] \/ (x[1] = y[1] /\ x[2] <= y[2])
SpanOf(concepts, words) ==
  LET spans == Spans(concepts, words) IN IF spans = {} THEN << >> ELSE Longest(spans)

Matched(concepts, phrase) ==
  LET words == Normalize(phrase)
      lemmas == [i \in DOMAIN words |-> LemmaOf[words[i]]]
      direct == SpanOf(concepts, words)
      viaLemma == SpanOf(concepts, lemmas)
      Entry(pass, span, of) ==
        [pass |-> pass, length |-> span[1], start |-> span[2],
         owners |-> Register(concepts, SubSeq(of, span[2] + 1, span[2] + span[1]))]
  IN  IF direct # << >> THEN Entry(1, direct, words)
      ELSE IF viaLemma # << >> THEN Entry(2, viaLemma, lemmas)
      ELSE [pass |-> 3, length |-> 0, start |-> 0, owners |-> {}]

Resolve(concepts, phrase) ==
  LET owners == Matched(concepts, phrase).owners
  IN  IF owners = {} THEN "unknown"
      ELSE IF Cardinality(owners) > 1 THEN "ambiguous"
      ELSE CHOOSE c \in owners : TRUE
-----------------------------------------------------------------------------
PacksInit == active = << >> /\ world = Load(<< >>)

Activate(pack) ==
  /\ Len(active) < MaxActive
  /\ active' = Append(active, pack)
  /\ world' = Load(active')

PacksNext == \E pack \in PackPool : Activate(pack)
PacksSpec == PacksInit /\ [][PacksNext]_packVars
-----------------------------------------------------------------------------
Orders(packs) ==
  {[i \in DOMAIN packs |-> packs[p[i]]] :
     p \in {q \in [DOMAIN packs -> DOMAIN packs] : ToSet(q) = DOMAIN packs}}

(* What a reader of a loaded set can tell from it. *)
Meaning(w) ==
  [ok |-> w.verdict = "ok", registry |-> w.registry, fingerprint |-> w.fingerprint,
   resolved |-> [p \in Phrases |-> Resolve(w.concepts, p)]]

(* The order in which the packs are listed decides nothing: whether the set *)
(* is accepted, what it holds, the fingerprint it is traced by and what     *)
(* every phrase resolves to are those of any other order.                   *)
LoadIsOrderFree == \A order \in Orders(active) : Meaning(Load(order)) = Meaning(world)

Outranks(a, b) ==
  \/ a.pass < b.pass
  \/ a.pass = b.pass /\ a.length > b.length
  \/ a.pass = b.pass /\ a.length = b.length /\ a.start < b.start

(* A pack that shares an alias makes it ambiguous and never takes it over:  *)
(* when one more pack turns a resolved phrase to another concept, it did so *)
(* by a better span of the phrase.                                          *)
AliasesAreNotTakenOver ==
  [][\A p \in Phrases :
       LET was == Matched(world.concepts, p)
           now == Matched(world'.concepts, p)
       IN  /\ world.verdict = "ok" /\ world'.verdict = "ok"
           /\ Cardinality(was.owners) = 1 /\ Cardinality(now.owners) = 1
           /\ was.owners # now.owners
           => Outranks(now, was)]_packVars
=============================================================================
