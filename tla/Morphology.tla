----------------------------- MODULE Morphology -----------------------------
(***************************************************************************)
(* The morphology runtime: which bundle of lexemes a process works with,   *)
(* the index from a surface back to the lexemes that have it, and the      *)
(* lookups in both directions. A bundle is refused whole at its first      *)
(* fault; an override that is refused leaves the embedded bundle.          *)
(***************************************************************************)
EXTENDS Naturals, Sequences, FiniteSets, Faults

CONSTANTS
  LowerWord,  \* what lowercasing does to each word
  Embedded    \* the bundle compiled into the program

(* [lemma, pos, gender, animacy, tier, quality, forms]; `forms` gives the   *)
(* surface of each case and number, "" where the bundle has none.           *)
Cases == {"nom", "gen", "dat", "acc", "ins", "prep"}
CaseNumbers == << "nom_sg", "nom_pl", "gen_sg", "gen_pl", "dat_sg", "dat_pl",
                  "acc_sg", "acc_pl", "ins_sg", "ins_pl", "prep_sg", "prep_pl" >>
CaseOrder == <<"nom", "gen", "dat", "acc", "ins", "prep">>
ParseCaseNumber(key) ==
  LET k == CHOOSE i \in DOMAIN CaseNumbers : CaseNumbers[i] = key
  IN  <<CaseOrder[(k + 1) \div 2], IF k % 2 = 1 THEN "sg" ELSE "pl">>

TrustRank(tier) ==
  CASE tier = "curated" -> 4 [] tier = "reviewed" -> 3
    [] tier = "auto_verified" -> 2 [] tier = "auto_coverage" -> 1

(* How a flat entry is read: a word the reader does not know becomes the    *)
(* default of its field, except for the tier, which makes the file unread.  *)
Tiers == {"curated", "reviewed", "auto_verified", "auto_coverage"}
ReadFeature(known, word, default) == IF word \in known THEN word ELSE default
ReadEntry(flat) ==
  [lemma |-> flat.lemma, tier |-> flat.tier, quality |-> flat.quality, forms |-> flat.forms,
   pos |-> ReadFeature({"noun", "adjective", "verb", "adverb", "pronoun"}, flat.pos, "other"),
   gender |-> ReadFeature({"masculine", "feminine", "neuter"}, flat.gender, "unknown"),
   animacy |-> ReadFeature({"animate", "inanimate"}, flat.animacy, "unknown")]
Readable(lexemes) == \A i \in DOMAIN lexemes : lexemes[i].tier \in Tiers
GetForm(entry, case, number) ==
  entry.forms[CHOOSE key \in {CaseNumbers[i] : i \in DOMAIN CaseNumbers} :
                ParseCaseNumber(key) = <<case, number>>]
-----------------------------------------------------------------------------
(* A directory's bundle: the lexemes, and the manifest with what it claims. *)
BundleFault(bundle) ==
  LET claim == bundle.manifest IN
  FirstFault(<< <<claim.version # 1, "version">>, <<~ claim.repository, "repository">>,
                <<~ claim.commit, "commit">>,
                <<claim.license \notin {"MIT", "Apache-2.0", "BSD-3-Clause", "Unlicense"},
                  "license">>,
                <<claim.hash = "none", "no hash">>,
                <<claim.hash # bundle.hash, "hash mismatch">>,
                <<~ Readable(bundle.lexemes), "unreadable">>,
                <<bundle.lexemes = << >>, "empty">>,
                <<\E i \in DOMAIN bundle.lexemes : bundle.lexemes[i].lemma = "", "no lemma">> >>)

SameLemma(a, b) == LowerWord[a.lemma] = LowerWord[b.lemma]
IndexFault(lexemes) ==
  IF \E i, j \in DOMAIN lexemes : /\ SameLemma(lexemes[i], lexemes[j])
                                 /\ ReadEntry(lexemes[i]) # ReadEntry(lexemes[j])
  THEN "duplicate lemma" ELSE "ok"

(* The runtime keeps one entry per lemma; its index is read off them.       *)
RuntimeOf(bundle) ==
  [lexemes |-> {ReadEntry(bundle.lexemes[i]) : i \in DOMAIN bundle.lexemes},
   hash |-> bundle.hash, manifest |-> bundle.manifest]
LoadFault(bundle) ==
  FirstFault(<< <<bundle.missing = "lexemes", "unread lexemes">>,
                <<bundle.missing = "manifest", "unread manifest">>,
                <<BundleFault(bundle) # "ok", "manifest">>,
                <<IndexFault(bundle.lexemes) # "ok", "duplicate lemma">> >>)
GetRuntime(override) ==
  IF override.given /\ LoadFault(override) = "ok"
  THEN RuntimeOf(override) ELSE RuntimeOf(Embedded)
-----------------------------------------------------------------------------
(* The lexemes of a surface, with the cases and numbers it stands in, and   *)
(* those of them that are trusted most.                                     *)
FormAt(candidate) == candidate.entry.forms[CaseNumbers[candidate.at]]
Candidates(runtime, surface) ==
  {c \in [entry : runtime.lexemes, at : DOMAIN CaseNumbers] :
     FormAt(c) # "" /\ LowerWord[FormAt(c)] = LowerWord[surface]}
Trust(c) == <<TrustRank(c.entry.tier), c.entry.quality>>
NotLess(a, b) == a[1] > b[1] \/ (a[1] = b[1] /\ a[2] >= b[2])
MostTrusted(candidates) ==
  {c \in candidates : \A d \in candidates : NotLess(Trust(c), Trust(d))}
Lemmas(candidates) == {c.entry.lemma : c \in candidates}

(* A surface of several lemmas is ambiguous only among the most trusted.    *)
Lemmatize(runtime, surface) ==
  LET best == MostTrusted(Candidates(runtime, surface))
      first == CHOOSE c \in best : \A d \in best : c.at <= d.at
  IN  CASE best = {} -> [kind |-> "unknown"]
        [] Cardinality(Lemmas(best)) > 1 -> [kind |-> "ambiguous"]
        [] OTHER -> [kind |-> "resolved", lemma |-> first.entry.lemma,
                     case |-> ParseCaseNumber(CaseNumbers[first.at]),
                     gender |-> first.entry.gender]

Lexeme(runtime, lemma) == {e \in runtime.lexemes : e.lemma = lemma}
(* The form of a lemma, "" when the bundle lacks the lemma or the form.     *)
Inflect(runtime, lemma, case, number) ==
  IF Lexeme(runtime, lemma) = {} THEN ""
  ELSE GetForm(CHOOSE e \in Lexeme(runtime, lemma) : TRUE, case, number)

(* Generating a form and analysing it again, in the strength asked for.     *)
RoundTrips(runtime, lemma, case, number, surface, class) ==
  LET found == Lemmatize(runtime, surface)
  IN  IF class = "bijective" THEN found.kind = "resolved" /\ found.lemma = lemma
      ELSE /\ found.kind # "unknown"
           /\ \E c \in Candidates(runtime, surface) :
                c.entry.lemma = lemma /\ ParseCaseNumber(CaseNumbers[c.at]) = <<case, number>>
=============================================================================
