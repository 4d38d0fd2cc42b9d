----------------------------- MODULE PlanSurface -----------------------------
(***************************************************************************)
(* From an authorized plan to its surface: the frames say what a relation  *)
(* governs, the morphology bundle gives the forms, and resolution proves   *)
(* that nothing is missing before a word is put next to another.           *)
(***************************************************************************)
EXTENDS Morphology

CONSTANTS
  FrameRows,     \* the rows of the valency lexicon
  Allomorphs,    \* long forms of prepositions, by <<preposition, lemma>>
  Overrides,     \* the data directories a process may be started with
  Claims,        \* the claims an audited topic may make
  Absent

VARIABLES runtime, override, captured, claim, syntax, resolved, refusal, spoken

surfaceVars == <<runtime, override, captured, claim, syntax, resolved, refusal, spoken>>
-----------------------------------------------------------------------------
(* A row: [relation, columns, kind, forms, complement]; a complement is     *)
(* [kind, preposition, case].                                               *)
HeadFault(row) ==
  FirstFault(<< <<row.kind \notin {"finite", "agreeing"}, "head kind">>,
                <<row.kind = "agreeing" /\ (Len(row.forms) # 4 \/ "" \in {row.forms[i] : i \in DOMAIN row.forms}),
                  "agreement">> >>)
ComplementFault(complement) ==
  FirstFault(<< <<complement.kind \notin {"none", "uninflected", "direct", "prep"}, "complement">>,
                <<complement.kind = "prep" /\ "" \in {complement.preposition, complement.case},
                  "complement">>,
                <<complement.kind \in {"direct", "prep"} /\ complement.case \notin Cases, "case">> >>)
FrameFault(rows) ==
  LET bad == {i \in DOMAIN rows :
                \/ rows[i].columns # 4 \/ HeadFault(rows[i]) # "ok"
                \/ ComplementFault(rows[i].complement) # "ok"
                \/ \E j \in 1..(i - 1) : rows[j].relation = rows[i].relation}
  IN  bad # {}
Frames(rows) == IF FrameFault(rows) THEN {} ELSE {rows[i] : i \in DOMAIN rows}
FrameOf(relation) == {f \in Frames(FrameRows) : f.relation = relation}
TheFrame(relation) == CHOOSE f \in FrameOf(relation) : TRUE

Governs(complement) == complement.kind \in {"direct", "prep"}

(* Masculine, feminine, neuter, plural.                                     *)
Realize(frame, gender) ==
  IF frame.kind = "finite" THEN frame.forms[1]
  ELSE frame.forms[CASE gender = "feminine" -> 2 [] gender = "neuter" -> 3 [] OTHER -> 1]

Allomorph(base, lemma) ==
  IF <<base, lemma>> \in DOMAIN Allomorphs THEN Allomorphs[<<base, lemma>>] ELSE base
StartsWithWord(text, word) == Len(text) > 1 /\ text[1] = word
-----------------------------------------------------------------------------
Lexical(lemma) == [kind |-> "lexical", text |-> <<lemma>>, case |-> Absent, embedded |-> FALSE]
Fixed(text, case) == [kind |-> "fixed", text |-> text, case |-> case, embedded |-> FALSE]
FixedWithPreposition(text, case) == [Fixed(text, case) EXCEPT !.embedded = TRUE]

(* The program stops where its own bundle does not load; a claim has an     *)
(* object, and a phrase that is there is not Absent.                        *)
SurfaceAssumption ==
  /\ LoadFault(Embedded) = "ok"
  /\ \A q \in Claims : /\ q.object \in Seq(STRING) \ {<< >>} /\ q.statements \in Nat
                        /\ Fixed(q.object, Absent) # Absent

(* The syntax of a thesis: its object is a lemma when it is one word, and a *)
(* phrase in the case its relation governs when it is several.              *)
ComplementFor(frame, object) ==
  LET c == frame.complement IN
  CASE c.kind = "none" -> Absent
    [] c.kind = "uninflected" -> Fixed(object, Absent)
    [] Governs(c) /\ Len(object) > 1 ->
         IF c.kind = "prep" /\ StartsWithWord(object, c.preposition)
         THEN FixedWithPreposition(object, c.case) ELSE Fixed(object, c.case)
    [] OTHER -> Lexical(object[1])

(* The thesis is a clause; each statement after it is carried as it stands. *)
ThesisNode(thesis) ==
  [occurrence |-> 1, kind |-> "clause", subject |-> Lexical(thesis.subject),
   relation |-> thesis.relation,
   complement |-> ComplementFor(TheFrame(thesis.relation), thesis.object)]
FixedNode(i, surface) == [occurrence |-> i, kind |-> "fixed", surface |-> surface]
SynTree(thesis) ==
  <<ThesisNode(thesis)>> \o [i \in 1..thesis.statements |-> FixedNode(i + 1, thesis.surface)]
-----------------------------------------------------------------------------
(* A form is used only if it reads back as the lemma it was made from.      *)
FormFault_Unverified(morphology, lemma, case) ==
  FirstFault(<< <<Lexeme(morphology, lemma) = {}, "unknown lemma">>,
                <<Inflect(morphology, lemma, case, "sg") = "", "incomplete form">> >>)
FormFault(morphology, lemma, case) ==
  FirstFault(<< <<Lexeme(morphology, lemma) = {}, "unknown lemma">>,
                <<Inflect(morphology, lemma, case, "sg") = "", "incomplete form">>,
                <<~ RoundTrips(morphology, lemma, case, "sg",
                               Inflect(morphology, lemma, case, "sg"), "bijective"),
                  "incomplete form">> >>)

(* What a governing head refuses in its complement.                         *)
GovernedFault(morphology, frame, np) ==
  LET c == frame.complement IN
  IF np = Absent THEN "missing complement"
  ELSE IF np.kind = "lexical" THEN FormFault(morphology, np.text[1], c.case)
  ELSE FirstFault(<< <<np.case # c.case, "case mismatch">>,
                     <<np.embedded /\ c.kind # "prep", "unexpected preposition">>,
                     <<np.embedded /\ ~ StartsWithWord(np.text, c.preposition),
                       "preposition mismatch">> >>)
ComplementRefused(morphology, frame, np) ==
  CASE frame.complement.kind = "none" -> IF np # Absent THEN "unexpected complement" ELSE "ok"
    [] frame.complement.kind = "uninflected" ->
         IF np # Absent /\ np.kind = "lexical"
         THEN FormFault(morphology, np.text[1], "nom") ELSE "ok"
    [] OTHER -> GovernedFault(morphology, frame, np)
NodeFault(morphology, node) ==
  IF node.kind = "fixed" THEN "ok"
  ELSE IF FrameOf(node.relation) = {} THEN "valency"
  ELSE IF node.subject.kind = "fixed" THEN "uninflectable subject"
  ELSE LET fault == FormFault(morphology, node.subject.text[1], "nom")
       IN  IF fault # "ok" THEN fault
           ELSE ComplementRefused(morphology, TheFrame(node.relation), node.complement)

SubjectAgreement(morphology, lemma) == (CHOOSE e \in Lexeme(morphology, lemma) : TRUE).gender
PrepositionOf(frame, np) ==
  IF frame.complement.kind # "prep" \/ np.embedded THEN << >>
  ELSE IF np.kind = "lexical" THEN <<Allomorph(frame.complement.preposition, np.text[1])>>
  ELSE <<frame.complement.preposition>>
ComplementSurface(morphology, frame, np) ==
  IF np = Absent THEN << >>
  ELSE IF np.kind = "fixed" THEN np.text
  ELSE <<Inflect(morphology, np.text[1],
                 IF Governs(frame.complement) THEN frame.complement.case ELSE "nom", "sg")>>
ResolvedNode(morphology, node) ==
  IF node.kind = "fixed" THEN node
  ELSE LET f == TheFrame(node.relation)
           lemma == node.subject.text[1]
       IN [occurrence |-> node.occurrence, kind |-> "clause",
           subject |-> Inflect(morphology, lemma, "nom", "sg"),
           head |-> Realize(f, SubjectAgreement(morphology, lemma)),
           preposition |-> IF node.complement = Absent THEN << >>
                           ELSE PrepositionOf(f, node.complement),
           complement |-> ComplementSurface(morphology, f, node.complement)]

(* What resolution counts, and the assets it worked with.                   *)
CountNodes(nodes, P(_)) == Cardinality({i \in DOMAIN nodes : P(nodes[i])})
Certificate(nodes) ==
  [clauses |-> CountNodes(nodes, LAMBDA n : n.kind = "clause"),
   fixed |-> CountNodes(nodes, LAMBDA n : n.kind = "fixed"),
   embedded |-> CountNodes(nodes, LAMBDA n :
                  n.kind = "clause" /\ n.complement # Absent /\ n.complement.embedded),
   valency |-> "frames", morphology |-> runtime.hash]
-----------------------------------------------------------------------------
SurfaceInit ==
  /\ runtime = Absent
  /\ override \in Overrides
  /\ captured \in [valency : {"frames"}, morphology : {b.hash : b \in Overrides \cup {Embedded}}]
  /\ claim \in Claims
  /\ syntax = Absent /\ resolved = Absent /\ spoken = Absent /\ refusal = "none"

(* The runtime is made once in a process, at its first use.                 *)
StartRuntime ==
  /\ runtime = Absent
  /\ runtime' = GetRuntime(override)
  /\ UNCHANGED <<override, captured, claim, syntax, resolved, refusal, spoken>>

BuildSynTree ==
  /\ runtime # Absent /\ syntax = Absent /\ refusal = "none"
  /\ IF FrameOf(claim.relation) = {}
     THEN refusal' = "valency" /\ UNCHANGED syntax
     ELSE syntax' = SynTree(claim) /\ UNCHANGED refusal
  /\ UNCHANGED <<runtime, override, captured, claim, resolved, spoken>>

Occurrences(nodes) == {nodes[i].occurrence : i \in DOMAIN nodes}
RealizationFault ==
  LET faulty == {i \in DOMAIN syntax : NodeFault(runtime, syntax[i]) # "ok"} IN
  FirstFault(<< <<Len(syntax) # claim.claims \/ Occurrences(syntax) # 1..claim.claims,
                  "occurrence mismatch">>,
                <<faulty # {}, "realization">>,
                <<runtime.hash # captured.morphology, "snapshot mismatch">> >>)
TryRealize ==
  /\ syntax # Absent /\ resolved = Absent /\ refusal = "none"
  /\ IF RealizationFault # "ok"
     THEN refusal' = RealizationFault /\ UNCHANGED resolved
     ELSE /\ resolved' = [nodes |-> [i \in DOMAIN syntax |-> ResolvedNode(runtime, syntax[i])],
                          certificate |-> Certificate(syntax)]
          /\ UNCHANGED refusal
  /\ UNCHANGED <<runtime, override, captured, claim, syntax, spoken>>

Words(node) ==
  IF node.kind = "fixed" THEN <<node.surface>>
  ELSE <<node.subject, node.head>> \o node.preposition \o node.complement
Linearize ==
  /\ resolved # Absent /\ spoken = Absent
  /\ spoken' = [i \in DOMAIN resolved.nodes |-> Words(resolved.nodes[i])]
  /\ UNCHANGED <<runtime, override, captured, claim, syntax, resolved, refusal>>

SurfaceNext == StartRuntime \/ BuildSynTree \/ TryRealize \/ Linearize
SurfaceSpec == SurfaceInit /\ [][SurfaceNext]_surfaceVars
-----------------------------------------------------------------------------
(* A reader of the spoken thesis finds the claim that was authorized: the   *)
(* first word is a form of its subject and of no other lexeme, the head     *)
(* agrees with the gender the bundle gives that subject, a governed         *)
(* preposition is said in front of the object and not once more, an object  *)
(* of several words is there word for word, and an object of one word reads *)
(* back as the object, in the case the relation governs.                    *)
SpellingsOf(preposition) ==
  {preposition} \cup {Allomorphs[k] : k \in {a \in DOMAIN Allomorphs : a[1] = preposition}}
ThesisReadsBack ==
  spoken # Absent =>
    LET words == spoken[1]
        f == TheFrame(claim.relation)
        c == f.complement
        rest == SubSeq(words, 3, Len(words))
        subject == Lemmatize(runtime, words[1])
        said == IF c.kind = "prep" /\ ~ StartsWithWord(claim.object, c.preposition)
                THEN Tail(rest) ELSE rest
    IN  /\ subject.kind = "resolved" /\ subject.lemma = claim.subject
        /\ f.kind = "agreeing" => words[2] = Realize(f, subject.gender)
        /\ c.kind = "none" => rest = << >>
        /\ c.kind = "prep" => rest[1] \in SpellingsOf(c.preposition)
        /\ (c.kind = "uninflected" \/ (Governs(c) /\ Len(claim.object) > 1)) => said = claim.object
        /\ (Governs(c) /\ Len(claim.object) = 1) =>
             /\ Len(said) = 1
             /\ Lemmatize(runtime, said[1]).kind = "resolved"
             /\ Lemmatize(runtime, said[1]).lemma = claim.object[1]
             /\ \E x \in Candidates(runtime, said[1]) :
                  ParseCaseNumber(CaseNumbers[x.at]) = <<c.case, "sg">>
        /\ captured.morphology = runtime.hash
=============================================================================
