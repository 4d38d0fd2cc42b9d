------------------------------ MODULE CodeTypes ------------------------------
(***************************************************************************)
(* Types of the code registry: how they are written, how they are read     *)
(* from a signature, and when a result can be handed on as an argument.    *)
(* A text is the sequence of its tokens.                                   *)
(***************************************************************************)
EXTENDS Naturals, Sequences, FiniteSets, SequencesExt

CONSTANTS Primitives, ShortNames,   \* names of at most two letters, the first a capital
          Lifetimes, Sizes           \* how lengths of arrays are written

(* The name of a primitive, a parameter or a generic type is a text; of a   *)
(* reference it is how it borrows, and of an array its length, if known.    *)
Ty(kind, base, args) == [kind |-> kind, base |-> base, args |-> args]
Unknown == Ty("unknown", <<"_">>, << >>)
Unit == Ty("primitive", <<"()">>, << >>)
Prim(name) == Ty("primitive", <<name>>, << >>)
TypeParam(name) == Ty("param", <<name>>, << >>)
Generic(base, args) == Ty("generic", base, args)
RefTo(inner) == Ty("reference", <<"&">>, <<inner>>)
MutRefTo(inner) == Ty("reference", <<"&mut">>, <<inner>>)
IsGeneric(t, bases) == t.kind = "generic" /\ t.base \in {<<b>> : b \in bases}

Joined(texts, between) ==
  IF texts = << >> THEN << >>
  ELSE texts[1] \o FlattenSeq([i \in 1..(Len(texts) - 1) |-> between \o texts[i + 1]])

RECURSIVE Display(_)
Display(t) ==
  LET Args == [i \in DOMAIN t.args |-> Display(t.args[i])] IN
  CASE t.kind = "generic" /\ t.args # << >> -> t.base \o <<"<">> \o Joined(Args, <<",">>) \o <<">">>
    [] t.kind \in {"param", "bound"} /\ t.args # << >> -> t.base \o <<":">> \o Joined(Args, <<"+">>)
    [] t.kind = "reference" -> t.base \o Args[1]
    [] t.kind = "tuple" -> <<"(">> \o Joined(Args, <<",">>) \o <<")">>
    [] t.kind = "array" /\ t.base # << >> -> <<"[">> \o Args[1] \o <<";">> \o t.base \o <<"]">>
    [] t.kind \in {"array", "slice"} -> <<"[">> \o Args[1] \o <<"]">>
    [] t.kind = "function" -> <<"fn", "(">> \o Joined(Front(Args), <<",">>) \o <<")", "->">> \o Last(Args)
    [] t.kind = "object" -> <<"dyn">> \o t.base
    [] OTHER -> t.base
-----------------------------------------------------------------------------
IsTypeParam(t) ==
  t.kind = "param" \/ (t.kind = "generic" /\ t.args = << >> /\ t.base \in {<<n>> : n \in ShortNames})
BaseName(t) ==
  IF t.kind = "associated" THEN <<t.base[1]>>
  ELSE IF t.kind \in {"primitive", "generic", "bound", "object", "param", "unknown"}
  THEN t.base ELSE <<t.kind>>

(* What collecting, iterating or dereferencing makes of a collection.       *)
ByCollecting(p, c) ==
  \/ IsGeneric(p, {"Vec"})
     /\ IsGeneric(c, {"Iterator", "IntoIterator", "VecDeque", "HashSet", "BTreeSet", "LinkedList"})
  \/ IsGeneric(p, {"Iterator", "IntoIterator"}) /\ IsGeneric(c, {"Vec", "Slice"})

RECURSIVE Composes(_, _)
Composes(p, c) ==
  LET Feeds(x, y) == Composes(x, y) # "no match"
      Unifies(x, y) == Composes(x, y) \in {"exact", "wildcard", "generic match"}
  IN
  IF p = c THEN "exact"
  ELSE IF "unknown" \in {p.kind, c.kind} THEN "wildcard"
  ELSE IF IsTypeParam(c) \/ IsTypeParam(p) THEN "generic match"
  ELSE IF p.kind = "reference" /\ Feeds(p.args[1], c) THEN "ref unwrap"
  ELSE IF c.kind = "reference" /\ Feeds(p, c.args[1]) THEN "ref borrow"
  ELSE IF /\ p.kind = "generic" /\ c.kind = "generic" /\ p.base = c.base
          /\ Len(p.args) = Len(c.args) /\ \A i \in DOMAIN p.args : Unifies(p.args[i], c.args[i])
  THEN "generic match"
  ELSE IF \/ ByCollecting(p, c)
          \/ /\ IsGeneric(p, {"Vec"}) /\ c.kind = "slice" /\ Len(p.args) = 1
             /\ Feeds(p.args[1], c.args[1])
          \/ /\ IsGeneric(p, {"Result"}) /\ IsGeneric(c, {"Option"})
             /\ Len(p.args) = 2 /\ Len(c.args) = 1 /\ Feeds(p.args[1], c.args[1])
  THEN "unwrap"
  ELSE IF \/ IsGeneric(p, {"Option"}) /\ Len(p.args) = 1 /\ Feeds(p.args[1], c)
          \/ IsGeneric(p, {"Result"}) /\ p.args # << >> /\ Feeds(p.args[1], c)
  THEN "option unwrap"
  ELSE IF \/ p.kind = "tuple" /\ \E i \in DOMAIN p.args : Feeds(p.args[i], c)
          \/ p.kind = "array" /\ c.kind = "slice" /\ Feeds(p.args[1], c.args[1])
          \/ p.kind = "array" /\ IsGeneric(c, {"Vec"}) /\ Len(c.args) = 1 /\ Feeds(p.args[1], c.args[1])
  THEN "unwrap"
  ELSE IF \/ c.kind \in {"bound", "object"} /\ BaseName(p) = c.base
          \/ c.kind = "associated" /\ c.base = <<"Iterator", "Item">>
  THEN "generic match"
  ELSE "no match"

(* In hundredths.                                                           *)
Confidence(result) ==
  CASE result = "exact" -> 100 [] result = "generic match" -> 90 [] result = "ref borrow" -> 85
    [] result = "unwrap" -> 80 [] result = "ref unwrap" -> 75 [] result = "option unwrap" -> 50
    [] result = "wildcard" -> 30 [] result = "no match" -> 0
-----------------------------------------------------------------------------
(* A set in a strict order.                                                 *)
Sorted(S, Precedes(_, _)) ==
  [k \in 1..Cardinality(S) |->
     CHOOSE x \in S : Cardinality({y \in S : Precedes(y, x)}) = k - 1]

(* Positions of the first token of a kind, and a text cut there.            *)
FirstOf(text, tokens) ==
  LET at == {i \in DOMAIN text : text[i] \in tokens} IN IF at = {} THEN 0 ELSE Min(at)
Before(text, tokens) ==
  IF FirstOf(text, tokens) = 0 THEN text ELSE SubSeq(text, 1, FirstOf(text, tokens) - 1)
From(text, tokens) ==
  IF FirstOf(text, tokens) = 0 THEN << >> ELSE SubSeq(text, FirstOf(text, tokens) + 1, Len(text))
Inside(text) == SubSeq(text, 2, Len(text) - 1)
Pieces(text, cuts) ==
  LET ends == <<0>> \o Sorted(cuts, <) \o <<Len(text) + 1>>
  IN  [k \in 1..(Len(ends) - 1) |-> SubSeq(text, ends[k] + 1, ends[k + 1] - 1)]
Split(text) == Pieces(text, {i \in DOMAIN text : text[i] = ","})

(* Only commas outside all angle brackets separate; an arrow closes one.    *)
SplitGenericArgs_Flat(text) == SelectSeq(Split(text), LAMBDA piece : piece # << >>)
SplitGenericArgs(text) ==
  LET Depth(i) == <<Cardinality({j \in 1..(i - 1) : text[j] = "<"}),
                    Cardinality({j \in 1..(i - 1) : text[j] \in {">", "->"}})>>
      pieces == Pieces(text, {i \in DOMAIN text : text[i] = "," /\ Depth(i)[1] = Depth(i)[2]})
  IN  IF Last(pieces) = << >> THEN Front(pieces) ELSE pieces

Trimmed(text) ==
  LET kept == {i \in DOMAIN text : text[i] \notin {",", ";", "{", "}"}}
  IN  IF kept = {} THEN << >> ELSE SubSeq(text, 1, Max(kept))

RECURSIVE ParseRustType(_)
ParseRustType(text) ==
  LET s == Trimmed(text)
      All(pieces) == [i \in DOMAIN pieces |-> ParseRustType(pieces[i])]
  IN
  IF s \in {<< >>, <<"_">>} THEN Unknown
  ELSE IF s = <<"(", ")">> THEN Unit
  ELSE IF s[1] = "&mut" THEN MutRefTo(ParseRustType(Tail(s)))
  ELSE IF s[1] = "&" THEN
    RefTo(ParseRustType(IF Len(s) > 2 /\ s[2] \in Lifetimes THEN SubSeq(s, 3, Len(s)) ELSE Tail(s)))
  ELSE IF s[1] = "[" /\ Last(s) = "]" THEN
    IF FirstOf(s, {";"}) = 0 THEN Ty("slice", <<"slice">>, <<ParseRustType(Inside(s))>>)
    ELSE LET size == From(Inside(s), {";"}) IN
         Ty("array", IF size \in {<<n>> : n \in Sizes} THEN size ELSE << >>,
            <<ParseRustType(Before(Inside(s), {";"}))>>)
  ELSE IF s[1] = "(" /\ Last(s) = ")" THEN Ty("tuple", <<"tuple">>, All(Split(Inside(s))))
  ELSE IF FirstOf(s, {"<"}) # 0 /\ Last(s) = ">" THEN
    Generic(Before(s, {"<"}), All(SplitGenericArgs(Front(From(s, {"<"})))))
  ELSE IF s \in {<<n>> : n \in Primitives} THEN Ty("primitive", s, << >>)
  ELSE IF s \in {<<n>> : n \in ShortNames} THEN Ty("param", s, << >>)
  ELSE Generic(s, << >>)

RECURSIVE ParsePythonType(_)
ParsePythonType(s) ==
  LET Opens(name) == Len(s) > 2 /\ SubSeq(s, 1, 2) = <<name, "[">> /\ Last(s) = "]"
      inner == SubSeq(s, 3, Len(s) - 1)
  IN
  IF s \in {<< >>, <<"None">>} THEN Unit
  ELSE IF s = <<"int">> THEN Prim("i64")
  ELSE IF s = <<"float">> THEN Prim("f64")
  ELSE IF s = <<"bool">> THEN Prim("bool")
  ELSE IF Opens("list") THEN Generic(<<"list">>, <<ParsePythonType(inner)>>)
  ELSE IF Opens("dict") /\ FirstOf(inner, {","}) # 0 THEN
    Generic(<<"dict">>, <<ParsePythonType(Before(inner, {","})), ParsePythonType(From(inner, {","}))>>)
  ELSE IF Opens("Optional") THEN Generic(<<"Option">>, <<ParsePythonType(inner)>>)
  ELSE Generic(s, << >>)
-----------------------------------------------------------------------------
(* The type a method belongs to, from the path before its name.             *)
InferSelfType(owner) ==
  CASE owner = << >> -> Unknown
    [] owner \in {<<"HashMap">>, <<"BTreeMap">>} -> Generic(owner, <<TypeParam("K"), TypeParam("V")>>)
    [] owner = <<"String">> -> Generic(owner, << >>)
    [] owner = <<"str">> -> Prim("str")
    [] OTHER -> Generic(owner, <<TypeParam("T")>>)

Param(name, type) == [name |-> name, type |-> type]
RustParam(text, self) ==
  CASE text = <<"&", "self">> -> <<Param(<<"self">>, RefTo(self))>>
    [] text = <<"&mut", "self">> -> <<Param(<<"self">>, MutRefTo(self))>>
    [] text = <<"self">> -> <<Param(<<"self">>, self)>>
    [] OTHER -> IF FirstOf(text, {":"}) = 0 THEN << >>
                ELSE <<Param(Before(text, {":"}), ParseRustType(From(text, {":"})))>>
PythonParam(text) ==
  IF text \in {<< >>, <<"self">>} THEN << >>
  ELSE IF FirstOf(text, {":"}) = 0 THEN <<Param(text, Unknown)>>
  ELSE <<Param(Before(text, {":"}), ParsePythonType(From(text, {":"})))>>

(* The result stands after the first arrow of the text, and the parameters  *)
(* between its first parenthesis and the first that closes after it.        *)
ParseSignature(text, lang, owner) ==
  LET result == From(text, {"->"})
      open == FirstOf(text, {"("})
      rest == From(text, {"("})
      params == IF open = 0 \/ FirstOf(rest, {")"}) = 0 THEN << >> ELSE Split(Before(rest, {")"}))
      rustResult == Before(Before(result, {"where"}), {"{", ";"})
      Read(Each(_)) == FlattenSeq([i \in DOMAIN params |-> Each(params[i])])
  IN
  CASE lang = "rust" ->
         [params |-> Read(LAMBDA t : RustParam(t, InferSelfType(owner))),
          returns |-> IF rustResult = << >> THEN << >> ELSE <<ParseRustType(rustResult)>>]
    [] lang = "python" ->
         [params |-> Read(PythonParam),
          returns |-> IF result = << >> THEN << >> ELSE <<ParsePythonType(result)>>]
    [] OTHER -> [params |-> << >>, returns |-> << >>]
=============================================================================
