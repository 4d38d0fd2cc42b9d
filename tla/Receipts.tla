------------------------------ MODULE Receipts ------------------------------
(* How a receipt is hashed and read back: the fields in their order, with a *)
(* length before every text, a count before every list and a tag before    *)
(* what may be absent, so that no two receipts come down to the same bytes. *)
EXTENDS Faults, SequencesExt, TLC

Elements(s) == {s[i] : i \in DOMAIN s}

PushBytes(text) == <<ToString(Len(text))>> \o text
PushAll(items, Bytes(_)) ==
  <<ToString(Len(items))>> \o FlattenSeq([i \in DOMAIN items |-> Bytes(items[i])])
PushOption(given, bytes) == IF given THEN <<"1">> \o bytes ELSE <<"0">>
(* A category is one byte; what is named has its text after the category.   *)
PushTagged(value) ==
  <<value[1]>> \o (IF Len(value) = 1 THEN << >> ELSE PushBytes(Tail(value)))

(* A receipt is sealed when its structure holds, and read back against the  *)
(* digest it carries.                                                       *)
Seal(receipt, fault, digest) ==
  IF fault # "ok" THEN [refused |-> fault]
  ELSE [field \in DOMAIN receipt \cup {"digest"} |->
          IF field = "digest" THEN digest ELSE receipt[field]]
ReadBack(receipt, fault, digest) ==
  IF fault # "ok" THEN fault
  ELSE IF receipt.digest # digest THEN "digest mismatch" ELSE "ok"
=============================================================================
