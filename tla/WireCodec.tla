----------------------------- MODULE WireCodec ------------------------------
(***************************************************************************)
(* The generated TypeScript codec: encode, toJSON and fromJSON of a        *)
(* message, driven by the table of its fields like decode and fromPartial  *)
(* in Decoder.                                                             *)
(***************************************************************************)
EXTENDS Decoder, SequencesExt

(***************************************************************************)
(* encode.                                                                 *)
(***************************************************************************)
Values(values) == [i \in DOMAIN values |-> ValToken(values[i])]

(* A sender of a later version adds fields of its own before and after     *)
(* those of the message, and may write a packed field element by element.  *)
RECURSIVE Encode(_, _, _)

EncodeElement(f, v, sender) ==
  IF f.type \notin ScalarTypes
  THEN LET body == Encode(f.type, v, sender) IN <<LenToken(Len(body))>> \o body
  ELSE IF f.wire = Delimited THEN <<LenToken(1), ValToken(v)>>
  ELSE <<ValToken(v)>>

EncodeElements(f, v, sender) ==
  FlattenSeq([i \in DOMAIN v |->
    <<TagToken(f.number, f.wire)>> \o EncodeElement(f, v[i], sender)])

EncodeField(f, v, sender) ==
  CASE f.label = "plain" ->
         IF v = f.default THEN <<>>
         ELSE <<TagToken(f.number, f.wire)>> \o EncodeElement(f, v, sender)
    [] f.label = "packed" ->
         IF sender.packs
         THEN <<TagToken(f.number, Delimited), LenToken(Len(v))>> \o Values(v)
         ELSE FlattenSeq([i \in DOMAIN v |->
                <<TagToken(f.number, Varint), ValToken(v[i])>>])
    [] OTHER -> EncodeElements(f, v, sender)

Encode(t, m, sender) ==
  sender.before
    \o FlattenSeq([i \in DOMAIN Schema[t] |->
         EncodeField(Schema[t][i], m[Schema[t][i].name], sender)])
    \o sender.after

-----------------------------------------------------------------------------
(***************************************************************************)
(* toJSON and fromJSON.  An enumeration is written by name and bytes in    *)
(* base64; a name that is not known is read as UNRECOGNIZED.               *)
(***************************************************************************)
UNRECOGNIZED == -1

RECURSIVE ToJSON(_, _)
RECURSIVE FromJSON(_, _)

ToJSONElement(f, v) ==
  CASE f.type = "enum"  -> [enum |-> IF v \in f.values THEN v ELSE UNRECOGNIZED]
    [] f.type = "bytes" -> [base64 |-> v]
    [] f.type \in ScalarTypes \ {"enum", "bytes"} -> v
    [] OTHER -> ToJSON(f.type, v)

FromJSONElement(f, v) ==
  CASE f.type = "enum"  -> IF v.enum \in f.values THEN v.enum ELSE UNRECOGNIZED
    [] f.type = "bytes" -> v.base64
    [] f.type \in ScalarTypes \ {"enum", "bytes"} -> v
    [] OTHER -> FromJSON(f.type, v)

ToJSON(t, m) ==
  LET present == {f \in FieldsOf(t) : m[f.name] # f.default}
      ValueOf(f) == IF f.label = "plain" THEN ToJSONElement(f, m[f.name])
                    ELSE [i \in DOMAIN m[f.name] |-> ToJSONElement(f, m[f.name][i])]
  IN  [name \in {f.name : f \in present} |->
         ValueOf(CHOOSE f \in present : f.name = name)]

(* Mutant of FromJSON: a missing enumeration is read as its number 0. *)
FromJSONZero(t, object) ==
  LET ValueOf(f) ==
        IF f.name \notin DOMAIN object THEN IF f.type = "enum" /\ f.label = "plain"
                                            THEN 0 ELSE f.default
        ELSE IF f.label = "plain" THEN FromJSONElement(f, object[f.name])
        ELSE [i \in DOMAIN object[f.name] |-> FromJSONElement(f, object[f.name][i])]
  IN  [name \in {f.name : f \in FieldsOf(t)} |->
         ValueOf(CHOOSE f \in FieldsOf(t) : f.name = name)]

FromJSON(t, object) ==
  LET ValueOf(f) ==
        IF f.name \notin DOMAIN object THEN f.default
        ELSE IF f.label = "plain" THEN FromJSONElement(f, object[f.name])
        ELSE [i \in DOMAIN object[f.name] |-> FromJSONElement(f, object[f.name][i])]
  IN  [name \in {f.name : f \in FieldsOf(t)} |->
         ValueOf(CHOOSE f \in FieldsOf(t) : f.name = name)]

-----------------------------------------------------------------------------
(* A message of type t that a sender has encoded is to be decoded. *)
Sent(t, m, sender) == Received(t, m, Encode(t, m, sender))

-----------------------------------------------------------------------------
(***************************************************************************)
(* Properties.                                                             *)
(***************************************************************************)

(* A message with the enumerations that this version does not know, in it  *)
(* and in the messages nested in it, replaced by UNRECOGNIZED.             *)
RECURSIVE Recognized(_, _)

RecognizedElement(f, v) ==
  CASE f.type = "enum" -> IF v \in f.values THEN v ELSE UNRECOGNIZED
    [] f.type \in ScalarTypes \ {"enum"} -> v
    [] OTHER -> Recognized(f.type, v)

Recognized(t, m) ==
  [name \in DOMAIN m |->
     LET f == CHOOSE g \in FieldsOf(t) : g.name = name
     IN  IF f.label = "plain" THEN RecognizedElement(f, m[name])
         ELSE [i \in DOMAIN m[name] |-> RecognizedElement(f, m[name][i])]]

(* What decode has returned comes back from toJSON and fromJSON, defaults  *)
(* that are left out of the JSON object included.  All that is lost is the *)
(* number of an enumeration that this version does not know, which decode  *)
(* has kept: it comes back as UNRECOGNIZED, never as a number it knows.    *)
JSONKeepsWhatIsKnown ==
  result.at = "returned" =>
    FromJSON(type, ToJSON(type, result.message)) = Recognized(type, result.message)
=============================================================================
