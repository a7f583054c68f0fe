---------------------------- MODULE MCWireCodec -----------------------------
(***************************************************************************)
(* The codec with the messages of query.ts, http.ts and descriptor.ts.     *)
(* Every message type is sent with any two of its fields given; a nested   *)
(* message has at most one field given, and those nested in it none.       *)
(***************************************************************************)
EXTENDS WireCodec, QueryMessages, DescriptorMessages

GeneratedSchema == QuerySchema @@ DescriptorSchema

(* A number that no enumeration has. *)
UnknownEnum == 77

(* The values to give to a scalar field: none is its default, but an       *)
(* optional string may be empty.                                           *)
Scalars(f) ==
  CASE f.type = "string" -> {"s"} \union (IF f.label = "optional" THEN {""} ELSE {})
    [] f.type = "bytes"  -> {<<7>>}
    [] f.type = "bool"   -> {~f.default}
    [] f.type = "long"   -> {1, Unsafe}
    [] f.type = "enum"   -> {UnknownEnum, CHOOSE v \in f.values : f.label = "plain" => v # f.default}
    [] OTHER             -> {1}

RECURSIVE Messages(_, _)

FieldValues(f, depth) ==
  LET one == IF f.type \in ScalarTypes THEN Scalars(f) ELSE Messages(f.type, depth)
  IN  CASE f.label = "plain"    -> one
        [] f.label = "optional" -> {<<v>> : v \in one}
        [] OTHER                -> {<<v, CHOOSE w \in one : TRUE>> : v \in one}

(* The messages of a type with at most one field given, to this depth. *)
Messages(t, depth) ==
  {CreateBase(t)} \union
    (IF depth = 0 THEN {}
     ELSE UNION {{FromPartial(t, f.name :> v) : v \in FieldValues(f, depth - 1)} :
                   f \in FieldsOf(t)})

(* Those with two fields given. *)
Pairs(t) ==
  UNION {{FromPartial(t, (f.name :> v) @@ (g.name :> w)) :
            v \in FieldValues(f, 0), w \in FieldValues(g, 1)} :
          f \in FieldsOf(t), g \in FieldsOf(t)}

(* What a sender may add to every message: fields that no message has, a   *)
(* group with another in it among them, a field number 1 of a wire type    *)
(* that is not in use, and the end of a group after the last field.        *)
Unknown == 2000

Sender(added, last, packs) == [before |-> added, after |-> added \o last, packs |-> packs]

PlainSender == Sender(<<>>, <<>>, TRUE)

LaterSenders ==
  {Sender(added, <<>>, TRUE) : added \in
     {<<TagToken(Unknown, Varint), ValToken(1)>>,
      <<TagToken(Unknown, Fixed64), ValToken(1)>>,
      <<TagToken(Unknown, Delimited), LenToken(2), TagToken(1, Varint), ValToken(1)>>,
      <<TagToken(Unknown, StartGroup), TagToken(1, Delimited), LenToken(1), TagToken(1, EndGroup),
        TagToken(2, StartGroup), TagToken(1, Varint), ValToken(1), TagToken(2, EndGroup),
        TagToken(Unknown, EndGroup)>>,
      <<TagToken(1, Fixed32), ValToken(1)>>}}
  \union {Sender(<<>>, <<>>, FALSE), Sender(<<>>, <<TagToken(1, EndGroup)>>, TRUE)}

(* What is sent: a message and its sender. *)
Inputs(t) ==
  (Messages(t, 2) \X LaterSenders) \union ((Messages(t, 2) \union Pairs(t)) \X {PlainSender})

Init == \E t \in Types : \E i \in Inputs(t) : Sent(t, i[1], i[2])

Spec == Init /\ [][Next]_vars

(* The message that a region of a wire yields, and the regions within it,  *)
(* by recursion over its fields.                                           *)
RECURSIVE YieldOf(_, _, _, _, _)
RECURSIVE RegionsOf(_, _, _, _, _)

Taking(t, tag) == {f \in FieldsOf(t) : Takes(f, tag)}

With(t, w, from, sofar) ==
  LET taking == Taking(t, TagAt(w, from))
      f == CHOOSE g \in taking : TRUE
  IN  CASE taking = {}             -> sofar
        [] f.label = "packed"      -> Pushed(sofar, f, w, from)
        [] f.type \in ScalarTypes  -> Assigned(sofar, f, w[ScalarAt(f, from)].v)
        [] OTHER -> Assigned(sofar, f,
                      YieldOf(f.type, w, from + 2, Skipped(w, from), CreateBase(f.type)))

YieldOf(t, w, from, end, sofar) ==
  IF from >= end \/ EndsMessage(TagAt(w, from)) THEN sofar
  ELSE YieldOf(t, w, Skipped(w, from), end, With(t, w, from, sofar))

RegionsOf(t, w, from, end, sofar) ==
  {Region(t, from, end, sofar, YieldOf(t, w, from, end, sofar))} \union
    (IF from >= end \/ EndsMessage(TagAt(w, from)) THEN {}
     ELSE LET next == Skipped(w, from)
          IN  RegionsOf(t, w, next, end, With(t, w, from, sofar)) \union
              UNION {RegionsOf(f.type, w, from + 2, next, CreateBase(f.type)) :
                       f \in {g \in Taking(t, TagAt(w, from)) : g.type \notin ScalarTypes}})

(* What encode writes encodes the message, whoever the sender is, in the   *)
(* sense in which decode is proved to return what was encoded.             *)
ASSUME EncodeEncodes ==
  \A t \in Types : \A i \in Inputs(t) :
    LET w == Encode(t, i[1], i[2])
    IN  Encodes(RegionsOf(t, w, 1, Len(w) + 1, CreateBase(t)), t, i[1], w)
=============================================================================
