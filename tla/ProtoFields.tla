---------------------------- MODULE ProtoFields -----------------------------
(***************************************************************************)
(* The kinds of fields that generated messages have.  The value of a plain *)
(* field is a scalar, and its default when nothing was received; that of   *)
(* an optional field is undefined, <<>>, or one element; that of a         *)
(* repeated or packed field is a sequence.                                 *)
(***************************************************************************)
EXTENDS Integers, Sequences

(* Wire types. *)
Varint == 0
Fixed64 == 1
Delimited == 2
StartGroup == 3
EndGroup == 4
Fixed32 == 5

Field(n, no, w, label, t, default, values) ==
  [name |-> n, number |-> no, wire |-> w, label |-> label,
   type |-> t, default |-> default, values |-> values]

Plain(n, no, w, t, default) == Field(n, no, w, "plain", t, default, {})

Str(n, no)           == Plain(n, no, Delimited, "string", "")
Bytes(n, no)         == Plain(n, no, Delimited, "bytes", <<>>)
Num(n, no)           == Plain(n, no, Varint, "int", 0)
Long(n, no)          == Plain(n, no, Varint, "long", 0)
Double(n, no)        == Plain(n, no, Fixed64, "double", 0)
Bool(n, no, default) == Plain(n, no, Varint, "bool", default)
Enum(n, no, values, default) == Field(n, no, Varint, "plain", "enum", default, values)

Opt(n, no)           == Field(n, no, Delimited, "optional", "string", <<>>, {})
Strs(n, no)          == Field(n, no, Delimited, "repeated", "string", <<>>, {})
Nums(n, no)          == Field(n, no, Delimited, "packed", "int", <<>>, {})
Enums(n, no, values) == Field(n, no, Delimited, "packed", "enum", <<>>, values)

Msg(n, no, t)        == Field(n, no, Delimited, "optional", t, <<>>, {})
Msgs(n, no, t)       == Field(n, no, Delimited, "repeated", t, <<>>, {})

ScalarTypes == {"string", "bytes", "int", "long", "double", "bool", "enum"}
=============================================================================
