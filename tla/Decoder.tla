------------------------------ MODULE Decoder -------------------------------
(***************************************************************************)
(* decode of the generated TypeScript codec, driven by the table of the    *)
(* fields of every message type: what the generator writes out for every   *)
(* message is one operator here.                                           *)
(*                                                                         *)
(* The wire is a sequence of tokens: tags, lengths (in tokens) and values. *)
(* decode is a machine: its frames are the calls of decode for the nested  *)
(* messages, which share one reader.                                       *)
(***************************************************************************)
EXTENDS ProtoFields

CONSTANTS
  Schema,  \* the fields of every message type, in the order of encode
  Unsafe   \* an integer beyond Number.MAX_SAFE_INTEGER

Types == DOMAIN Schema
FieldSet == [t \in Types |-> {Schema[t][i] : i \in DOMAIN Schema[t]}]
FieldsOf(t) == FieldSet[t]

(* What the generator sees to: no field has number 0 or is a group, and    *)
(* nested messages have a length and a table of their own.                 *)
ASSUME SchemaAssumption ==
  \A t \in Types : \A f \in FieldsOf(t) :
    /\ f.number \in Nat \ {0}
    /\ f.wire \in {Varint, Fixed64, Delimited, Fixed32}
    /\ f.label = "packed" => f.type \in ScalarTypes /\ f.wire = Delimited
    /\ f.type \notin ScalarTypes => f.type \in Types /\ f.wire = Delimited

VARIABLES
  type,     \* the type of the message that was sent
  message,  \* the message that was sent
  wire,     \* what was sent
  pos,      \* reader.pos
  frames,   \* the calls of decode, innermost first
  result    \* the outcome of decode

vars == <<type, message, wire, pos, frames, result>>

-----------------------------------------------------------------------------
(***************************************************************************)
(* fromPartial and createBase: what is not given has its default.          *)
(***************************************************************************)
FromPartial(t, given) ==
  [name \in {f.name : f \in FieldsOf(t)} |->
     IF name \in DOMAIN given THEN given[name]
     ELSE (CHOOSE f \in FieldsOf(t) : f.name = name).default]

CreateBase(t) == FromPartial(t, <<>>)

-----------------------------------------------------------------------------
(***************************************************************************)
(* Reading a wire.                                                         *)
(***************************************************************************)
TagToken(number, w) == [kind |-> "tag", v |-> 8 * number + w]
LenToken(n) == [kind |-> "len", v |-> n]
ValToken(v) == [kind |-> "val", v |-> v]

(* Out of step with the sender, the reader would read any number. *)
TagAt(w, p) == IF w[p].kind = "tag" THEN w[p].v ELSE 0

(* The case of the switch that takes the tag. *)
Takes(f, tag) ==
  \/ tag = 8 * f.number + f.wire
  \/ f.label = "packed" /\ tag = 8 * f.number + Varint

(* Where the value of a scalar field is whose tag is at p. *)
ScalarAt(f, p) == IF f.wire = Delimited THEN p + 2 ELSE p + 1

(* Where those of a packed field begin, and how many there are: a single   *)
(* one when the sender has not packed them.                                *)
PackedAt(f, w, p) == IF TagAt(w, p) = 8 * f.number + Varint THEN p + 1 ELSE p + 2
PackedLen(f, w, p) == IF TagAt(w, p) = 8 * f.number + Varint THEN 1 ELSE w[p + 1].v

(* What a field makes of a message: its value replaces the one there, or   *)
(* is pushed, as are all those of a packed field.                          *)
Assigned(m, f, v) ==
  [m EXCEPT ![f.name] = CASE f.label = "plain"    -> v
                          [] f.label = "optional" -> <<v>>
                          [] OTHER                -> Append(@, v)]

Pushed(m, f, w, p) ==
  [m EXCEPT ![f.name] =
     @ \o [i \in 1..PackedLen(f, w, p) |-> w[PackedAt(f, w, p) + i - 1].v]]

EndsMessage(tag) == tag % 8 = EndGroup \/ tag = 0

(* Where the group whose fields begin at p ends, the fields and the groups *)
(* in it skipped like others.                                              *)
GroupEnd(w, p) ==
  LET end[q \in 1..Len(w)] ==
        CASE TagAt(w, q) % 8 = EndGroup   -> q + 1
          [] TagAt(w, q) % 8 = StartGroup -> end[end[q + 1]]
          [] TagAt(w, q) % 8 = Delimited  -> end[q + 2 + w[q + 1].v]
          [] OTHER                        -> end[q + 2]
  IN  end[p]

(* Where BinaryReader.skip stops for the tag at p. *)
Skipped(w, p) ==
  CASE TagAt(w, p) % 8 = Delimited  -> p + 2 + w[p + 1].v
    [] TagAt(w, p) % 8 = StartGroup -> GroupEnd(w, p + 1)
    [] OTHER -> p + 2

-----------------------------------------------------------------------------
(***************************************************************************)
(* decode.                                                                 *)
(***************************************************************************)
frame == Head(frames)

(* The loop of the innermost call reads a tag. *)
Reading == frames # <<>> /\ pos < frame.end
Tag == TagAt(wire, pos)

NobodyTakes == \A f \in FieldsOf(frame.type) : ~Takes(f, Tag)

(* The reader moves to p and the innermost call goes on with message m. *)
Continue(p, m) ==
  /\ pos' = p
  /\ frames' = <<[frame EXCEPT !.message = m]>> \o Tail(frames)
  /\ UNCHANGED <<type, message, wire, result>>

DecodeScalar ==
  /\ Reading
  /\ \E f \in FieldsOf(frame.type) :
       LET at == ScalarAt(f, pos)
       IN /\ Takes(f, Tag)
          /\ f.type \in ScalarTypes /\ f.label # "packed"
          /\ f.type = "long" => wire[at].v # Unsafe
          /\ Continue(at + 1, Assigned(frame.message, f, wire[at].v))

(* longToNumber throws, which ends all calls. *)
LongOutOfRange ==
  /\ Reading
  /\ \E f \in FieldsOf(frame.type) :
       Takes(f, Tag) /\ f.type = "long" /\ wire[ScalarAt(f, pos)].v = Unsafe
  /\ frames' = <<>>
  /\ result' = [at |-> "thrown"]
  /\ UNCHANGED <<type, message, wire, pos>>

(* Both forms of a packed field. *)
DecodePacked ==
  /\ Reading
  /\ \E f \in FieldsOf(frame.type) :
       /\ Takes(f, Tag)
       /\ f.label = "packed"
       /\ Continue(PackedAt(f, wire, pos) + PackedLen(f, wire, pos),
                   Pushed(frame.message, f, wire, pos))

Call(t, end, into) == [type |-> t, end |-> end, into |-> into, message |-> CreateBase(t)]

(* Mutant of DecodeMessage: the length is counted from the wrong place. *)
DecodeMessageLong ==
  /\ Reading
  /\ \E f \in FieldsOf(frame.type) :
       /\ Takes(f, Tag)
       /\ f.type \notin ScalarTypes
       /\ pos' = pos + 2
       /\ frames' = <<Call(f.type, pos + 3 + wire[pos + 1].v, f)>> \o frames
       /\ UNCHANGED <<type, message, wire, result>>

(* A nested message is decoded by a call of its own. *)
DecodeMessage ==
  /\ Reading
  /\ \E f \in FieldsOf(frame.type) :
       /\ Takes(f, Tag)
       /\ f.type \notin ScalarTypes
       /\ pos' = pos + 2
       /\ frames' = <<Call(f.type, pos + 2 + wire[pos + 1].v, f)>> \o frames
       /\ UNCHANGED <<type, message, wire, result>>

Skip ==
  /\ Reading
  /\ NobodyTakes
  /\ ~EndsMessage(Tag)
  /\ Continue(Skipped(wire, pos), frame.message)

(* Mutant of Return: an element of a repeated field is not pushed. *)
ReturnReplaces(p) ==
  /\ pos' = p
  /\ IF Len(frames) = 1
     THEN frames' = <<>> /\ result' = [at |-> "returned", message |-> frame.message]
     ELSE /\ frames' = <<[frames[2] EXCEPT !.message[frame.into.name] = <<frame.message>>]>>
                         \o Tail(Tail(frames))
          /\ UNCHANGED result
  /\ UNCHANGED <<type, message, wire>>

(* A call returns its message to the call that made it. *)
Return(p) ==
  /\ pos' = p
  /\ IF Len(frames) = 1
     THEN frames' = <<>> /\ result' = [at |-> "returned", message |-> frame.message]
     ELSE /\ frames' = <<[frames[2] EXCEPT
                            !.message = Assigned(@, frame.into, frame.message)]>>
                         \o Tail(Tail(frames))
          /\ UNCHANGED result
  /\ UNCHANGED <<type, message, wire>>

EndOfLoop ==
  /\ frames # <<>>
  /\ pos >= frame.end
  /\ Return(pos)

Break ==
  /\ Reading
  /\ NobodyTakes
  /\ EndsMessage(Tag)
  /\ Return(pos + 1)

Next ==
  \/ DecodeScalar \/ LongOutOfRange \/ DecodePacked \/ DecodeMessage
  \/ Skip \/ EndOfLoop \/ Break

(* A message m of type t has arrived as w and is to be decoded. *)
Received(t, m, w) ==
  /\ type = t
  /\ message = m
  /\ wire = w
  /\ pos = 1
  /\ frames = <<Call(t, Len(w) + 1, <<>>)>>
  /\ result = [at |-> "running"]

-----------------------------------------------------------------------------
(***************************************************************************)
(* Which wires encode a message.  A region is a stretch of the wire from   *)
(* one token up to another that holds fields of a message of some type,    *)
(* with the message as it is before these fields and with them.  A set of  *)
(* regions shows that a wire encodes a message if the whole wire is one    *)
(* that yields it, and if with every region the set holds what remains of  *)
(* it after its first field, which must end within it, and the inside of   *)
(* that field when it is a nested message.  A field that the message does  *)
(* not have counts for nothing, the end of a group is the last thing in a  *)
(* region, and a string or bytes is one token long.                        *)
(***************************************************************************)
Region(t, from, end, sofar, yields) ==
  [type |-> t, from |-> from, end |-> end, sofar |-> sofar, yields |-> yields]

Encodes(regions, t, m, w) ==
  /\ Region(t, 1, Len(w) + 1, CreateBase(t), m) \in regions
  /\ \A r \in regions :
       LET tag == TagAt(w, r.from)
           next == Skipped(w, r.from)
           Rest(sofar) == Region(r.type, next, r.end, sofar, r.yields) \in regions
       IN  /\ r.type \in Types /\ r.from \in Nat /\ r.end \in Nat
           /\ r.from <= r.end
           /\ r.from = r.end => r.yields = r.sofar
           /\ r.from < r.end /\ EndsMessage(tag) => r.from + 1 = r.end /\ r.yields = r.sofar
           /\ r.from < r.end /\ ~EndsMessage(tag) =>
                /\ (\A f \in FieldsOf(r.type) : ~Takes(f, tag)) => Rest(r.sofar)
                /\ \A f \in FieldsOf(r.type) : Takes(f, tag) =>
                     IF f.label = "packed" THEN Rest(Pushed(r.sofar, f, w, r.from))
                     ELSE IF f.type \in ScalarTypes
                     THEN /\ f.wire = Delimited => w[r.from + 1].v = 1
                          /\ Rest(Assigned(r.sofar, f, w[ScalarAt(f, r.from)].v))
                     ELSE \E inner \in regions :
                            /\ inner = Region(f.type, r.from + 2, next, CreateBase(f.type),
                                              inner.yields)
                            /\ Rest(Assigned(r.sofar, f, inner.yields))

(* decode of any wire that encodes the message, whoever has sent it. *)
EncodedSpec ==
  /\ \E t \in Types : \E m, w, regions : Encodes(regions, t, m, w) /\ Received(t, m, w)
  /\ [][Next]_vars

-----------------------------------------------------------------------------
(* The nested calls of decode share one reader and never take what belongs *)
(* to the call that made them: each ends where its length says, within the *)
(* message around it, and the outermost has read all of the wire.          *)
ReaderStaysInMessage ==
  /\ \A i \in DOMAIN frames :
       /\ pos <= frames[i].end
       /\ i > 1 => frames[i - 1].end <= frames[i].end
  /\ result.at = "returned" => pos = Len(wire) + 1

(* decode returns the message that was encoded, although fields that hold  *)
(* their default are not written and although the sender adds fields that  *)
(* this version does not know, in every nested message.                    *)
DecodesWhatWasEncoded == result.at = "returned" => result.message = message
=============================================================================
