---------------------------- MODULE DecoderProofs ---------------------------
(***************************************************************************)
(* Proofs about Decoder: on a wire that encodes a message decode returns   *)
(* that message, and its nested calls keep to their own parts of the wire, *)
(* for every table of fields, depth of nesting and length of the wire.     *)
(***************************************************************************)
EXTENDS Decoder, TLAPS

(* What a frame is, and that the calls are a sequence of them. *)
IsFrame(c) == DOMAIN c = {"type", "end", "into", "message"}

FramesOK ==
  /\ \E S : frames \in Seq(S)
  /\ \A i \in DOMAIN frames : IsFrame(frames[i])

(* Where the call at depth i goes on: the innermost at the reader with the *)
(* message that it has, the others where the call that they have made ends *)
(* and with what that call will return, y[i - 1].                          *)
ResumesAt(i) == IF i = 1 THEN pos ELSE frames[i - 1].end

ResumesWith(i, y) ==
  IF i = 1 THEN frames[i].message ELSE Assigned(frames[i].message, frames[i - 1].into, y[i - 1])

Remaining(i, y) ==
  Region(frames[i].type, ResumesAt(i), frames[i].end, ResumesWith(i, y), y[i])

(* What remains to be read by every call is a region that yields what the  *)
(* call is to return, the calls end one within the other, and the          *)
(* outermost ends with the wire and is to return the message.              *)
CallsInv(regions, y) ==
  /\ \A i \in DOMAIN frames : Remaining(i, y) \in regions
  /\ \A i, j \in DOMAIN frames : i <= j => frames[i].end <= frames[j].end
  /\ frames # <<>> => frames[Len(frames)].end = Len(wire) + 1 /\ y[Len(frames)] = message
  /\ result.at = "returned" =>
       pos = Len(wire) + 1 /\ frames = <<>> /\ result.message = message

Inv ==
  /\ FramesOK
  /\ \E regions, y : Encodes(regions, type, message, wire) /\ CallsInv(regions, y)

-----------------------------------------------------------------------------
(* Putting a frame on the stack of calls. *)
LEMMA Push ==
  ASSUME NEW S, NEW s \in Seq(S), NEW x
  PROVE  LET r == <<x>> \o s
         IN  /\ r \in Seq(S \union {x})
             /\ Len(r) = Len(s) + 1
             /\ DOMAIN r = 1..Len(s) + 1
             /\ r[1] = x
             /\ \A i \in DOMAIN r : i > 1 => r[i] = s[i - 1]
<1>1. s \in Seq(S \union {x}) /\ <<x>> \in Seq(S \union {x})
  OBVIOUS
<1> QED
  BY <1>1

(* A frame that is replaced by one that ends at the same place. *)
LEMMA Replace ==
  ASSUME NEW S, NEW s \in Seq(S), s # <<>>, NEW x
  PROVE  LET r == <<x>> \o Tail(s)
         IN  /\ r \in Seq(S \union {x})
             /\ Len(r) = Len(s)
             /\ DOMAIN r = DOMAIN s
             /\ r[1] = x
             /\ \A i \in DOMAIN r : i > 1 => r[i] = s[i]
<1>1. Tail(s) \in Seq(S) /\ Len(Tail(s)) = Len(s) - 1
  OBVIOUS
<1>2. \A i \in 1..Len(s) - 1 : Tail(s)[i] = s[i + 1]
  OBVIOUS
<1> QED
  BY <1>1, <1>2, Push

-----------------------------------------------------------------------------
(* The loop of the innermost call goes on where a region begins. *)
LEMMA ContinueKeepsInv ==
  ASSUME FramesOK, NEW regions, NEW y,
         Encodes(regions, type, message, wire), CallsInv(regions, y),
         frames # <<>>, NEW p, NEW m, Continue(p, m),
         Region(frame.type, p, frame.end, m, y[1]) \in regions
  PROVE  Inv'
<1> DEFINE x == [frame EXCEPT !.message = m]
<1>1. PICK S : frames \in Seq(S)
  BY DEF FramesOK
<1>2. frames' = <<x>> \o Tail(frames) /\ pos' = p /\ UNCHANGED <<type, message, wire, result>>
  BY DEF Continue
<1>3. frame = frames[1] /\ 1 \in DOMAIN frames /\ Len(frames) \in Nat
  BY <1>1 DEF frame
<1>4. /\ IsFrame(x) /\ x.type = frames[1].type /\ x.end = frames[1].end
      /\ x.into = frames[1].into /\ x.message = m
  BY <1>3 DEF FramesOK, IsFrame
<1> HIDE DEF x
<1>5. /\ frames' \in Seq(S \union {x})
      /\ Len(frames') = Len(frames)
      /\ DOMAIN frames' = DOMAIN frames
      /\ frames'[1] = x
      /\ \A i \in DOMAIN frames' : i > 1 => frames'[i] = frames[i]
  BY <1>1, <1>2, Replace
<1>6. ASSUME NEW i \in DOMAIN frames
      PROVE  /\ IsFrame(frames'[i])
             /\ frames'[i].type = frames[i].type
             /\ frames'[i].end = frames[i].end
             /\ frames'[i].into = frames[i].into
  <2>1. i = 1 \/ i > 1
    BY <1>1
  <2> QED
    BY <1>4, <1>5, <2>1 DEF FramesOK
<1>7. FramesOK'
  <2>1. \E T : frames' \in Seq(T)
    BY <1>5
  <2>2. \A i \in DOMAIN frames' : IsFrame(frames'[i])
    BY <1>5, <1>6
  <2> QED
    BY <2>1, <2>2 DEF FramesOK
<1>8. CallsInv(regions, y)'
  <2>1. ASSUME NEW i \in DOMAIN frames
        PROVE  Remaining(i, y)' \in regions
    <3>1. CASE i = 1
      BY <1>2, <1>3, <1>4, <1>5, <3>1 DEF Remaining, ResumesAt, ResumesWith
    <3>2. CASE i # 1
      <4>1. i - 1 \in DOMAIN frames /\ i > 1
        BY <1>1, <3>2
      <4>2. /\ frames'[i - 1].end = frames[i - 1].end
            /\ frames'[i - 1].into = frames[i - 1].into
            /\ frames'[i] = frames[i]
        BY <1>5, <1>6, <4>1
      <4>3. ResumesAt(i)' = ResumesAt(i) /\ ResumesWith(i, y)' = ResumesWith(i, y)
        BY <3>2, <4>2 DEF ResumesAt, ResumesWith
      <4>4. Remaining(i, y)' = Remaining(i, y)
        BY <4>2, <4>3 DEF Remaining
      <4> QED
        BY <4>4 DEF CallsInv
    <3> QED
      BY <3>1, <3>2
  <2>2. result.at # "returned"
    BY DEF CallsInv
  <2>3. Len(frames) \in DOMAIN frames
    BY <1>1
  <2>4. \A i, j \in DOMAIN frames : i <= j => frames'[i].end <= frames'[j].end
    BY <1>6 DEF CallsInv
  <2>5. frames'[Len(frames)].end = Len(wire) + 1 /\ y[Len(frames)] = message
    BY <1>6, <2>3 DEF CallsInv
  <2> QED
    BY <1>2, <1>5, <2>1, <2>2, <2>4, <2>5 DEF CallsInv
<1>9. Encodes(regions, type, message, wire)'
  BY <1>2
<1> QED
  BY <1>7, <1>8, <1>9 DEF Inv

(* A call that has reached its end returns to the call around it, which    *)
(* goes on there.                                                          *)
LEMMA ReturnKeepsInv ==
  ASSUME FramesOK, NEW regions, NEW y,
         Encodes(regions, type, message, wire), CallsInv(regions, y),
         frames # <<>>, Return(frame.end), y[1] = frame.message
  PROVE  Inv'
<1>1. PICK S : frames \in Seq(S)
  BY DEF FramesOK
<1>2. /\ frame = frames[1] /\ Len(frames) \in Nat /\ Len(frames) > 0
      /\ DOMAIN frames = 1..Len(frames)
  BY <1>1 DEF frame
<1>3. pos' = frames[1].end /\ UNCHANGED <<type, message, wire>>
  BY <1>2 DEF Return
<1>4. Encodes(regions, type, message, wire)'
  BY <1>3
<1>5. CASE Len(frames) = 1
  <2>1. /\ frames' = <<>> /\ frames[1].end = Len(wire) + 1
        /\ result'.message = message
    BY <1>2, <1>5 DEF Return, CallsInv
  <2>2. FramesOK' /\ CallsInv(regions, y)'
    BY <1>3, <2>1 DEF FramesOK, CallsInv
  <2> QED
    BY <1>4, <2>2 DEF Inv
<1>6. CASE Len(frames) # 1
  <2> DEFINE x == [frames[2] EXCEPT !.message = Assigned(@, frame.into, frame.message)]
             rest == Tail(frames)
  <2>1. frames' = <<x>> \o Tail(rest) /\ UNCHANGED result
    BY <1>6 DEF Return
  <2>2. /\ rest \in Seq(S) /\ Len(rest) = Len(frames) - 1
        /\ \A i \in 1..Len(rest) : rest[i] = frames[i + 1]
    BY <1>1, <1>2
  <2>3. 2 \in DOMAIN frames
    BY <1>2, <1>6
  <2>4. /\ IsFrame(x) /\ x.type = frames[2].type /\ x.end = frames[2].end
        /\ x.into = frames[2].into
        /\ x.message = Assigned(frames[2].message, frames[1].into, y[1])
    BY <1>2, <2>3 DEF FramesOK, IsFrame
  <2> HIDE DEF x, rest
  <2>0. rest # <<>>
    BY <1>2, <1>6, <2>2
  <2>5. /\ frames' \in Seq(S \union {x})
        /\ Len(frames') = Len(rest)
        /\ DOMAIN frames' = DOMAIN rest
        /\ frames'[1] = x
        /\ \A i \in DOMAIN frames' : i > 1 => frames'[i] = rest[i]
    <3>1. frames' = <<x>> \o Tail(rest)
      BY <2>1
    <3> QED
      BY <2>0, <2>2, <3>1, Replace
  <2>6. DOMAIN frames' = 1..Len(frames) - 1 /\ Len(frames') = Len(frames) - 1
    BY <2>2, <2>5
  <2>7. ASSUME NEW i \in DOMAIN frames'
        PROVE  /\ i + 1 \in DOMAIN frames
               /\ IsFrame(frames'[i])
               /\ frames'[i].type = frames[i + 1].type
               /\ frames'[i].end = frames[i + 1].end
               /\ frames'[i].into = frames[i + 1].into
               /\ i > 1 => frames'[i].message = frames[i + 1].message
    <3>1. i + 1 \in DOMAIN frames /\ i \in 1..Len(rest)
      BY <1>2, <2>2, <2>6
    <3>2. CASE i = 1
      BY <2>4, <2>5, <3>1, <3>2
    <3>3. CASE i # 1
      <4>1. frames'[i] = rest[i]
        BY <2>5, <3>1, <3>3
      <4>2. frames'[i] = frames[i + 1]
        BY <2>2, <3>1, <4>1
      <4> QED
        BY <3>1, <4>2 DEF FramesOK
    <3> QED
      BY <3>2, <3>3
  <2>8. FramesOK'
    BY <2>5, <2>7 DEF FramesOK
  <2>9. PICK z : z = [i \in 1..Len(frames) - 1 |-> y[i + 1]]
    OBVIOUS
  <2>10. \A i \in DOMAIN frames' : z[i] = y[i + 1]
    BY <2>6, <2>9
  <2>11. CallsInv(regions, z)'
    <3>1. ASSUME NEW i \in DOMAIN frames'
          PROVE  Remaining(i, z)' \in regions
      <4>1. i \in Nat /\ i >= 1 /\ i + 1 # 1 /\ (i + 1) - 1 = i
        BY <2>6
      <4>2. ResumesAt(i)' = ResumesAt(i + 1) /\ ResumesWith(i, z)' = ResumesWith(i + 1, y)
        <5>1. CASE i = 1
          <6>1. /\ ResumesAt(i)' = frames[1].end /\ ResumesAt(i + 1) = frames[1].end
                /\ ResumesWith(i, z)' = frames'[1].message
                /\ ResumesWith(i + 1, y) = Assigned(frames[2].message, frames[1].into, y[1])
            BY <1>3, <5>1 DEF ResumesAt, ResumesWith
          <6> QED
            BY <2>4, <2>5, <6>1
        <5>2. CASE i # 1
          <6>1. i - 1 \in DOMAIN frames' /\ (i - 1) + 1 = i /\ i > 1
            BY <1>2, <2>6, <4>1, <5>2
          <6>2. /\ frames'[i - 1].end = frames[i].end /\ frames'[i - 1].into = frames[i].into
                /\ frames'[i].message = frames[i + 1].message /\ z[i - 1] = y[i]
            BY <2>7, <2>10, <6>1
          <6> QED
            BY <4>1, <5>2, <6>2 DEF ResumesAt, ResumesWith
        <5> QED
          BY <5>1, <5>2
      <4>3. Remaining(i, z)' = Remaining(i + 1, y)
        BY <2>7, <2>10, <4>2 DEF Remaining
      <4> QED
        BY <2>7, <4>3 DEF CallsInv
    <3>2. ASSUME NEW i \in DOMAIN frames', NEW j \in DOMAIN frames', i <= j
          PROVE  frames'[i].end <= frames'[j].end
      <4>1. i + 1 <= j + 1
        BY <2>6, <3>2
      <4> QED
        BY <2>7, <4>1 DEF CallsInv
    <3>3. frames'[Len(frames')].end = Len(wire) + 1 /\ z[Len(frames')] = message
      <4>1. Len(frames') \in DOMAIN frames' /\ Len(frames') + 1 = Len(frames)
        BY <1>2, <1>6, <2>6
      <4> QED
        BY <2>7, <2>10, <4>1 DEF CallsInv
    <3>4. result.at # "returned"
      BY DEF CallsInv
    <3> QED
      BY <1>3, <2>1, <3>1, <3>2, <3>3, <3>4 DEF CallsInv
  <2> QED
    BY <1>4, <2>8, <2>11 DEF Inv
<1> QED
  BY <1>5, <1>6

(* A call of decode for a nested message begins a region of its own, which *)
(* ends where the call around it goes on.                                  *)
LEMMA CallKeepsInv ==
  ASSUME FramesOK, NEW regions, NEW y,
         Encodes(regions, type, message, wire), CallsInv(regions, y),
         frames # <<>>, NEW t, NEW p, NEW end, NEW into, NEW v,
         pos' = p, frames' = <<Call(t, end, into)>> \o frames,
         UNCHANGED <<type, message, wire, result>>,
         Region(t, p, end, CreateBase(t), v) \in regions,
         Region(frame.type, end, frame.end, Assigned(frame.message, into, v), y[1]) \in regions,
         end <= frame.end
  PROVE  Inv'
<1> DEFINE x == Call(t, end, into)
<1>1. PICK S : frames \in Seq(S)
  BY DEF FramesOK
<1>2. /\ frame = frames[1] /\ Len(frames) \in Nat /\ Len(frames) > 0
      /\ DOMAIN frames = 1..Len(frames)
  BY <1>1 DEF frame
<1>3. /\ IsFrame(x) /\ x.type = t /\ x.end = end /\ x.into = into
      /\ x.message = CreateBase(t)
  BY DEF Call, IsFrame
<1> HIDE DEF x
<1>4. /\ frames' \in Seq(S \union {x})
      /\ Len(frames') = Len(frames) + 1
      /\ DOMAIN frames' = 1..Len(frames) + 1
      /\ frames'[1] = x
      /\ \A i \in DOMAIN frames' : i > 1 => frames'[i] = frames[i - 1]
  <2>1. frames' = <<x>> \o frames
    BY DEF x
  <2> QED
    BY <1>1, <2>1, Push
<1>5. \A i \in DOMAIN frames' : i > 1 => i - 1 \in DOMAIN frames
  BY <1>2, <1>4
<1>6. FramesOK'
  BY <1>3, <1>4, <1>5 DEF FramesOK
<1>7. PICK z : z = [i \in 1..Len(frames) + 1 |-> IF i = 1 THEN v ELSE y[i - 1]]
  OBVIOUS
<1>8. z[1] = v /\ \A i \in DOMAIN frames' : i > 1 => z[i] = y[i - 1]
  BY <1>2, <1>4, <1>7
<1>9. CallsInv(regions, z)'
  <2>1. ASSUME NEW i \in DOMAIN frames'
        PROVE  Remaining(i, z)' \in regions
    <3>1. CASE i = 1
      BY <1>3, <1>4, <1>8, <3>1 DEF Remaining, ResumesAt, ResumesWith
    <3>2. CASE i = 2
      <4>1. frames'[2] = frames[1] /\ frames'[1] = x /\ z[2] = y[1] /\ z[1] = v
        BY <1>4, <1>8, <3>2
      <4>2. /\ ResumesAt(2)' = end
            /\ ResumesWith(2, z)' = Assigned(frames[1].message, into, v)
        BY <1>3, <4>1 DEF ResumesAt, ResumesWith
      <4> QED
        BY <1>2, <3>2, <4>1, <4>2 DEF Remaining
    <3>3. CASE i > 2
      <4>1. i - 1 \in DOMAIN frames' /\ i - 1 > 1 /\ i \in Nat
        BY <1>2, <1>4, <3>3
      <4>2. frames'[i] = frames[i - 1] /\ frames'[i - 1] = frames[(i - 1) - 1]
        BY <1>4, <3>3, <4>1
      <4>3. z[i] = y[i - 1] /\ z[i - 1] = y[(i - 1) - 1]
        BY <1>8, <3>3, <4>1
      <4>4. ResumesAt(i)' = ResumesAt(i - 1) /\ ResumesWith(i, z)' = ResumesWith(i - 1, y)
        BY <3>3, <4>1, <4>2, <4>3 DEF ResumesAt, ResumesWith
      <4>5. Remaining(i, z)' = Remaining(i - 1, y)
        BY <4>2, <4>3, <4>4 DEF Remaining
      <4> QED
        BY <1>5, <3>3, <4>5 DEF CallsInv
    <3> QED
      BY <1>2, <1>4, <3>1, <3>2, <3>3
  <2>2. \A i \in DOMAIN frames : frames[i].end \in Nat /\ end \in Nat /\ end <= frames[i].end
    <3>1. ASSUME NEW i \in DOMAIN frames
          PROVE  frames[1].end <= frames[i].end /\ frames[i].end \in Nat
      <4>1. Remaining(i, y) \in regions /\ Remaining(i, y).end = frames[i].end
        BY DEF CallsInv, Remaining, Region
      <4>2. frames[i].end \in Nat
        BY <4>1 DEF Encodes
      <4> QED
        BY <1>2, <4>2 DEF CallsInv
    <3>2. end \in Nat /\ frames[1].end \in Nat
      <4>1. PICK r \in regions : r.end = end
        BY DEF Region
      <4> QED
        BY <1>2, <3>1, <4>1 DEF Encodes
    <3> QED
      BY <1>2, <3>1, <3>2
  <2>3. ASSUME NEW i \in DOMAIN frames', NEW j \in DOMAIN frames', i <= j
        PROVE  frames'[i].end <= frames'[j].end
    <3>0. i \in Nat /\ j \in Nat /\ i >= 1 /\ j >= 1
      BY <1>2, <1>4
    <3>1. CASE j = 1
      BY <1>2, <1>3, <1>4, <2>2, <2>3, <3>0, <3>1
    <3>2. CASE i = 1 /\ j > 1
      BY <1>3, <1>4, <1>5, <2>2, <3>2
    <3>3. CASE i > 1 /\ j > 1
      <4>1. i - 1 <= j - 1
        BY <2>3, <3>0
      <4> QED
        BY <1>4, <1>5, <3>3, <4>1 DEF CallsInv
    <3> QED
      BY <2>3, <3>0, <3>1, <3>2, <3>3
  <2>4. frames'[Len(frames')].end = Len(wire) + 1 /\ z[Len(frames')] = message
    <3>1. Len(frames') \in DOMAIN frames' /\ Len(frames') > 1 /\ Len(frames') - 1 = Len(frames)
      BY <1>2, <1>4
    <3> QED
      BY <1>4, <1>8, <3>1 DEF CallsInv
  <2>5. result.at # "returned"
    BY DEF CallsInv
  <2> QED
    BY <2>1, <2>3, <2>4, <2>5 DEF CallsInv
<1>10. Encodes(regions, type, message, wire)'
  OBVIOUS
<1> QED
  BY <1>6, <1>9, <1>10 DEF Inv

-----------------------------------------------------------------------------
(* A tag is a field number and a wire type. *)
LEMMA TagParts ==
  ASSUME NEW n \in Nat, n # 0, NEW k \in 0..7
  PROVE  /\ 8 * n + k \in Nat
         /\ 8 * n + k # 0
         /\ (8 * n + k) % 8 = k
         /\ 8 * n + k = 8 * n + 0 <=> k = 0
OBVIOUS

(* A tag that a field takes does not end the message, and its wire type is *)
(* that of the field, or that of the elements of a packed one.             *)
LEMMA TakenTag ==
  ASSUME NEW t \in Types, NEW f \in FieldsOf(t), NEW tag, Takes(f, tag)
  PROVE  /\ tag \in Nat
         /\ ~EndsMessage(tag)
         /\ tag % 8 = f.wire \/ (f.label = "packed" /\ tag % 8 = Varint)
         /\ f.label = "packed" => (tag % 8 = Varint <=> tag = 8 * f.number + Varint)
<1>1. /\ f.number \in Nat \ {0}
      /\ f.wire \in {0, 1, 2, 5}
      /\ f.label = "packed" => f.wire = 2
  BY SchemaAssumption DEF Varint, Fixed64, Delimited, Fixed32
<1>2. PICK k \in {0, 1, 2, 5} :
        /\ tag = 8 * f.number + k
        /\ k = f.wire \/ (f.label = "packed" /\ k = 0)
  BY <1>1 DEF Takes, Varint
<1>3. k \in 0..7 /\ f.number \in Nat /\ f.number # 0
  BY <1>1
<1>4. /\ tag \in Nat /\ tag # 0 /\ tag % 8 = k
      /\ tag = 8 * f.number + 0 <=> k = 0
  BY <1>2, <1>3, TagParts
<1>5. ~EndsMessage(tag)
  BY <1>2, <1>4 DEF EndsMessage, EndGroup
<1> QED
  BY <1>2, <1>4, <1>5 DEF Varint

(* At the head of its loop the innermost call is at the beginning of a     *)
(* region.                                                                 *)
LEMMA ReadingRegion ==
  ASSUME FramesOK, NEW regions, NEW y,
         Encodes(regions, type, message, wire), CallsInv(regions, y), frames # <<>>
  PROVE  LET Rest(m) ==
               Region(frame.type, Skipped(wire, pos), frame.end, m, y[1]) \in regions
         IN  /\ frame.type \in Types /\ pos \in Nat /\ frame.end \in Nat /\ pos <= frame.end
             /\ pos = frame.end => y[1] = frame.message
             /\ Reading /\ EndsMessage(Tag) => pos + 1 = frame.end /\ y[1] = frame.message
             /\ Reading /\ ~EndsMessage(Tag) /\ NobodyTakes => Rest(frame.message)
             /\ Reading /\ ~EndsMessage(Tag) =>
                  \A f \in FieldsOf(frame.type) : Takes(f, Tag) =>
                    IF f.label = "packed" THEN Rest(Pushed(frame.message, f, wire, pos))
                    ELSE IF f.type \in ScalarTypes
                    THEN /\ f.wire = Delimited => wire[pos + 1].v = 1
                         /\ Rest(Assigned(frame.message, f, wire[ScalarAt(f, pos)].v))
                    ELSE \E v : /\ Region(f.type, pos + 2, Skipped(wire, pos),
                                          CreateBase(f.type), v) \in regions
                                /\ Rest(Assigned(frame.message, f, v))
<1>1. frame = frames[1] /\ 1 \in DOMAIN frames
  BY DEF FramesOK, frame
<1>2. PICK r \in regions : r = Region(frame.type, pos, frame.end, frame.message, y[1])
  BY <1>1 DEF CallsInv, Remaining, ResumesAt, ResumesWith
<1>3. /\ r.type = frame.type /\ r.from = pos /\ r.end = frame.end
      /\ r.sofar = frame.message /\ r.yields = y[1]
  BY <1>2 DEF Region
<1>4. /\ r.type \in Types /\ r.from \in Nat /\ r.end \in Nat /\ r.from <= r.end
      /\ r.from = r.end => r.yields = r.sofar
      /\ r.from < r.end /\ EndsMessage(TagAt(wire, r.from)) =>
           r.from + 1 = r.end /\ r.yields = r.sofar
  BY DEF Encodes
<1>5. r.from < r.end /\ ~EndsMessage(TagAt(wire, r.from))
        /\ (\A f \in FieldsOf(r.type) : ~Takes(f, TagAt(wire, r.from))) =>
        Region(r.type, Skipped(wire, r.from), r.end, r.sofar, r.yields) \in regions
  BY DEF Encodes
<1>6. ASSUME NEW f \in FieldsOf(frame.type), Takes(f, Tag), Reading, ~EndsMessage(Tag)
      PROVE  LET Rest(m) ==
                   Region(frame.type, Skipped(wire, pos), frame.end, m, y[1]) \in regions
             IN  IF f.label = "packed" THEN Rest(Pushed(frame.message, f, wire, pos))
                 ELSE IF f.type \in ScalarTypes
                 THEN /\ f.wire = Delimited => wire[pos + 1].v = 1
                      /\ Rest(Assigned(frame.message, f, wire[ScalarAt(f, pos)].v))
                 ELSE \E v : /\ Region(f.type, pos + 2, Skipped(wire, pos),
                                       CreateBase(f.type), v) \in regions
                             /\ Rest(Assigned(frame.message, f, v))
  <2>1. f \in FieldsOf(r.type) /\ Takes(f, TagAt(wire, r.from)) /\ r.from < r.end
        /\ ~EndsMessage(TagAt(wire, r.from))
    BY <1>3, <1>6 DEF Tag, Reading
  <2>2. LET Rest(m) == Region(r.type, Skipped(wire, r.from), r.end, m, r.yields) \in regions
        IN  IF f.label = "packed" THEN Rest(Pushed(r.sofar, f, wire, r.from))
            ELSE IF f.type \in ScalarTypes
            THEN /\ f.wire = Delimited => wire[r.from + 1].v = 1
                 /\ Rest(Assigned(r.sofar, f, wire[ScalarAt(f, r.from)].v))
            ELSE \E inner \in regions :
                   /\ inner = Region(f.type, r.from + 2, Skipped(wire, r.from),
                                     CreateBase(f.type), inner.yields)
                   /\ Rest(Assigned(r.sofar, f, inner.yields))
    BY <2>1 DEF Encodes
  <2> QED
    BY <1>3, <2>2
<1> QED
  BY <1>3, <1>4, <1>5, <1>6 DEF Reading, Tag, NobodyTakes

LEMMA DecodeScalarKeepsInv ==
  ASSUME FramesOK, NEW regions, NEW y,
         Encodes(regions, type, message, wire), CallsInv(regions, y), DecodeScalar
  PROVE  Inv'
<1>1. PICK f \in FieldsOf(frame.type) :
        /\ Takes(f, Tag)
        /\ f.type \in ScalarTypes /\ f.label # "packed"
        /\ Continue(ScalarAt(f, pos) + 1,
                    Assigned(frame.message, f, wire[ScalarAt(f, pos)].v))
  BY DEF DecodeScalar
<1>2. Reading /\ frames # <<>>
  BY DEF DecodeScalar, Reading
<1>3. frame.type \in Types /\ pos \in Nat
  BY <1>2, ReadingRegion
<1>4. ~EndsMessage(Tag) /\ Tag % 8 = f.wire
  BY <1>1, <1>3, TakenTag
<1>5. /\ Region(frame.type, Skipped(wire, pos), frame.end,
                Assigned(frame.message, f, wire[ScalarAt(f, pos)].v), y[1]) \in regions
      /\ f.wire = Delimited => wire[pos + 1].v = 1
  BY <1>1, <1>2, <1>4, ReadingRegion
<1>6. f.wire \in {Varint, Fixed64, Delimited, Fixed32}
  BY <1>3, SchemaAssumption
<1>7. Skipped(wire, pos) = ScalarAt(f, pos) + 1
  BY <1>1, <1>3, <1>4, <1>5, <1>6
     DEF Skipped, ScalarAt, Tag, Varint, Fixed64, Delimited, Fixed32, StartGroup
<1> QED
  BY <1>1, <1>2, <1>5, <1>7, ContinueKeepsInv

LEMMA DecodePackedKeepsInv ==
  ASSUME FramesOK, NEW regions, NEW y,
         Encodes(regions, type, message, wire), CallsInv(regions, y), DecodePacked
  PROVE  Inv'
<1>1. PICK f \in FieldsOf(frame.type) :
        /\ Takes(f, Tag) /\ f.label = "packed"
        /\ Continue(PackedAt(f, wire, pos) + PackedLen(f, wire, pos),
                    Pushed(frame.message, f, wire, pos))
  BY DEF DecodePacked
<1>2. Reading /\ frames # <<>>
  BY DEF DecodePacked, Reading
<1>3. frame.type \in Types /\ pos \in Nat
  BY <1>2, ReadingRegion
<1>4. /\ ~EndsMessage(Tag)
      /\ Tag % 8 = f.wire \/ Tag % 8 = Varint
      /\ Tag % 8 = Varint <=> Tag = 8 * f.number + Varint
      /\ f.wire = Delimited
  BY <1>1, <1>3, TakenTag, SchemaAssumption
<1>5. Region(frame.type, Skipped(wire, pos), frame.end,
             Pushed(frame.message, f, wire, pos), y[1]) \in regions
  BY <1>1, <1>2, <1>4, ReadingRegion
<1>6. Skipped(wire, pos) = PackedAt(f, wire, pos) + PackedLen(f, wire, pos)
  BY <1>3, <1>4 DEF Skipped, PackedAt, PackedLen, Tag, Varint, Delimited, StartGroup
<1> QED
  BY <1>1, <1>2, <1>5, <1>6, ContinueKeepsInv

LEMMA DecodeMessageKeepsInv ==
  ASSUME FramesOK, NEW regions, NEW y,
         Encodes(regions, type, message, wire), CallsInv(regions, y), DecodeMessage
  PROVE  Inv'
<1>1. PICK f \in FieldsOf(frame.type) :
        /\ Takes(f, Tag) /\ f.type \notin ScalarTypes
        /\ pos' = pos + 2
        /\ frames' = <<Call(f.type, pos + 2 + wire[pos + 1].v, f)>> \o frames
        /\ UNCHANGED <<type, message, wire, result>>
  BY DEF DecodeMessage
<1>2. Reading /\ frames # <<>>
  BY DEF DecodeMessage, Reading
<1>3. frame.type \in Types /\ pos \in Nat
  BY <1>2, ReadingRegion
<1>4. f.label # "packed" /\ f.wire = Delimited
  BY <1>1, <1>3, SchemaAssumption
<1>5. ~EndsMessage(Tag) /\ Tag % 8 = Delimited
  BY <1>1, <1>3, <1>4, TakenTag
<1>6. Skipped(wire, pos) = pos + 2 + wire[pos + 1].v
  BY <1>5 DEF Skipped, Tag, Delimited, StartGroup
<1>7. PICK v :
        /\ Region(f.type, pos + 2, Skipped(wire, pos), CreateBase(f.type), v) \in regions
        /\ Region(frame.type, Skipped(wire, pos), frame.end,
                  Assigned(frame.message, f, v), y[1]) \in regions
  BY <1>1, <1>2, <1>4, <1>5, ReadingRegion
<1>8. Skipped(wire, pos) <= frame.end
  <2>1. PICK r \in regions : r.from = Skipped(wire, pos) /\ r.end = frame.end
    BY <1>7 DEF Region
  <2> QED
    BY <2>1 DEF Encodes
<1> QED
  BY <1>1, <1>2, <1>6, <1>7, <1>8, CallKeepsInv

LEMMA SkipKeepsInv ==
  ASSUME FramesOK, NEW regions, NEW y,
         Encodes(regions, type, message, wire), CallsInv(regions, y), Skip
  PROVE  Inv'
<1>1. /\ Reading /\ frames # <<>> /\ NobodyTakes /\ ~EndsMessage(Tag)
      /\ Continue(Skipped(wire, pos), frame.message)
  BY DEF Skip, Reading
<1>2. Region(frame.type, Skipped(wire, pos), frame.end, frame.message, y[1]) \in regions
  BY <1>1, ReadingRegion
<1> QED
  BY <1>1, <1>2, ContinueKeepsInv

(* The reader is never beyond the end of the innermost call. *)
LEMMA EndOfLoopKeepsInv ==
  ASSUME FramesOK, NEW regions, NEW y,
         Encodes(regions, type, message, wire), CallsInv(regions, y), EndOfLoop
  PROVE  Inv'
<1>1. frames # <<>> /\ pos >= frame.end /\ Return(pos)
  BY DEF EndOfLoop
<1>2. /\ pos \in Nat /\ frame.end \in Nat /\ pos <= frame.end
      /\ pos = frame.end => y[1] = frame.message
  BY <1>1, ReadingRegion
<1>3. pos = frame.end /\ y[1] = frame.message
  BY <1>1, <1>2
<1> QED
  BY <1>1, <1>3, ReturnKeepsInv

LEMMA BreakKeepsInv ==
  ASSUME FramesOK, NEW regions, NEW y,
         Encodes(regions, type, message, wire), CallsInv(regions, y), Break
  PROVE  Inv'
<1>1. Reading /\ frames # <<>> /\ EndsMessage(Tag) /\ Return(pos + 1)
  BY DEF Break, Reading
<1>2. pos + 1 = frame.end /\ y[1] = frame.message
  BY <1>1, ReadingRegion
<1> QED
  BY <1>1, <1>2, ReturnKeepsInv

LEMMA NextKeepsInv ==
  ASSUME Inv, [Next]_vars
  PROVE  Inv'
<1>1. FramesOK
  BY DEF Inv
<1>2. PICK regions, y : Encodes(regions, type, message, wire) /\ CallsInv(regions, y)
  BY DEF Inv
<1>3. CASE LongOutOfRange
  <2>1. frames' = <<>> /\ result'.at = "thrown" /\ UNCHANGED <<type, message, wire>>
    BY <1>3 DEF LongOutOfRange
  <2>2. FramesOK' /\ CallsInv(regions, y)'
    BY <2>1 DEF FramesOK, CallsInv
  <2>3. Encodes(regions, type, message, wire)'
    BY <1>2, <2>1
  <2> QED
    BY <2>2, <2>3 DEF Inv
<1>4. CASE UNCHANGED vars
  <2>1. FramesOK' /\ CallsInv(regions, y)'
    BY <1>1, <1>2, <1>4 DEF vars, FramesOK, CallsInv, Remaining, ResumesAt, ResumesWith
  <2>2. Encodes(regions, type, message, wire)'
    BY <1>2, <1>4 DEF vars
  <2> QED
    BY <2>1, <2>2 DEF Inv
<1> QED
  BY <1>1, <1>2, <1>3, <1>4, DecodeScalarKeepsInv, DecodePackedKeepsInv,
     DecodeMessageKeepsInv, SkipKeepsInv, EndOfLoopKeepsInv, BreakKeepsInv DEF Next

LEMMA ReceivedInv ==
  ASSUME NEW t \in Types, NEW m, NEW w, NEW regions,
         Encodes(regions, t, m, w), Received(t, m, w)
  PROVE  Inv
<1> DEFINE x == Call(t, Len(w) + 1, <<>>)
<1>1. /\ frames = <<x>> /\ pos = 1 /\ type = t /\ message = m /\ wire = w
      /\ result.at = "running"
  BY DEF Received
<1>2. IsFrame(x) /\ x.type = t /\ x.end = Len(w) + 1 /\ x.message = CreateBase(t)
  BY DEF Call, IsFrame
<1> HIDE DEF x
<1>3. FramesOK
  <2>1. frames \in Seq({x})
    BY <1>1
  <2>2. \A i \in DOMAIN frames : frames[i] = x
    BY <1>1
  <2>3. \E S : frames \in Seq(S)
    BY <2>1
  <2> QED
    BY <1>2, <2>2, <2>3 DEF FramesOK
<1>4. PICK y : y = [i \in {1} |-> m]
  OBVIOUS
<1>5. CallsInv(regions, y)
  <2>1. Region(t, 1, Len(w) + 1, CreateBase(t), m) \in regions
    BY DEF Encodes
  <2>2. y[1] = m /\ DOMAIN frames = {1} /\ Len(frames) = 1 /\ frames[1] = x
    BY <1>1, <1>4
  <2>3. Remaining(1, y) \in regions
    BY <1>1, <1>2, <2>1, <2>2 DEF Remaining, ResumesAt, ResumesWith
  <2>4. x.end <= x.end
    <3>1. PICK r \in regions : r.end = x.end
      BY <1>2, <2>1 DEF Region
    <3>2. r.end \in Nat
      BY DEF Encodes
    <3> QED
      BY <3>1, <3>2
  <2> QED
    BY <1>1, <1>2, <2>2, <2>3, <2>4 DEF CallsInv
<1> QED
  BY <1>1, <1>3, <1>5 DEF Inv

LEMMA AlwaysInv == EncodedSpec => []Inv
<1>1. (\E t \in Types : \E m, w, regions : Encodes(regions, t, m, w) /\ Received(t, m, w)) => Inv
  BY ReceivedInv
<1>2. Inv /\ [Next]_vars => Inv'
  BY NextKeepsInv
<1> QED
  BY <1>1, <1>2, PTL DEF EncodedSpec

-----------------------------------------------------------------------------
(* On a wire that encodes a message every call of decode keeps to its own  *)
(* part of it and the outermost reads all of it: reader.pos never passes   *)
(* the end that decode has computed from the length of a nested message.   *)
THEOREM ReaderAlwaysStaysInMessage == EncodedSpec => []ReaderStaysInMessage
<1>1. Inv => ReaderStaysInMessage
  <2> SUFFICES ASSUME Inv PROVE ReaderStaysInMessage
    OBVIOUS
  <2>1. PICK regions, y : Encodes(regions, type, message, wire) /\ CallsInv(regions, y)
    BY DEF Inv
  <2>2. PICK S : frames \in Seq(S)
    BY DEF Inv, FramesOK
  <2>3. ASSUME NEW i \in DOMAIN frames
        PROVE  pos <= frames[i].end /\ (i > 1 => frames[i - 1].end <= frames[i].end)
    <3>1. 1 \in DOMAIN frames /\ 1 <= i /\ (i > 1 => i - 1 \in DOMAIN frames /\ i - 1 <= i)
      BY <2>2
    <3>2. pos \in Nat /\ frames[1].end \in Nat /\ pos <= frames[1].end
      <4>1. frame = frames[1] /\ frames # <<>>
        BY <2>2, <3>1 DEF frame
      <4> QED
        BY <2>1, <4>1, ReadingRegion DEF Inv
    <3>3. frames[i].end \in Nat
      <4>1. Remaining(i, y) \in regions /\ Remaining(i, y).end = frames[i].end
        BY <2>1 DEF CallsInv, Remaining, Region
      <4> QED
        BY <2>1, <4>1 DEF Encodes
    <3>4. frames[1].end <= frames[i].end /\ (i > 1 => frames[i - 1].end <= frames[i].end)
      BY <2>1, <3>1 DEF CallsInv
    <3> QED
      BY <3>2, <3>3, <3>4
  <2> QED
    BY <2>1, <2>3 DEF ReaderStaysInMessage, CallsInv
<1> QED
  BY <1>1, AlwaysInv, PTL

(* decode returns the message that the wire encodes, or throws: the fields *)
(* end up in the message whose call of decode has read them, at any depth  *)
(* of nesting, and what the sender has added ends up in none.              *)
THEOREM DecodeAlwaysReturnsMessage == EncodedSpec => []DecodesWhatWasEncoded
<1>1. Inv => DecodesWhatWasEncoded
  BY DEF Inv, CallsInv, DecodesWhatWasEncoded
<1> QED
  BY <1>1, AlwaysInv, PTL
=============================================================================
