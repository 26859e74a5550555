-------------------------------- MODULE Wire --------------------------------
(***************************************************************************)
(* The messages between the server and its clients as bytes: what the      *)
(* generated classes of image.pb.h and image.pb.cc do for every message of *)
(* Messages.tla.  A message object keeps, besides the values of its        *)
(* fields, a set of has-bits that the callers never see: a field whose bit *)
(* is not set is neither written nor cleared nor merged, whatever its      *)
(* value.  The accessors, the serialiser, ByteSizeLong, Clear and MergeImpl*)
(* each consult the bits on their own.                                     *)
(*                                                                         *)
(* Two objects of one type are built by accessor calls, by parsing what a  *)
(* peer sent, and by merging, copying, swapping and clearing them.  Bytes  *)
(* are numbers below 256.  The parser (TcParser) is the library's: it is   *)
(* driven by the tables of Messages.tla.                                   *)
(***************************************************************************)
EXTENDS Integers, Sequences, FiniteSets, Functions, SequencesExt

CONSTANTS
    Schema,      \* the tables of the generated classes, module Messages
    Types,       \* the message types under study, of DOMAIN Schema
    Strings,     \* the values given to string fields, as bytes
    Blobs,       \* the values given to bytes fields, as bytes
    Numbers,     \* the values given to int64 and enum fields
    Received,    \* what a peer may send
    IntBits,     \* the width of an int64
    Edits(_),    \* how many accessor calls build the objects of a type
    MaxCalls     \* how many calls on whole messages follow

ASSUME WireAssumption ==
    /\ Types \subseteq DOMAIN Schema
    /\ IntBits \in Nat \ {0} /\ MaxCalls \in Nat
    /\ \A n \in Numbers : n >= -(2 ^ (IntBits - 1)) /\ n < 2 ^ (IntBits - 1)

VARIABLES
    msg,      \* the two objects
    edits,    \* how many accessor calls there were
    calls     \* how many calls on whole messages there were

vars == <<msg, edits, calls>>

Objects == {"a", "b"}
-----------------------------------------------------------------------------
(* Objects.  A pointer that may be null is a sequence of at most one value.*)
Fields(T) == Range(Schema[T].fields)
Default(f) == IF f.kind \in {"Int64", "Enum"} THEN 0 ELSE <<>>

(* The constructor: SharedCtor.                                            *)
New(T) ==
    [of |-> T, bits |-> {}, unknown |-> <<>>,
     value |-> [n \in {f.name : f \in Fields(T)} |->
                    Default(CHOOSE f \in Fields(T) : f.name = n)]]

Holds(m, case) == m.value.content # <<>> /\ m.value.content[1].case = case
Hold(m, case, sub) == [m EXCEPT !.value.content = <<[case |-> case, msg |-> sub]>>]
ClearContent(m) == [m EXCEPT !.value.content = <<>>]
-----------------------------------------------------------------------------
(* Accessors.  The has-bit they use is their own: the serialiser and the   *)
(* parser have theirs in the entry of the field.                           *)
Bit(m, f) == Schema[m.of].accessors[f.name]
SetHasBit(m, f) == [m EXCEPT !.bits = @ \cup {Bit(m, f)}]
ClearHasBit(m, f) == [m EXCEPT !.bits = @ \ {Bit(m, f)}]

Set(m, f, v) == [SetHasBit(m, f) EXCEPT !.value[f.name] = v]
Add(m, f, v) == [SetHasBit(m, f) EXCEPT !.value[f.name] = Append(@, v)]
ClearField(m, f) == [ClearHasBit(m, f) EXCEPT !.value[f.name] = Default(f)]
(* release_ of a string: the pointer the caller gets, the object left.     *)
Released(m, f) == IF Bit(m, f) \in m.bits THEN <<m.value[f.name]>> ELSE <<>>
Release(m, f) == IF Bit(m, f) \in m.bits THEN ClearField(m, f) ELSE m

(* mutable_, release_ (clear_ leaves the same object) and set_allocated_   *)
(* of an alternative.                                                      *)
MutableAlt(m, alt) ==
    IF Holds(m, alt.case) THEN m ELSE Hold(m, alt.case, New(alt.type))
ReleaseAlt(m, alt) == IF Holds(m, alt.case) THEN ClearContent(m) ELSE m
SetAllocatedAlt(m, alt, sub) ==
    IF sub = <<>> THEN ClearContent(m) ELSE Hold(ClearContent(m), alt.case, sub[1])

(* The objects one accessor call makes of m; mutable_ or add_ and a call   *)
(* on the object it returns count as one.                                  *)
RECURSIVE Edited(_)
EditedAlt(m, alt) ==
    LET held == MutableAlt(m, alt)
    IN  {held, ReleaseAlt(m, alt)}
          \cup {SetAllocatedAlt(m, alt, sub) : sub \in {<<>>, <<New(alt.type)>>}}
          \cup {Hold(held, alt.case, sub) : sub \in Edited(held.value.content[1].msg)}
EditedField(m, f) ==
    CASE f.kind \in {"Str", "Raw"} ->
            {Set(m, f, v) : v \in IF f.kind = "Str" THEN Strings ELSE Blobs}
              \cup {SetHasBit(m, f), ClearField(m, f), Release(m, f)}
      [] f.kind \in {"Int64", "Enum"} ->
            {Set(m, f, v) : v \in Numbers} \cup {ClearField(m, f)}
      [] f.kind \in {"Strs", "Msgs"} ->
            {Add(m, f, v) : v \in IF f.kind = "Strs" THEN Strings ELSE Edited(New(f.type))}
              \cup {SetHasBit(m, f), ClearField(m, f)}
      [] f.kind = "Oneof" ->
            UNION {EditedAlt(m, alt) : alt \in Range(Schema[m.of].content)}
Edited(m) == UNION {EditedField(m, f) : f \in Fields(m.of)}
-----------------------------------------------------------------------------
(* Writing.  The serialiser takes the length of a submessage from the size *)
(* that ByteSizeLong cached in it just before.                             *)
Written(m, f) ==
    CASE f.kind = "Oneof" -> m.value.content # <<>>
      [] f.kind \in {"Strs", "Msgs"} -> f.bit \in m.bits
      [] OTHER -> f.bit \in m.bits /\ m.value[f.name] # Default(f)
WrittenFields(m) == SelectSeq(Schema[m.of].fields, LAMBDA f : Written(m, f))

RECURSIVE Groups(_)
Groups(n) == IF n < 128 THEN <<n>> ELSE <<128 + (n % 128)>> \o Groups(n \div 128)
Unsigned(i) == i % (2 ^ IntBits)
Tag(number, wireType) == Groups(8 * number + wireType)
Delimited(number, size, bytes) == Tag(number, 2) \o Groups(size) \o bytes

(* The number the content of m is written under.                           *)
ContentNumber(m, f) ==
    LET content == Schema[m.of].content
    IN  f.cases[CHOOSE n \in DOMAIN content : Holds(m, content[n].case)]

VarintSize(n) == CHOOSE k \in 1 .. IntBits : n < 128 ^ k /\ (k > 1 => n >= 128 ^ (k - 1))
LengthDelimitedSize(size) == VarintSize(size) + size
Sum(seq) == FoldLeft(LAMBDA x, y : x + y, 0, seq)

RECURSIVE ByteSizeLong(_)
FieldSize(m, f) ==
    LET v == m.value[f.name]
        tag == Schema[m.of].sizes[f.name]
    IN  CASE f.kind \in {"Str", "Raw"} -> tag + LengthDelimitedSize(Len(v))
          [] f.kind \in {"Int64", "Enum"} -> tag + VarintSize(Unsigned(v))
          [] f.kind = "Strs" -> Sum([i \in DOMAIN v |-> tag + LengthDelimitedSize(Len(v[i]))])
          [] f.kind = "Msgs" -> Sum([i \in DOMAIN v |-> tag + LengthDelimitedSize(ByteSizeLong(v[i]))])
          [] f.kind = "Oneof" -> tag + LengthDelimitedSize(ByteSizeLong(v[1].msg))
ByteSizeLong(m) ==
    LET fs == WrittenFields(m)
    IN  Sum([i \in DOMAIN fs |-> FieldSize(m, fs[i])]) + Len(m.unknown)

RECURSIVE Serialize(_)
FieldBytes(m, f) ==
    LET v == m.value[f.name]
    IN  CASE f.kind \in {"Str", "Raw"} -> Delimited(f.number, Len(v), v)
          [] f.kind \in {"Int64", "Enum"} -> Tag(f.number, 0) \o Groups(Unsigned(v))
          [] f.kind = "Strs" -> FlattenSeq([i \in DOMAIN v |-> Delimited(f.number, Len(v[i]), v[i])])
          [] f.kind = "Msgs" ->
                FlattenSeq([i \in DOMAIN v |->
                               Delimited(f.number, ByteSizeLong(v[i]), Serialize(v[i]))])
          [] f.kind = "Oneof" ->
                Delimited(ContentNumber(m, f), ByteSizeLong(v[1].msg), Serialize(v[1].msg))
Serialize(m) ==
    LET fs == WrittenFields(m)
    IN  FlattenSeq([i \in DOMAIN fs |-> FieldBytes(m, fs[i])]) \o m.unknown
-----------------------------------------------------------------------------
(* Clear, MergeImpl, CopyFrom.                                             *)
ClearMessage(m) ==
    [of |-> m.of, bits |-> {}, unknown |-> <<>>,
     value |-> [n \in DOMAIN m.value |->
        LET f == CHOOSE g \in Fields(m.of) : g.name = n
        IN  IF f.kind \in {"Int64", "Enum", "Oneof"} \/ f.bit \in m.bits
            THEN Default(f) ELSE m.value[n]]]

RECURSIVE MergeImpl(_, _)
(* Deviations: an alternative replaces the one held, the has-bits are not  *)
(* taken over.                                                             *)
MergedField_Replaces(to, from, f) ==
    IF Written(from, f)
    THEN IF f.kind \in {"Strs", "Msgs"} THEN to.value[f.name] \o from.value[f.name]
         ELSE from.value[f.name]
    ELSE to.value[f.name]
MergedField(to, from, f) ==
    LET old == to.value[f.name]
        new == from.value[f.name]
    IN  CASE ~Written(from, f) -> old
          [] Written(from, f) /\ f.kind \in {"Strs", "Msgs"} -> old \o new
          [] Written(from, f) /\ f.kind = "Oneof" ->
                IF Holds(to, new[1].case)
                THEN <<[new[1] EXCEPT !.msg = MergeImpl(old[1].msg, @)]>>
                ELSE new
          [] OTHER -> new
MergeImpl_NoBits(to, from) ==
    [to EXCEPT !.value = [n \in DOMAIN @ |->
                             MergedField(to, from, CHOOSE f \in Fields(to.of) : f.name = n)],
               !.unknown = @ \o from.unknown]
MergeImpl(to, from) ==
    [to EXCEPT !.value = [n \in DOMAIN @ |->
                             MergedField(to, from, CHOOSE f \in Fields(to.of) : f.name = n)],
               !.bits = @ \cup from.bits,
               !.unknown = @ \o from.unknown]
CopyFrom(to, from) == MergeImpl(ClearMessage(to), from)
-----------------------------------------------------------------------------
(* Reading: TcParser.  The result is a message or, of bytes that are not   *)
(* one, <<>>.  A field the table does not know, or that comes with another *)
(* wire type, is kept among the unknown fields, which are written back     *)
(* after the fields.  A peer sends wire types 0 and 2 only.                *)
ValidUtf8(bytes) == \A i \in DOMAIN bytes : bytes[i] < 128

RECURSIVE Value(_)
Value(bytes) == IF bytes = <<>> THEN 0 ELSE (bytes[1] % 128) + 128 * Value(Tail(bytes))
Signed(u) == IF u < 2 ^ (IntBits - 1) THEN u ELSE u - 2 ^ IntBits
(* The groups of the varint at the front of b, <<>> when it does not end.  *)
MaxGroups == (IntBits + 6) \div 7
VarintAt(b) == SubSeq(b, 1, SelectInSubSeq(b, 1, Min({Len(b), MaxGroups}), LAMBDA g : g < 128))
After(b, n) == SubSeq(b, n + 1, Len(b))

RECURSIVE ParseInto(_, _)
Store(m, e, v) == <<[m EXCEPT !.value[e.name] = v, !.bits = @ \cup {e.bit}]>>
Sub(m, e, number) ==
    IF e.kind = "Alt" /\ Holds(m, number) THEN m.value.content[1].msg ELSE New(e.type)
StoreSub(m, e, number, parsed) ==
    CASE parsed = <<>> -> <<>>
      [] parsed # <<>> /\ e.kind = "Alt"  -> <<Hold(m, number, parsed[1])>>
      [] parsed # <<>> /\ e.kind = "Subs" -> Store(m, e, m.value[e.name] \o parsed)
Stored(m, e, number, payload) ==
    CASE e.kind = "Varint" -> Store(m, e, Signed(Value(payload) % (2 ^ IntBits)))
      [] e.kind = "Bytes"  -> Store(m, e, payload)
      [] e.kind \in {"Utf8", "Utf8s"} /\ ~ValidUtf8(payload) -> <<>>
      [] e.kind = "Utf8"  /\ ValidUtf8(payload) -> Store(m, e, payload)
      [] e.kind = "Utf8s" /\ ValidUtf8(payload) -> Store(m, e, Append(m.value[e.name], payload))
      [] e.kind \in {"Subs", "Alt"} -> StoreSub(m, e, number, ParseInto(Sub(m, e, number), payload))

(* One field, of tag t.                                                    *)
Known(table, t) == t \div 8 \in DOMAIN table /\ (table[t \div 8].kind = "Varint" <=> t % 8 = 0)
Foreign(t, payload) ==
    Groups(t) \o (IF t % 8 = 0 THEN Groups(Value(payload) % (2 ^ IntBits))
                  ELSE Groups(Len(payload)) \o payload)
ParseField(m, table, t, payload) ==
    IF Known(table, t) THEN Stored(m, table[t \div 8], t \div 8, payload)
    ELSE <<[m EXCEPT !.unknown = @ \o Foreign(t, payload)]>>

(* The fields one after another: tag, then a number, or a length and as    *)
(* many bytes.                                                             *)
Continue(parsed, b) == IF parsed = <<>> THEN <<>> ELSE ParseInto(parsed[1], b)
ParseBytes(m, t, size, b) ==
    IF size > Len(b) THEN <<>>
    ELSE Continue(ParseField(m, Schema[m.of].table, t, SubSeq(b, 1, size)), After(b, size))
ParsePayload(m, t, first, b) ==
    CASE first = <<>> -> <<>>
      [] first # <<>> /\ t % 8 = 0 -> Continue(ParseField(m, Schema[m.of].table, t, first), b)
      [] first # <<>> /\ t % 8 # 0 -> ParseBytes(m, t, Value(first), b)
ParseTag(m, tag, b) ==
    IF tag = <<>> \/ Value(tag) < 8 THEN <<>>
    ELSE ParsePayload(m, Value(tag), VarintAt(b), After(b, Len(VarintAt(b))))
ParseInto(m, b) ==
    IF b = <<>> THEN <<m>> ELSE ParseTag(m, VarintAt(b), After(b, Len(VarintAt(b))))
Parse(T, b) == ParseInto(New(T), b)
-----------------------------------------------------------------------------
Init ==
    /\ \E T \in Types : msg = [o \in Objects |-> New(T)]
    /\ edits = 0
    /\ calls = 0

Edit(o) ==
    /\ edits < Edits(msg[o].of) /\ calls = 0
    /\ \E m \in Edited(msg[o]) : msg' = [msg EXCEPT ![o] = m]
    /\ edits' = edits + 1
    /\ UNCHANGED calls

(* Calls on whole messages.  Nobody uses a message whose parsing failed.   *)
Call(results) ==
    /\ calls < MaxCalls
    /\ msg' \in results
    /\ calls' = calls + 1
    /\ UNCHANGED edits
Receive(o) ==
    Call({[msg EXCEPT ![o] = m] : m \in UNION {Range(Parse(msg[o].of, b)) : b \in Received}})
Clear(o) == Call({[msg EXCEPT ![o] = ClearMessage(@)]})
Merge(o, p) == Call({[msg EXCEPT ![o] = MergeImpl(@, msg[p])]})
Copy(o, p) == Call({[msg EXCEPT ![o] = CopyFrom(@, msg[p])]})
Swap(o, p) == Call({[msg EXCEPT ![o] = msg[p], ![p] = msg[o]]})

Next ==
    \/ \E o \in Objects : Edit(o) \/ Receive(o) \/ Clear(o)
    \/ \E o, p \in Objects : o # p /\ (Merge(o, p) \/ Copy(o, p) \/ Swap(o, p))

Spec == Init /\ [][Next]_vars
-----------------------------------------------------------------------------
(* What the callers of an object see: the values its getters return.       *)
RECURSIVE View(_)
View(m) ==
    [value |-> [n \in DOMAIN m.value |->
        LET f == CHOOSE g \in Fields(m.of) : g.name = n
            v == m.value[n]
        IN  CASE f.kind = "Msgs" -> [i \in DOMAIN v |-> View(v[i])]
              [] f.kind = "Oneof" -> [i \in DOMAIN v |-> <<v[i].case, View(v[i].msg)>>]
              [] OTHER -> v],
     unknown |-> m.unknown]

(* Every string of a message is valid UTF-8.                               *)
RECURSIVE Clean(_)
Clean(m) ==
    \A f \in Fields(m.of) :
        LET v == m.value[f.name]
        IN  CASE f.kind = "Str" -> ValidUtf8(v)
              [] f.kind = "Strs" -> \A i \in DOMAIN v : ValidUtf8(v[i])
              [] f.kind = "Msgs" -> \A i \in DOMAIN v : Clean(v[i])
              [] f.kind = "Oneof" -> \A i \in DOMAIN v : Clean(v[i].msg)
              [] OTHER -> TRUE

(* What one side writes the other reads back with the same values: the     *)
(* field numbers, has-bits, wire types and lengths of the serialiser, of   *)
(* the accessors and of the parse table agree in every message, in one     *)
(* inside another too.  The one exception: a string that is not UTF-8,     *)
(* which the serialiser writes all the same, makes the peer refuse the     *)
(* whole message.                                                          *)
ReadAs(m, parsed) ==
    IF Clean(m) THEN parsed # <<>> /\ View(parsed[1]) = View(m) ELSE parsed = <<>>

(* ByteSizeLong, by which the buffer is allocated and the length of a      *)
(* submessage is written before it, is the number of bytes written.        *)
SizeExact == \A o \in Objects : ByteSizeLong(msg[o]) = Len(Serialize(msg[o]))

(* Bytes put after one another are read as one message merged into the     *)
(* other: the parser and MergeImpl, two implementations of merging, agree. *)
ConcatMerges ==
    Clean(msg["a"]) /\ Clean(msg["b"]) =>
    ReadAs(MergeImpl(msg["a"], msg["b"]),
           Parse(msg["a"].of, Serialize(msg["a"]) \o Serialize(msg["b"])))

(* The has-bits cannot be told from outside: clearing leaves what the      *)
(* constructor makes, copying leaves what was copied, and release_ hands   *)
(* out every value that is not empty - the object that is left reads and   *)
(* is written as one without the field.                                    *)
BitsUnseen ==
    \A o \in Objects :
        /\ View(ClearMessage(msg[o])) = View(New(msg[o].of))
        /\ \A p \in Objects \ {o} : View(CopyFrom(msg[o], msg[p])) = View(msg[p])
        /\ \A f \in {g \in Fields(msg[o].of) : g.kind \in {"Str", "Raw"}} :
               /\ Released(msg[o], f) = <<>> => msg[o].value[f.name] = <<>>
               /\ View(Release(msg[o], f)) = View(ClearField(msg[o], f))
=============================================================================
