---------------------------- MODULE ControllerCodec ----------------------------
(***************************************************************************)
(* The generated methods of the controller's messages: what MarshalVT,     *)
(* SizeVT, UnmarshalVT, EqualVT and CloneVT do with the tables of          *)
(* ControllerVT and ControllerClone, and a client and a server that        *)
(* exchange one message.                                                   *)
(* A message is a record of its fields and of unknownFields; a pointer     *)
(* field, and a oneof, is a sequence of at most one element; a string is   *)
(* the sequence of its bytes.  Messages of other packages (source policy,  *)
(* vertexes) are opaque bytes, a message by its encoding.                  *)
(***************************************************************************)
EXTENDS Integers, TLC, SequencesExt, FiniteSetsExt, ControllerMessages, ControllerVT, ControllerClone

VARIABLES
    type,    \* which message is exchanged
    order,   \* the order in which Go's range visits a map, "up" or "down"
    message, \* the message, as its owner holds it
    wire,    \* the bytes sent, <<>> or <<bytes>>
    got,     \* what the receiver made of them: <<>>, <<message>> or "error"
    original, \* the message as it was when it was cloned, <<>> or <<message>>
    clone    \* the clone, <<>> or <<message>>

vars == <<type, order, message, wire, got, original, clone>>

-----------------------------------------------------------------------------
\* protohelpers.EncodeVarint and SizeOfVarint: an int64 is cast to uint64, so
\* a negative value takes all ten groups of seven bits.
RECURSIVE varint(_, _)
varint(v, groups) ==
    IF groups = 1 THEN <<v % 2>>
    ELSE IF v \in 0..127 THEN <<v>>
    ELSE <<128 + (v % 128)>> \o varint(v \div 128, groups - 1)

EncodeVarint(v) == varint(v, 10)

SizeOfVarint(v) ==
    IF v < 0 THEN 10
    ELSE CHOOSE n \in 1..4 : v < 128^n /\ (n = 1 \/ v >= 128^(n - 1))

\* The shift loops of UnmarshalVT: <<value, bytes read>>, or <<>> when the
\* buffer ends first or ten bytes do not end the integer.
RECURSIVE unvarint(_, _)
unvarint(b, i) ==
    IF i = 10 THEN -(b[10] % 2)
    ELSE (b[i] % 128) + IF b[i] < 128 THEN 0 ELSE 128 * unvarint(b, i + 1)

ReadVarint(b) ==
    LET ends == {i \in 1..Min({10, Len(b)}) : b[i] < 128}
    IN  IF ends = {} THEN <<>> ELSE <<unvarint(b, 1), Min(ends)>>

\* What is done with what was read, unless it could not be read; what is left
\* of a buffer after n bytes.
With(read, F(_)) == IF read = <<>> THEN <<>> ELSE F(read)
After(b, n) == SubSeq(b, n + 1, Len(b))

LenPrefixed(b) == EncodeVarint(Len(b)) \o b

\* The zero value of a field, and of a message.
ZeroOf(k) ==
    CASE k.kind \in {"uint32", "int64"} -> 0
      [] k.kind = "bool" -> FALSE
      [] OTHER -> <<>>

Zero(t) ==
    IF t \notin DOMAIN Fields THEN <<>>
    ELSE [f \in DOMAIN Fields[t] \cup {"unknownFields"} |->
            IF f = "unknownFields" THEN <<>> ELSE ZeroOf(Fields[t][f])]

IsWrapper(t) == t \in DOMAIN Fields \ DOMAIN UnmarshalVTTable

\* The keys of a map in the order range visits them.
KeysOf(m) ==
    LET up == SetToSortSeq(DOMAIN m, LAMBDA a, b : Len(a) < Len(b) \/ (Len(a) = Len(b) /\ a[1] < b[1]))
    IN  IF order = "up" THEN up ELSE Reverse(up)

-----------------------------------------------------------------------------
\* MarshalToSizedBufferVT: each occurrence of a field is its tag followed by a
\* payload; fields at their zero value are left out; unknownFields come last.
\* A oneof is written by its wrapper, which writes an absent message as empty.
RECURSIVE MarshalToSizedBufferVT(_, _)

\* The sequences i to j of ss, one after the other.
RECURSIVE Concat(_, _, _)
Concat(ss, i, j) ==
    IF i > j THEN <<>>
    ELSE IF i = j THEN ss[i]
    ELSE Concat(ss, i, (i + j) \div 2) \o Concat(ss, (i + j) \div 2 + 1, j)

Payloads(k, v) ==
    CASE k.kind \in {"string", "bytes"} -> IF v = <<>> THEN <<>> ELSE <<LenPrefixed(v)>>
      [] k.kind \in {"uint32", "int64"} -> IF v = 0 THEN <<>> ELSE <<EncodeVarint(v)>>
      [] k.kind = "bool" -> IF v THEN <<<<1>>>> ELSE <<>>
      [] k.kind = "strings" -> [i \in DOMAIN v |-> LenPrefixed(v[i])]
      [] k.kind \in {"message", "messages"} ->
            [i \in DOMAIN v |-> LenPrefixed(MarshalToSizedBufferVT(k.of, v[i]))]
      [] k.kind = "map" ->
            LET keys == KeysOf(v)
            IN  [i \in DOMAIN keys |->
                    LenPrefixed(<<10>> \o LenPrefixed(keys[i])
                                \o <<18>> \o LenPrefixed(MarshalToSizedBufferVT(k.of, v[keys[i]])))]

Tagged(tag, payloads) == FlattenSeq([i \in DOMAIN payloads |-> tag \o payloads[i]])

MarshalToSizedBufferVT(t, m) ==
    LET field(row) ==
            LET k == Fields[t][row[1]]  v == m[row[1]]
            IN  CASE k.kind = "oneof" ->
                        FlattenSeq([i \in DOMAIN v |-> MarshalToSizedBufferVT(v[i].case, v[i])])
                  [] IsWrapper(t) /\ v = <<>> -> row[2] \o <<0>>
                  [] OTHER -> Tagged(row[2], Payloads(k, v))
    IN  IF t \notin DOMAIN Fields THEN m
        ELSE LET rows == Reverse(MarshalToSizedBufferVTTable[t])
             IN  Concat([i \in DOMAIN rows |-> field(rows[i])], 1, Len(rows))
                 \o (IF IsWrapper(t) THEN <<>> ELSE m.unknownFields)

\* SizeVT: computed from the lengths alone.
RECURSIVE SizeVT(_, _)

SizeOf(k, c, v) ==
    LET withLen(l) == l + SizeOfVarint(l)
        entry(key) == 1 + withLen(Len(key)) + 1 + withLen(SizeVT(k.of, v[key]))
    IN  CASE k.kind \in {"string", "bytes"} -> IF Len(v) > 0 THEN c + withLen(Len(v)) ELSE 0
          [] k.kind \in {"uint32", "int64"} -> IF v # 0 THEN c + SizeOfVarint(v) ELSE 0
          [] k.kind = "bool" -> IF v THEN c ELSE 0
          [] k.kind = "strings" -> FoldLeft(LAMBDA n, s : n + c + withLen(Len(s)), 0, v)
          [] k.kind \in {"message", "messages"} -> FoldLeft(LAMBDA n, e : n + c + withLen(SizeVT(k.of, e)), 0, v)
          [] k.kind = "map" -> MapThenSumSet(LAMBDA key : c + withLen(entry(key)), DOMAIN v)
          [] k.kind = "oneof" -> FoldLeft(LAMBDA n, w : n + SizeVT(w.case, w), 0, v)

SizeVT(t, m) ==
    IF t \notin DOMAIN Fields THEN Len(m)
    ELSE (IF IsWrapper(t) THEN 0 ELSE Len(m.unknownFields))
         + MapThenSumSet(LAMBDA f : IF IsWrapper(t) /\ m[f] = <<>> THEN 3
                                    ELSE SizeOf(Fields[t][f], SizeVTTable[t][f], m[f]),
                         DOMAIN SizeVTTable[t])

\* MarshalVT writes from the end of a buffer of SizeVT bytes and returns the
\* first n bytes of it, n being what was written.  A buffer that is too small
\* is a run-time panic.
MarshalVT(t, m) ==
    LET buffer(written, size) ==
            IF size < Len(written) THEN "panic"
            ELSE SubSeq([i \in 1..(size - Len(written)) |-> 0] \o written, 1, Len(written))
    IN  buffer(MarshalToSizedBufferVT(t, m), SizeVT(t, m))

-----------------------------------------------------------------------------
\* protohelpers.Skip for the wire types the messages use: how many bytes the
\* next record takes, 0 when it is malformed.
Skip(b) ==
    LET sum(tag, len) ==
            IF len = <<>> THEN 0 ELSE tag[2] + len[2] + (IF tag[1] % 8 = 2 THEN len[1] ELSE 0)
        record(tag) ==
            IF tag = <<>> \/ tag[1] % 8 \notin {0, 2} THEN 0 ELSE sum(tag, ReadVarint(After(b, tag[2])))
    IN  record(ReadVarint(b))

takesWhatIsThere(wireType, b) == \* mutant: no check that the payload is complete
    With(ReadVarint(b), LAMBDA n :
        IF wireType = 0 THEN n ELSE <<SubSeq(b, n[2] + 1, Min({n[2] + n[1], Len(b)})), n[2] + n[1]>>)

\* What follows a tag: <<payload, bytes read>>, or <<>> when the buffer ends
\* before the payload does or its length is negative.
Payload(wireType, b) ==
    With(ReadVarint(b), LAMBDA n :
        IF wireType = 0 THEN n
        ELSE IF n[1] < 0 \/ n[2] + n[1] > Len(b) THEN <<>>
        ELSE <<SubSeq(b, n[2] + 1, n[2] + n[1]), n[2] + n[1]>>)

\* UnmarshalVT into m: <<m'>>, or <<>> for an error.  A second occurrence of a
\* message field, or of the same case of a oneof, is merged into the first; an
\* unknown record is kept in unknownFields.
RECURSIVE UnmarshalVT(_, _, _)

\* The loop over the two fields of a map entry.  MarshalVT writes both and the
\* entry holds them, so neither a value that is absent (nil for a message) nor
\* one that goes past the entry is told apart here.
RECURSIVE MapEntry(_, _, _, _)
MapEntry(t, key, value, b) ==
    LET skipped(n) == IF n = 0 \/ n > Len(b) THEN <<>> ELSE <<key, value, n>>
        received(tag, p) ==
            IF tag[1] \div 8 = 1 THEN <<p[1], value, tag[2] + p[2]>>
            ELSE With(UnmarshalVT(t, Zero(t), p[1]), LAMBDA v : <<key, v[1], tag[2] + p[2]>>)
        field(tag) ==
            IF tag[1] \div 8 \notin {1, 2} THEN skipped(Skip(b))
            ELSE With(Payload(2, After(b, tag[2])), LAMBDA p : received(tag, p))
    IN  IF b = <<>> THEN <<key, value>>
        ELSE With(With(ReadVarint(b), field), LAMBDA e : MapEntry(t, e[1], e[2], After(b, e[3])))

\* Field f of t receives payload x: one case of the switch in UnmarshalVT.
Receive(t, m, f, x) ==
    IF f = "unknownFields" THEN <<[m EXCEPT ![f] = @ \o x]>>
    ELSE IF f \notin DOMAIN Fields[t]
    THEN LET w == Cases[t][f]
             of == Fields[w][f].of
             into == IF m.Input # <<>> /\ m.Input[1].case = w THEN m.Input[1][f][1] ELSE Zero(of)
         IN  With(UnmarshalVT(of, into, x), LAMBDA v :
                <<[m EXCEPT !.Input = <<[g \in {"case", f} |-> IF g = "case" THEN w ELSE v]>>]>>)
    ELSE LET k == Fields[t][f]
             into == IF k.kind = "messages" \/ m[f] = <<>> THEN Zero(k.of) ELSE m[f][1]
         IN  CASE k.kind \in {"string", "bytes", "uint32", "int64"} -> <<[m EXCEPT ![f] = x]>>
               [] k.kind = "bool" -> <<[m EXCEPT ![f] = x # 0]>>
               [] k.kind = "strings" -> <<[m EXCEPT ![f] = Append(@, x)]>>
               [] k.kind \in {"message", "messages"} ->
                    With(UnmarshalVT(k.of, into, x), LAMBDA v :
                        <<[m EXCEPT ![f] = IF k.kind = "message" THEN v ELSE @ \o v]>>)
               [] k.kind = "map" ->
                    With(MapEntry(k.of, <<>>, Zero(k.of), x), LAMBDA e : <<[m EXCEPT ![f] = (e[1] :> e[2]) @@ @]>>)

\* The next record of the buffer: <<field, payload, bytes read>>, or <<>>.
NextRecord(t, b) ==
    LET unknown(n) == IF n = 0 \/ n > Len(b) THEN <<>> ELSE <<"unknownFields", SubSeq(b, 1, n), n>>
        field(tag) ==
            LET wireType == tag[1] % 8
                rows == {r \in UnmarshalVTTable[t] : r[1] = tag[1] \div 8}
                row == CHOOSE r \in rows : TRUE
            IN  IF wireType = 4 \/ tag[1] \div 8 <= 0 THEN <<>>
                ELSE IF rows = {} THEN unknown(Skip(b))
                ELSE IF wireType # row[3] THEN <<>>
                ELSE With(Payload(wireType, After(b, tag[2])), LAMBDA p : <<row[2], p[1], tag[2] + p[2]>>)
    IN  With(ReadVarint(b), field)

\* One turn of the loop: the message and what is left of the buffer, or <<>>.
Record(t, m, b) ==
    With(NextRecord(t, b), LAMBDA r :
        With(Receive(t, m, r[1], r[2]), LAMBDA next : <<next[1], After(b, r[3])>>))

\* At most n turns, on <<m, b>>: the loop ends with an error or the buffer.
RECURSIVE Loop(_, _, _)
Loop(t, s, n) ==
    IF s = <<>> \/ s[2] = <<>> THEN s
    ELSE IF n = 1 THEN Record(t, s[1], s[2])
    ELSE Loop(t, Loop(t, s, n \div 2), n - n \div 2)

UnmarshalVT(t, m, b) ==
    IF t \notin DOMAIN Fields THEN <<b>>
    ELSE With(Loop(t, <<m, b>>, Len(b)), LAMBDA s : <<s[1]>>)

-----------------------------------------------------------------------------
\* EqualVT: a list is compared element by element, a map key by key.
RECURSIVE EqualVT(_, _, _)

EqualField(k, x, y) ==
    CASE k.kind \in {"message", "messages"} ->
            Len(x) = Len(y) /\ \A i \in DOMAIN x : EqualVT(k.of, x[i], y[i])
      [] k.kind = "map" ->
            /\ Cardinality(DOMAIN x) = Cardinality(DOMAIN y)
            /\ \A key \in DOMAIN x : key \in DOMAIN y /\ EqualVT(k.of, x[key], y[key])
      [] k.kind = "oneof" ->
            /\ Len(x) = Len(y)
            /\ \A i \in DOMAIN x : x[i].case = y[i].case /\ EqualVT(x[i].case, x[i], y[i])
      [] OTHER -> x = y

\* A wrapper that holds no message is compared as if it held an empty one.
orEmpty(t, f, v) == IF IsWrapper(t) /\ v = <<>> THEN <<Zero(Fields[t][f].of)>> ELSE v

EqualVT(t, x, y) ==
    IF t \notin DOMAIN Fields THEN x = y
    ELSE /\ \A f \in EqualVTTable[t] : EqualField(Fields[t][f], orEmpty(t, f, x[f]), orEmpty(t, f, y[f]))
         /\ IsWrapper(t) \/ x.unknownFields = y.unknownFields

\* CloneVT: the fields the table names are taken over, the others stay zero.
\* (A oneof's wrapper and nested messages are cloned by their own tables.)
RECURSIVE CloneVT(_, _)

CloneField(k, v) ==
    CASE k.kind \in {"message", "messages"} -> [i \in DOMAIN v |-> CloneVT(k.of, v[i])]
      [] k.kind = "map" -> [key \in DOMAIN v |-> CloneVT(k.of, v[key])]
      [] k.kind = "oneof" -> [i \in DOMAIN v |-> CloneVT(v[i].case, v[i])]
      [] OTHER -> v

CloneVT(t, m) ==
    IF t \notin DOMAIN Fields THEN m
    ELSE [f \in DOMAIN m |->
            CASE f \in {"unknownFields", "case"} -> m[f]
              [] f \notin DOMAIN CloneVTTable[t] -> ZeroOf(Fields[t][f])
              [] CloneVTTable[t][f] = "clone" -> CloneField(Fields[t][f], m[f])
              [] OTHER -> m[f]]

\* The fields of which message and clone still share a slice, a map or a message.
RECURSIVE Shared(_)
Shared(t) ==
    IF t \notin DOMAIN Fields THEN {}
    ELSE {f \in DOMAIN CloneVTTable[t] :
            LET k == Fields[t][f]  how == CloneVTTable[t][f]
                elements == IF k.kind = "oneof" THEN {Cases[t][c] : c \in DOMAIN Cases[t]}
                            ELSE IF k.kind \in {"message", "messages", "map"} THEN {k.of} \ {"string"}
                            ELSE {}
            IN  \/ how = "assign" /\ k.kind \notin {"string", "uint32", "int64", "bool"}
                \/ how = "copy" /\ elements # {}
                \/ how = "clone" /\ \E e \in elements : Shared(e) # {}}

-----------------------------------------------------------------------------
\* Values that reach every branch of the methods: absent, short and long
\* (a length of two bytes) strings, one-byte, two-byte and negative integers,
\* lists and maps with an empty element, absent, empty and full messages, and
\* for each case of a oneof a wrapper that holds no message.
LongString == [i \in 1..130 |-> 97]

\* A value of field f; Of gives the messages in it.
ValueOf(t, f, Of(_)) ==
    LET k == Fields[t][f]
    IN  CASE k.kind \in {"string", "bytes"} -> <<97>>
          [] k.kind = "uint32" -> 300
          [] k.kind = "int64" -> -1
          [] k.kind = "bool" -> TRUE
          [] k.kind = "strings" -> <<<<97>>, <<>>>>
          [] k.kind = "message" -> <<Of(k.of)>>
          [] k.kind = "messages" -> <<Zero(k.of), Of(k.of)>>
          [] k.kind = "map" -> [key \in {<<97>>, <<98>>} |-> IF key = <<97>> THEN Of(k.of) ELSE Zero(k.of)]
          [] k.kind = "oneof" ->
                LET c == CHOOSE c \in DOMAIN Cases[t] : TRUE
                IN  <<[case |-> Cases[t][c]] @@ (c :> <<Of(Fields[Cases[t][c]][c].of)>>)>>

\* A message with every field set, and with empty messages or such messages in it.
Filled(t, Of(_)) ==
    IF t \notin DOMAIN Fields THEN <<97>>
    ELSE [f \in DOMAIN Zero(t) |-> IF f = "unknownFields" THEN <<>> ELSE ValueOf(t, f, Of)]

Flat(t) == Filled(t, Zero)
Full(t) == Filled(t, Flat)

SamplesOf(t, f) ==
    LET k == Fields[t][f]
    IN  {ZeroOf(k), ValueOf(t, f, Flat)} \cup
        CASE k.kind \in {"string", "bytes"} -> {LongString}
          [] k.kind \in {"uint32", "int64"} -> {1}
          [] k.kind = "bool" -> {}
          [] k.kind = "strings" -> {<<<<>>, <<97>>>>, <<<<97>>>>}
          [] k.kind = "message" -> {<<Zero(k.of)>>}
          [] k.kind = "messages" -> {<<Flat(k.of)>>, <<Flat(k.of), Zero(k.of)>>}
          [] k.kind = "map" -> {<<97>> :> Zero(k.of), <<97>> :> Flat(k.of)}
          [] k.kind = "oneof" ->
                UNION {{<<[case |-> Cases[t][c]] @@ (c :> v)>> :
                            v \in {<<>>, <<Zero(Fields[Cases[t][c]][c].of)>>, <<Flat(Fields[Cases[t][c]][c].of)>>}} :
                       c \in DOMAIN Cases[t]}

\* Every field in turn takes each of its values, the others being absent.
Samples(t) ==
    {Full(t)} \cup UNION {{[Zero(t) EXCEPT ![f] = v] : v \in SamplesOf(t, f)} : f \in DOMAIN Fields[t]}

-----------------------------------------------------------------------------
\* A record a newer peer sends that this version does not know: field 100.
NewField == <<160, 6, 1>>

Init ==
    /\ type \in DOMAIN UnmarshalVTTable
    /\ order \in {"up", "down"}
    /\ message \in Samples(type)
    /\ wire = <<>> /\ got = <<>> /\ original = <<>> /\ clone = <<>>

\* The owner marshals the message.
Send ==
    /\ wire = <<>>
    /\ wire' = <<MarshalVT(type, message)>>
    /\ UNCHANGED <<type, order, message, got, original, clone>>

\* The peer unmarshals what it received into a new message: the bytes that
\* were sent, or those of a newer version of the message.
Deliver ==
    /\ wire # <<>> /\ got = <<>>
    /\ \E sent \in {wire[1], wire[1] \o NewField} :
            got' = [from |-> sent, result |-> UnmarshalVT(type, Zero(type), sent)]
    /\ UNCHANGED <<type, order, message, wire, original, clone>>

\* The owner clones the message.
Clone ==
    /\ original = <<>>
    /\ original' = <<message>>
    /\ clone' = <<CloneVT(type, message)>>
    /\ UNCHANGED <<type, order, message, wire, got>>

\* The owner of the original writes to a field, into the slice, map or message
\* it refers to: the clone sees the write when it refers to the same one.
Write(f) ==
    /\ original # <<>> /\ message = original[1] /\ message[f] # ZeroOf(Fields[type][f])
    /\ \E v \in SamplesOf(type, f) \ {message[f]} :
        /\ message' = [message EXCEPT ![f] = v]
        /\ clone' = IF f \in Shared(type) THEN <<[clone[1] EXCEPT ![f] = v]>> ELSE clone
    /\ UNCHANGED <<type, order, wire, got, original>>

Next == Send \/ Deliver \/ Clone \/ \E f \in DOMAIN Fields[type] : Write(f)

Spec == Init /\ [][Next]_vars

-----------------------------------------------------------------------------
\* The message has a oneof whose wrapper holds no message; what such a message
\* stands for.
held(t, m, Of(_, _)) ==
    IF t \notin DOMAIN Cases THEN {}
    ELSE UNION {{Of(c, m.Input[i]) : c \in DOMAIN m.Input[i] \ {"case"}} : i \in DOMAIN m.Input}

Hollow(t, m) == <<>> \in held(t, m, LAMBDA c, w : w[c])

Normal(t, m) ==
    IF ~Hollow(t, m) THEN m
    ELSE [m EXCEPT !.Input = <<CHOOSE w \in held(t, m, LAMBDA c, w : [w EXCEPT ![c] = orEmpty(w.case, c, @)]) : TRUE>>]

\* The peer reads the message that was sent, whatever its fields hold and in
\* whatever order maps were written: the tags, lengths and sizes of
\* MarshalToSizedBufferVT, SizeVT and UnmarshalVT agree (MarshalVT would
\* otherwise return the wrong part of its buffer, or panic).  They disagree for a
\* oneof whose wrapper holds no message, of which SizeVT counts three bytes and
\* two are written: the peer refuses these bytes and never takes them for another
\* message.  A peer of an older version passes on what it does not know: the
\* fields of a newer message survive UnmarshalVT and a second MarshalVT.
RoundTrip ==
    got # <<>> /\ original = <<>> =>
        IF Hollow(type, message) THEN got.result = <<>>
        ELSE IF got.from = wire[1] THEN got.result = <<message>>
        ELSE got.result # <<>> /\ MarshalVT(type, got.result[1]) = got.from

\* A message that was cut short is rejected, or is read as the fields that
\* arrived whole and nothing else (UnmarshalVT never invents a value).
CutShort ==
    wire # <<>> /\ got = <<>> /\ Len(wire[1]) < 40 =>
        \A n \in 0..Len(wire[1]) :
            LET cut == SubSeq(wire[1], 1, n)  read == UnmarshalVT(type, Zero(type), cut)
            IN  read = <<>> \/ MarshalVT(type, read[1]) = cut

\* A clone is the message as it was, whatever its owner does to the original
\* afterwards: CloneVT takes over every field and shares none of them.  EqualVT
\* sees every change that the owner has made since, in whichever field, and
\* nothing else; it takes a wrapper without a message for one with an empty
\* message.
CloneIndependent ==
    original # <<>> => /\ clone = original
                       /\ EqualVT(type, message, clone[1]) <=> (Normal(type, message) = Normal(type, clone[1]))
=============================================================================
