------------------------------- MODULE Binding -------------------------------
(***************************************************************************)
(* Request messages on their way into an HTTP request and out of it again: *)
(* the client's substitution of path parameters and query conversion       *)
(* (runtime/substitute.go, client), and the server's population from path, *)
(* query and body, by reflection (runtime/populate.go) or by the generated *)
(* request builders (protoc-gen-zararpc).                                  *)
(*                                                                         *)
(* A text is a sequence of atoms; a field type is [kind, bits, of, fields];*)
(* a value is tagged by what it is: <<"str", text>>, <<"int", n>>,         *)
(* <<"list", values>>, <<"msg", name |-> value>>, and Nil.  A partial      *)
(* result is a set: empty for an error.  Names in a query are sequences of *)
(* the parts that dots separate.                                           *)
(***************************************************************************)
EXTENDS Integers, Sequences, SequencesExt, FiniteSetsExt, TLC

CONSTANTS
  Wide,     \* bound: the bits of int64; the other widths are given by Ops
  Compound  \* the field names of several words

Type(kind, bits) == [kind |-> kind, bits |-> bits, of |-> <<>>, fields |-> <<>>]
String   == Type("string", 0)
Sized(n) == Type("int", n)
Oneof    == Type("oneof", 0)                    \* a Go interface
Optional(n) == Type("optional", n)             \* a pointer to an integer
List(type)  == [Type("list", 0) EXCEPT !.of = type]
Bytes       == List(Type("byte", 0))
Message(fields) == [Type("message", 0) EXCEPT !.fields = fields]   \* a pointer

Nil == <<"nil">>
Zero(type) == CASE type.kind = "string" -> <<"str", <<>>>>
                [] type.kind \in {"int", "byte"} -> <<"int", 0>>
                [] type.kind = "list" -> <<"list", <<>>>>
                [] OTHER -> Nil
New(fields) == <<"msg", [f \in DOMAIN fields |-> Zero(fields[f])]>>

\* reflectValueToString: numbers and strings, and "%v" of anything else, which
\* no parser of the other side accepts.
ToText(value) == CASE value[1] = "str" -> value[2]
                   [] value[1] = "int" -> <<ToString(value[2])>>
                   [] OTHER -> <<"%v">>

\* strconv.ParseInt at a width, and reflect's SetInt, which keeps the low bits.
IntRange(bits) == -(2 ^ (bits - 1)) .. 2 ^ (bits - 1) - 1
ParseInt(text, bits) == {n \in IntRange(bits) : text = <<ToString(n)>>}
Narrow(n, bits) == ((n + 2 ^ (bits - 1)) % (2 ^ bits)) - 2 ^ (bits - 1)

DecodeBase64(text) ==
  IF text = <<>> \/ Head(text) # "base64" THEN {}
  ELSE {<<"list", [i \in DOMAIN Tail(text) |->
                     <<"int", CHOOSE n \in 0..255 : ToString(n) = Tail(text)[i]>>]>>}

-----------------------------------------------------------------------------
(* Server: setStringValue, setFieldStrings, FindField *)

\* Integers are parsed at 64 bits, whatever the field's width.
SetStringValue(type, text) ==
  CASE type.kind = "string" -> {<<"str", text>>}
    [] type.kind \in {"int", "optional"} ->
         {<<"int", Narrow(n, type.bits)>> : n \in ParseInt(text, Wide)}
    [] type.kind = "byte" -> {<<"int", n % 256>> : n \in ParseInt(text, Wide) \cap Nat}
    [] type.kind = "list" /\ type.of.kind = "byte" -> DecodeBase64(text)
    [] OTHER -> {}

\* The last value counts, unless the field is a slice.
SetStrings(type, texts) ==
  IF type.kind # "list" THEN SetStringValue(type, Last(texts))
  ELSE LET elems == [i \in DOMAIN texts |-> SetStringValue(type.of, texts[i])] IN
       IF \E i \in DOMAIN texts : elems[i] = {} THEN {}
       ELSE {<<"list", [i \in DOMAIN texts |-> CHOOSE v \in elems[i] : TRUE]>>}

\* Sets the field at the end of a dotted name, allocating the messages before
\* it; a field that is not there is left out, which is an error if strict.
RECURSIVE SetField(_, _, _, _, _)
SetField(fields, msg, name, texts, strict) ==
  LET f == Head(name)
      inner == fields[f].fields
      old == IF msg[2][f] = Nil THEN New(inner) ELSE msg[2][f]
      set == IF Len(name) = 1 THEN SetStrings(fields[f], texts)
             ELSE SetField(inner, old, Tail(name), texts, strict)
  IN
  IF f \notin DOMAIN fields \/ (Len(name) > 1 /\ fields[f].kind # "message")
  THEN IF strict THEN {} ELSE {msg}
  ELSE {<<"msg", [msg[2] EXCEPT ![f] = v]>> : v \in set}

\* Every name of a query that is not bound, in any order: the names are
\* distinct, so that the order does not matter.
PopulateQuery(fields, msg, query, bound) ==
  FoldSet(LAMBDA name, msgs : UNION {SetField(fields, m, name, query[name], FALSE) : m \in msgs},
          {msg}, {n \in DOMAIN query : query[n] # <<>> /\ n \notin bound})

\* Codec.Unmarshal of a body, which is the set of the values it may decode to:
\* none if it is empty or malformed.  A message may name some fields only:
\* generated messages are reset first and know no other fields; plain structs
\* keep what the body leaves out.
Unmarshal(fields, msg, body, generated) ==
  LET old == IF generated THEN New(fields) ELSE msg IN
  {<<"msg", [f \in DOMAIN fields |->
              IF f \in DOMAIN b[2] THEN b[2][f] ELSE old[2][f]]>> :
     b \in {v \in body : v[1] = "msg" /\ (generated => DOMAIN v[2] \subseteq DOMAIN fields)}}

SetFieldFromBody(op, msg, body) ==
  LET type == op.fields[op.body]
      set == IF type.kind = "message"
             THEN Unmarshal(type.fields, New(type.fields), body, op.generated)
             ELSE {v \in body : v[1] = Zero(type)[1]}
  IN {<<"msg", [msg[2] EXCEPT ![op.body] = v]>> : v \in set}

SetPathParams(fields, msg, params) ==
  FoldSet(LAMBDA p, msgs : UNION {SetField(fields, m, <<p>>, <<params[p]>>, TRUE) : m \in msgs},
          {msg}, DOMAIN params)

\* PopulateMessage: path, then body, then query.
PopulateMessage(op, req) ==
  LET bind == SetPathParams(op.fields, New(op.fields), req.params) IN
  CASE op.body = "*" -> UNION {Unmarshal(op.fields, m, req.body, op.generated) : m \in bind}
    [] op.body = "" -> UNION {PopulateQuery(op.fields, m, req.query,
                                            {<<p>> : p \in DOMAIN req.params}) : m \in bind}
    [] OTHER -> UNION {PopulateQuery(op.fields, m, req.query,
                                     {<<op.body>>} \cup {<<p>> : p \in DOMAIN req.params}) :
                         m \in UNION {SetFieldFromBody(op, b, req.body) : b \in bind}}

-----------------------------------------------------------------------------
(* Server: the generated request builders *)

\* The Path* converters check the width; a repeated field is split at commas.
PathValue(type, text) ==
  CASE type.kind = "int" -> {<<"int", n>> : n \in ParseInt(text, type.bits)}
    [] type.kind = "list" /\ type.of.kind = "string" ->
         {<<"list", <<<<"str", text>>>>>>}
    [] OTHER -> SetStringValue(type, text)

\* The field that is the body is decoded through a pointer to the field.  If it
\* is a message, that is no proto.Message: the proto codec refuses it, and JSON
\* is read by encoding/json, for which a 64-bit integer is not a string and a
\* name of several words is not in camel case.
ReadBodyField(op, req) ==
  LET type == op.fields[op.body]
      Zeros == [f \in DOMAIN type.fields |-> Zero(type.fields[f])]
      Told(v) == {f \in DOMAIN v[2] \cap DOMAIN Zeros : v[2][f] # Zeros[f]} \ Compound
      IsWide(f) == type.fields[f].kind = "int" /\ type.fields[f].bits = Wide
  IN
  CASE req.codec = "proto" -> {}
    [] type.kind = "message" ->
         {<<"msg", [f \in DOMAIN Zeros |-> IF f \in Told(v) THEN v[2][f] ELSE Zeros[f]]>> :
            v \in {b \in req.body : b[1] = "msg" /\ ~\E f \in Told(b) : IsWide(f)}}
    [] OTHER -> {v \in req.body : v[1] = Zero(type)[1]}

\* Body, then path, then query.
BuildRequest(op, req) ==
  LET Assign(f, values, msg) == {<<"msg", [msg[2] EXCEPT ![f] = v]>> : v \in values}
      read == CASE op.body = "*" -> Unmarshal(op.fields, New(op.fields), req.body, TRUE)
                [] op.body = "" -> {New(op.fields)}
                [] OTHER -> Assign(op.body, ReadBodyField(op, req), New(op.fields))
      Extract(p, msgs) ==
        UNION {Assign(p, PathValue(op.fields[p], req.params[p]), m) : m \in msgs}
      bind == FoldSet(Extract, read, DOMAIN req.params)
  IN IF op.body = "*" THEN bind
     ELSE UNION {PopulateQuery(op.fields, m, req.query,
                               {<<op.body>>} \cup {<<p>> : p \in op.path}) : m \in bind}

NewRequest(op, req) == IF op.generated THEN BuildRequest(op, req) ELSE PopulateMessage(op, req)

\* The first frame of a WebSocket is the whole message.
DecodeRequest(op, frame) == Unmarshal(op.fields, New(op.fields), frame, op.generated)

-----------------------------------------------------------------------------
(* Client *)

\* SubstitutePathParamsBound: the text of a field in the place of its name,
\* with nothing escaped; a repeated or optional field is printed as "%v".
SubstitutePathParams(op, msg) ==
  FlattenSeq([i \in DOMAIN op.template |->
    IF op.template[i].kind = "literal" THEN <<"/">> \o op.template[i].literal
    ELSE <<"/">> \o (IF op.fields[op.template[i].name].kind = "optional" THEN <<"%v">>
                     ELSE ToText(msg[2][op.template[i].name]))]) \o op.verb

\* MessageToQuery: zero values are sent too, nil pointers are not; a slice, of
\* bytes as well, is one value for each element, and none when it is empty.
\* The interface of a oneof goes under its Go name.
MessageToQuery(op, msg) ==
  LET value == msg[2]
      sent == {f \in DOMAIN value \ op.path :
                 IF value[f] = Nil THEN op.fields[f].kind = "oneof" ELSE value[f] # <<"list", <<>>>>}
  IN [n \in {<<f>> : f \in sent} |->
        IF value[n[1]][1] = "list"
        THEN [i \in DOMAIN value[n[1]][2] |-> ToText(value[n[1]][2][i])]
        ELSE <<ToText(value[n[1]])>>]

NoQuery == [n \in {} |-> <<>>]

\* What DoUnary puts in the request for a message.
UnaryRequest(op, msg) ==
  [path |-> SubstitutePathParams(op, msg),
   query |-> IF op.body = "" THEN MessageToQuery(op, msg) ELSE NoQuery,
   body |-> CASE op.body = "" -> {} [] op.body = "*" -> {msg} [] OTHER -> {msg[2][op.body]}]

\* What DoServerStream puts in it: the whole message is the body, or the first
\* frame of a WebSocket, whatever the operation's mapping is.
StreamRequest(op, msg) ==
  [path |-> SubstitutePathParams(op, msg), query |-> NoQuery, body |-> {msg}]

-----------------------------------------------------------------------------
(* Where client and server disagree about a mapping.  These say so from the  *)
(* operation and the message alone, not from what the functions above do.    *)

\* The fields that the server does not look for where the client puts them:
\* with a mapped body those that neither path nor body binds, for want of a
\* query, and the body itself when a name of several words in it is set; in a
\* stream over HTTP, whose body is the whole message, all but the path's.
Lost(op, via, msg) ==
  LET IsSet(fields, m, f) == m[2][f] # Zero(fields[f])
      Hidden(f) ==
        /\ op.generated /\ op.fields[f].kind = "message" /\ msg[2][f] # Nil
        /\ \E g \in Compound \cap DOMAIN op.fields[f].fields : IsSet(op.fields[f].fields, msg[2][f], g)
  IN CASE via \in {"grpc", "ws"} \/ op.body = "*" -> {}
       [] via = "sse" -> DOMAIN op.fields \ op.path
       [] op.body = "" -> {}
       [] OTHER -> {f \in DOMAIN op.fields \ op.path :
                      IF f = op.body THEN Hidden(f) ELSE IsSet(op.fields, msg, f)}

\* The messages that a server may refuse to bind: a path or a query with a value
\* printed as "%v"; a mapped body in binary or in a stream, or with an integer in
\* quotes; and a body of a stream that comes in a WebSocket, but is asked for
\* before.
Refusable(op, via, codec, msg) ==
  \/ \E p \in op.path : op.fields[p].kind \notin {"string", "int"}
  \/ /\ op.body = "" /\ via = "unary"
     /\ \E f \in DOMAIN op.fields \ op.path :
          op.fields[f].kind = "oneof" \/ (op.fields[f].kind = "message" /\ msg[2][f] # Nil)
  \/ /\ op.body \notin {"", "*"}
     /\ \/ via # "unary" \/ codec = "proto"
        \/ Sized(Wide) \in Range(op.fields[op.body].fields)
  \/ op.body = "*" /\ via = "ws" /\ codec = "json"

\* A path names the operation that it was made for if no value in it is empty
\* or has a slash of its own: nothing is escaped.
Addressable(op, msg) ==
  \A p \in op.path : ToText(msg[2][p]) # <<>> /\ "/" \notin ToSet(ToText(msg[2][p]))
===============================================================================
