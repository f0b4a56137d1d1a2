------------------------------- MODULE MCServer -------------------------------
(***************************************************************************)
(* A server with one operation of each form and mapping, three policies,   *)
(* and two callers: r1 makes any call below, r2 one over gRPC.             *)
(***************************************************************************)
EXTENDS Server, SequencesExt, FiniteSetsExt

CONSTANTS r1, r2, Everyone, Deputies, Addresses

B == INSTANCE Binding WITH Wide <- 5, Compound <- {"note_text"}
R == INSTANCE RouteTree
P == INSTANCE Policy WITH
       Validator <- [method |-> "HS256", key |-> "k", issuer |-> "zara", audience |-> "api"]

MCUnits == <<1, 4, 12, 60>>
MCStreamChain == <<"rbac", "jwt", "public">>
MCUnaryWire(op, message) == B!UnaryRequest(op, message)
MCStreamWire(op, message) == B!StreamRequest(op, message)
MCBoundRequest(op, req) == B!NewRequest(op, req)
MCBoundFrame(op, frame) == B!DecodeRequest(op, frame)
MCLost(op, via, message) == B!Lost(op, via, message)
MCRefusable(op, via, codec, message) == B!Refusable(op, via, codec, message)
MCAddressable(op, message) == B!Addressable(op, message)

-----------------------------------------------------------------------------
(* Operations *)

Unary(procedure, method, template, body, fields) ==
  [form |-> "unary", method |-> method, procedure |-> procedure, template |-> template,
   verb |-> <<>>, path |-> {template[i].name : i \in {j \in DOMAIN template : template[j].kind = "param"}},
   body |-> body, fields |-> fields, generated |-> TRUE, gateway |-> FALSE, responseBody |-> ""]

Items == R!Literal(<<"items">>)
Id == R!Param("id")
Small == B!Sized(3)

MCOperations ==
  [get |-> Unary(<<"Items", "Get">>, "GET", <<Items, Id>>, "",
                 [id |-> Small, q |-> B!String, tags |-> B!List(B!String)]),
   put |-> Unary(<<"Items", "Put">>, "PUT", <<Items, Id>>, "*", [id |-> Small, q |-> B!String]),
   patch |-> [Unary(<<"Items", "Patch">>, "PATCH", <<Items, Id>>, "item",
                    [id |-> Small, item |-> B!Message([n |-> Small, note_text |-> B!String]), q |-> B!String])
              EXCEPT !.gateway = TRUE],
   find |-> [Unary(<<"Find">>, "GET", <<Items>>, "",
                   [q |-> B!String, n |-> B!Optional(3), data |-> B!Bytes])
             EXCEPT !.generated = FALSE],
   name |-> Unary(<<"Items", "Name">>, "GET", <<R!Literal(<<"names">>), R!Param("name")>>, "",
                  [name |-> B!String]),
   part |-> Unary(<<"Items", "Part">>, "GET",
                  <<R!Literal(<<"names">>), R!Param("name"), R!Param("part")>>, "",
                  [name |-> B!String, part |-> B!String]),
   odd |-> Unary(<<"Odd">>, "GET", <<R!Literal(<<"odd">>)>>, "", [kind |-> B!Oneof]),
   list |-> [Unary(<<"Items", "List">>, "GET", <<R!Literal(<<"list">>), Id>>, "",
                   [id |-> Small, q |-> B!String]) EXCEPT !.form = "server"],
   watch |-> [Unary(<<"Watch">>, "POST", <<R!Literal(<<"watch">>)>>, "*", [q |-> B!String])
              EXCEPT !.form = "server"],
   upload |-> [Unary(<<"Upload">>, "POST", <<R!Literal(<<"upload">>)>>, "*", [q |-> B!String])
               EXCEPT !.form = "client", !.responseBody = "item"],
   chat |-> [Unary(<<"Items", "Chat">>, "GET", <<R!Literal(<<"chat">>)>>, "", [q |-> B!String])
             EXCEPT !.form = "bidi"]]

\* register: literal templates are exact, the others go to a tree per method.
IsExact(o) == Operations[o].path = {}
Tree(method) ==
  FoldSet(LAMBDA o, tree : R!Insert(tree, [segments |-> Operations[o].template, verb |-> <<>>], o),
          R!NewRouteTree,
          {o \in DOMAIN Operations : Operations[o].method = method /\ ~IsExact(o)})
PathOf(o) == FlattenSeq([i \in DOMAIN Operations[o].template |->
                           <<"/">> \o Operations[o].template[i].literal])

-----------------------------------------------------------------------------
(* Identities *)

Claims(issuer, subject, roles) ==
  [issuer |-> issuer, audience |-> {"api"}, subject |-> subject, custom |-> [role |-> roles]]
Alice == [method |-> "HS256", key |-> "k", time |-> "valid", claims |-> Claims("zara", "alice", {"user"})]
Bob == [Alice EXCEPT !.claims = Claims("zara", "bob", {"admin"})]
Stranger == [Alice EXCEPT !.claims = Claims("other", "alice", {"admin"})]
Forged == [Alice EXCEPT !.method = "none"]
Stale == [Alice EXCEPT !.time = "expired"]

Nobody == [scheme |-> "", authorization |-> None, token |-> None, session |-> None, header |-> {}]
Bearer(token) == [Nobody EXCEPT !.scheme = "Bearer", !.authorization = token]
Basic(token) == [Bearer(token) EXCEPT !.scheme = "Basic"]

Authenticated(subject, value) ==
  [kind |-> "authenticated", subject |-> subject, claim |-> "role", value |-> value]
Below(prefix) == [kind |-> "requested_path", exact |-> <<>>, prefix |-> prefix]
At(exact) == [kind |-> "requested_path", exact |-> exact, prefix |-> <<>>]
Anyone == [kind |-> "any"]
Rule(principal, permission) == [principals |-> {principal}, permissions |-> {permission}]

\* Alice may call what is below Items; nobody may who says so in a header.
Named ==
  [allow |-> {Rule(Authenticated("alice", ""), Below(<<"Items">>)),
              Rule(Anyone, At(<<"Watch">>))},
   deny |-> {Rule(Anyone, [kind |-> "header", name |-> "x-tenant", value |-> "blocked"])}]
\* Admins may call everything but Chat, and the others what an expression says.
Roles ==
  [allow |-> {Rule(Authenticated(None, "admin"), [kind |-> "not", of |-> At(<<"Items", "Chat">>)]),
              Rule([kind |-> "and", all |-> {Authenticated("alice", ""), Anyone}],
                   [kind |-> "or", all |-> {At(<<"Upload">>), Below(<<"Items", "Get">>)}])},
   deny |-> {Rule([kind |-> "and", all |-> {}], Anyone)}]
\* Everyone with a token, except from one address.
Addressed ==
  [allow |-> {Rule(Anyone, Anyone)},
   deny |-> {Rule([kind |-> "source_ip", block |-> {"10.0.0.1"}], Anyone)}]
\* The policies by name, so that states are small.
PolicyOf == (Everyone :> Named) @@ (Deputies :> Roles) @@ (Addresses :> Addressed)
MCAuthorized(policyName, ctx) == P!IsAuthorized(PolicyOf[policyName], ctx)
MCTokenIn(meta) == P!ExtractToken(meta)
MCValidToken(token) == P!Validate(token)

-----------------------------------------------------------------------------
(* Calls *)

Msg(fields) == <<"msg", fields>>
Num(n) == <<"int", n>>
Str(text) == <<"str", text>>
Strs(texts) == <<"list", [i \in DOMAIN texts |-> Str(texts[i])]>>

Call(via, op, message, codec) ==
  [via |-> via, op |-> op, msg |-> message, codec |-> codec, timeout |-> 0, deadline |-> 0,
   meta |-> Bearer(Alice), addr |-> "10.0.0.1", raw |-> None]

GetMsg == Msg([id |-> Num(3), q |-> Str(<<"x">>), tags |-> Strs(<<<<"a">>, <<>>>>)])
PutMsg == Msg([id |-> Num(2), q |-> Str(<<>>)])
ListMsg == Msg([id |-> Num(-4), q |-> Str(<<"x">>)])
QMsg == Msg([q |-> Str(<<"x">>)])
PatchMsg(note) ==
  Msg([id |-> Num(1), item |-> Msg([n |-> Num(-1), note_text |-> Str(note)]), q |-> Str(<<"x">>)])
FindMsg(n) == Msg([q |-> Str(<<"x">>), n |-> n, data |-> <<"list", <<Num(0), Num(7)>>>>])
NameMsg(text) == Msg([name |-> Str(text)])
PartMsg == Msg([name |-> Str(<<"a">>), part |-> Str(<<"b">>)])
Get == Call("unary", "get", GetMsg, "proto")

\* Requests that no client of ours makes.
Request(method, path) ==
  [major |-> 1, method |-> method, path |-> path, query |-> NoQuery, body |-> {}, encoded |-> "json",
   frame |-> {}, type |-> "", accept |-> "", encoding |-> "", upgrade |-> "no",
   meta |-> Bearer(Alice), addr |-> "10.0.0.2", route |-> None, headers |-> NoHeaders]
Raw(op, message, req) == [Call("raw", op, message, "json") EXCEPT !.raw = req]
Contradiction ==
  Raw("put", PutMsg, [Request("PUT", <<"/", "items", "/", "2">>) EXCEPT
                        !.body = {Msg([id |-> Num(1), q |-> Str(<<>>)])}, !.type = "json"])
TooWide ==
  Raw("get", GetMsg, Request("GET", <<"/", "items", "/", "9">>))
Elsewhere(method, path) == Raw("get", GetMsg, Request(method, path))
NoUpgrade == Raw("chat", None, Request("GET", <<"/", "chat">>))
BadFrame ==
  Raw("list", ListMsg, [Request("GET", <<"/", "list", "/", "-4">>) EXCEPT
                          !.upgrade = "websocket", !.frame = {<<"malformed">>}])
Late ==
  Raw("get", GetMsg, [Request("GET", <<"/", "items", "/", "3">>) EXCEPT
                        !.headers = [timeout |-> {[value |-> 99, unit |-> 1]},
                                     deadline |-> {[form |-> "number", at |-> 1]}]])

Mappings ==
  {Get, Call("unary", "put", PutMsg, "json"), Call("unary", "patch", PatchMsg(<<>>), "json"),
   Call("unary", "patch", PatchMsg(<<"x">>), "json"),
   Call("unary", "patch", PatchMsg(<<>>), "proto"),
   Call("unary", "find", FindMsg(B!Nil), "json"), Call("unary", "find", FindMsg(Num(3)), "json"),
   Call("unary", "odd", Msg([kind |-> B!Nil]), "json"),
   Call("unary", "name", NameMsg(<<"a">>), "json"), Call("unary", "name", NameMsg(<<>>), "json"),
   Call("unary", "name", NameMsg(<<"a", "/", "b">>), "json"),
   Call("unary", "part", PartMsg, "proto"),
   Call("sse", "list", ListMsg, "proto"), Call("sse", "watch", QMsg, "json"),
   Call("ws", "list", ListMsg, "json"), Call("ws", "watch", QMsg, "proto"),
   Call("ws", "watch", QMsg, "json"),
   Call("client", "upload", None, "json"), Call("client", "upload", None, "proto"),
   Call("bidi", "chat", None, "proto"),
   Call("grpc", "get", GetMsg, "proto"), Call("grpc", "list", ListMsg, "proto"),
   Call("grpc", "chat", None, "proto")}
Deadlines ==
  {[Get EXCEPT !.timeout = t] : t \in {1, 10, 37, 109, 200}}
    \cup {[Get EXCEPT !.deadline = 30], [Get EXCEPT !.timeout = 9, !.deadline = 30]}
Identities ==
  {[Get EXCEPT !.meta = m] :
     m \in {Nobody, Basic(Alice), Bearer(Bob), Bearer(Stranger), Bearer(Forged), Bearer(Stale),
            [Basic(Bob) EXCEPT !.token = Alice], [Nobody EXCEPT !.session = Bob],
            [Bearer(Alice) EXCEPT !.header = {<<"x-tenant", "blocked">>}]}}
    \cup {[Get EXCEPT !.addr = "10.0.0.2"]}
    \cup {[Call("bidi", "chat", None, "json") EXCEPT !.meta = Bearer(Bob)]}
Strange ==
  {Contradiction, TooWide, Elsewhere("DELETE", <<"/", "items", "/", "1">>),
   Elsewhere("POST", <<"/", "items">>), Elsewhere("GET", <<"/", "nope">>), NoUpgrade, BadFrame, Late}

MCInputs ==
  (r1 :> (Mappings \cup Deadlines \cup Identities \cup Strange)) @@
  (r2 :> {Call("grpc", "get", GetMsg, "proto")})

Unavailable == [NewError("unavailable", NoText) EXCEPT !.details = <<<<"retry info">>>>]
MCFailures ==
  [o \in DOMAIN Operations |->
    CASE o \in {"put", "chat"} -> {NewError("already_exists", <<"twice">>), RawError(NoText)}
      [] o = "patch" -> {Unavailable, NewError("out_of_range", <<"far">>), RawError(<<"boom">>)}
      [] OTHER -> {Unavailable}]
MCPublicProcedures == {<<"Find">>}
MCMethods == {"GET", "PUT", "PATCH", "POST", "DELETE"}

\* Every path that a call has.
Paths ==
  {<<"/", name>> : name \in {"items", "odd", "watch", "upload", "chat", "nope"}}
    \cup {<<"/", "items", "/", id>> : id \in {"1", "2", "3", "9"}}
    \cup {<<"/", "list", "/", "-4">>, <<"/", "names", "/">>, <<"/", "names", "/", "a">>,
          <<"/", "names", "/", "a", "/", "b">>}
\* Tables, so that a request is looked up and not routed anew; @@ evaluates them.
ExactTable ==
  [at \in Methods \X Paths |->
    LET here == {o \in DOMAIN Operations :
                   IsExact(o) /\ Operations[o].method = at[1] /\ PathOf(o) = at[2]}
    IN IF here = {} THEN None ELSE CHOOSE o \in here : TRUE] @@ <<>>
WildTable ==
  [at \in Methods \X Paths |-> R!Lookup(Tree(at[1]), at[2])] @@ <<>>
MCExact(method, path) == ExactTable[<<method, path>>]
MCWild(method, path) == WildTable[<<method, path>>]

\* What the theorem on verdicts supposes.
ASSUME InOrder
===============================================================================
