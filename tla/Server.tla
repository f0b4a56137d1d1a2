-------------------------------- MODULE Server --------------------------------
(***************************************************************************)
(* A call from the client to the answer it sees: routing.Server splits     *)
(* gRPC from HTTP, the mux finds the operation, kernel.Handler binds the   *)
(* message, runs the chain [Public, JWT, RBAC] and the handler, and        *)
(* answers; streams are authorized before they are bound, and their        *)
(* interceptors wrap the stream.  Over gRPC the same chain runs in         *)
(* grpcbridge.  The policy can be replaced between any two steps.          *)
(*                                                                         *)
(* What the steps compute with is in Codes and Deadline, and in Policy,    *)
(* Binding and RouteTree, which are recursive and given as constants.      *)
(***************************************************************************)
EXTENDS Codes, Deadline

CONSTANTS
  None,
  Requests,
  Inputs,              \* request |-> the calls it may be
  Operations,          \* id |-> [form, method, procedure, gateway, responseBody, ...]
  Methods,
  Exact(_, _),         \* method, path |-> operation, or None
  Wild(_, _),          \* method, path |-> [handler, params]
  UnaryWire(_, _),     \* Binding!UnaryRequest: operation, message |-> [path, query, body]
  StreamWire(_, _),    \* Binding!StreamRequest
  BoundRequest(_, _),  \* Binding!NewRequest: operation, [params, query, codec, body] |-> messages
  BoundFrame(_, _),    \* Binding!DecodeRequest
  LostFields(_, _, _), \* Binding!Lost: operation, via, message |-> fields
  MayBeRefused(_, _, _, _), \* Binding!Refusable: operation, via, codec, message
  FitsInPath(_, _),    \* Binding!Addressable: operation, message
  TokenIn(_),          \* Policy!ExtractToken
  ValidToken(_),       \* Policy!Validate
  Authorized(_, _),    \* Policy!IsAuthorized
  Policies,
  Portable,            \* the policies that do not look at addresses
  PublicProcedures,    \* what the predicate given to Public accepts
  StreamChain,         \* the stream interceptors, outermost first
  Failures,            \* operation |-> the errors that its handler may return
  MaxSwaps             \* bound: times the policy is replaced

ASSUME ServerAssumption ==
  /\ Portable \subseteq Policies
  /\ MaxSwaps \in Nat
  /\ None \notin Policies
  /\ StreamChain \in Seq({"public", "jwt", "rbac"})
  /\ \A o \in DOMAIN Operations : Failures[o] \subseteq Errors
  /\ \A r \in Requests : \A c \in Inputs[r] :
       /\ c.timeout \in Int /\ c.timeout <= MaxDuration /\ c.deadline \in Int
       /\ c.via = "raw" => {"major", "type", "method", "path", "route"} \subseteq DOMAIN c.raw

VARIABLES
  policy,
  swaps,
  phase,    \* where each request is
  call,     \* what its caller wants
  request,  \* what arrives at the server
  public,   \* the values that the chain puts into the context
  claims,
  payload,      \* the bound message
  stream,   \* the wrapped stream: its context, error and, history, the policy
  outcome,  \* the error that ends the request, and the handler's own
  answer,   \* what leaves the server
  expired,  \* the deadline has passed
  verdict,  \* history: what the chain decided
  under     \* history: by which policy

vars == <<policy, swaps, phase, call, request, public, claims, payload, stream, outcome,
          answer, expired, verdict, under>>

-----------------------------------------------------------------------------
(* The client *)

NoHeaders == [timeout |-> {}, deadline |-> {}]
NoQuery == [name \in {} |-> <<>>]

\* DoUnary, DoServerStream (SSE or WebSocket), DoClientStream, DoBidiStream
\* and a gRPC client.  Only DoUnary sends a deadline, and a WebSocket names
\* its codec in the query.
Wire(c) ==
  LET op == Operations[c.op]
      sent == IF c.via = "unary" THEN UnaryWire(op, c.msg) ELSE StreamWire(op, c.msg)
      q == [major |-> 1, method |-> op.method, path |-> sent.path, query |-> sent.query,
            body |-> sent.body, encoded |-> c.codec, frame |-> {},
            type |-> IF sent.body = {} THEN "" ELSE c.codec, accept |-> c.codec,
            encoding |-> "", upgrade |-> "no", meta |-> c.meta, addr |-> c.addr, route |-> None,
            headers |-> IF c.via = "unary" THEN DeadlineHeaders(c.timeout, c.deadline)
                        ELSE NoHeaders]
  IN CASE c.via = "raw" -> c.raw
       [] c.via = "sse" -> [q EXCEPT !.accept = "event-stream"]
       [] c.via \in {"ws", "bidi"} ->
            [q EXCEPT !.method = "GET", !.body = {}, !.frame = sent.body, !.type = "",
                      !.accept = "", !.encoding = c.codec, !.upgrade = "websocket"]
       [] c.via = "grpc" -> [q EXCEPT !.major = 2, !.method = "POST", !.path = op.procedure,
                                      !.query = NoQuery, !.type = "grpc", !.body = {c.msg}]
       [] OTHER -> q

-----------------------------------------------------------------------------
(* Dispatch *)

\* HTTP/2 with a content type that begins with application/grpc.
IsGRPC(q) == q.major = 2 /\ q.type = "grpc"

\* Mux.ServeHTTP, as far as the handler; exact routes are first.
Serves(method, path) ==
  IF Exact(method, path) # None THEN [handler |-> Exact(method, path), params |-> <<>>]
  ELSE Wild(method, path)

PathExists(path) ==
  \E m \in Methods : Exact(m, path) # None \/ Wild(m, path).handler # None
AllowedMethods_Exact(path) == {m \in Methods : Exact(m, path) # None}
AllowedMethods(path) ==
  {m \in Methods : Exact(m, path) # None} \cup {m \in Methods : Wild(m, path).handler # None}

\* The generated service descriptions know each procedure.
Exported(q) == {o \in DOMAIN Operations : Operations[o].procedure = q.path}

Route(q) == IF IsGRPC(q) THEN [handler |-> CHOOSE o \in Exported(q) : TRUE, params |-> <<>>]
            ELSE Serves(q.method, q.path)
\* The request as the mux passes it on: with its handler and path parameters.
Routed(q) == [q EXCEPT !.route = Route(q)]
Op(q) == Operations[q.route.handler]

-----------------------------------------------------------------------------
(* The context of a request: what NewCtx and CtxFor capture *)

\* codecFromRequest: the query wins, then the body's type, then Accept; what
\* is not known is JSON.
Codec(q) ==
  LET CodecFor(type) == IF type = "proto" THEN "proto" ELSE "json" IN
  IF IsGRPC(q) THEN "proto"
  ELSE IF q.encoding # "" THEN CodecFor(q.encoding)
  ELSE IF q.type # "" THEN CodecFor(q.type) ELSE CodecFor(q.accept)

\* Over gRPC there are headers only: no query, no cookies, no peer.
Meta(q) == IF IsGRPC(q) THEN [q.meta EXCEPT !.token = None, !.session = None] ELSE q.meta
Peer(q) == IF IsGRPC(q) THEN None ELSE q.addr
Ctx(q, cs) ==
  [meta |-> Meta(q), peer |-> Peer(q), procedure |-> Op(q).procedure, claims |-> cs]

IsPublic(q) == IF Op(q).procedure \in PublicProcedures THEN "yes" ELSE "no"
Token(q) == TokenIn(Meta(q))
HasToken(q) == Token(q) # None /\ ValidToken(Token(q))

\* How long the server has.  (Of grpc-go for gRPC, from the same header.)
DeadlineOf(q) == DeadlineFromRequest(q.headers, 0)

\* What a codec finds in a body: nothing but zero values in an empty one if it
\* is proto, and an error if it is JSON, or in another codec's.
Decoded(q, body) ==
  IF body = {} THEN IF Codec(q) = "proto" THEN {<<"msg", <<>>>>} ELSE {}
  ELSE IF Codec(q) = q.encoded THEN body ELSE {}

\* What newRequest makes of a request, and of the first frame of its WebSocket.
Built(q) == BoundRequest(Op(q), [params |-> q.route.params, query |-> q.query,
                                 codec |-> Codec(q), body |-> Decoded(q, q.body)])
Framed(q) == BoundFrame(Op(q), Decoded(q, q.frame))

\* What ends a request, besides what its handler returns.
Refusals == {"unauthenticated", "permission_denied"}
Denial(name) == NewError(name, <<"auth">>)
DeadlineExceeded == RawError(<<"context deadline exceeded">>)

\* The tables and the service descriptions lead to operations only; gRPC has
\* decoded a message; None is no error; and what looks at no addresses decides alike for every peer.
ASSUME RoutingAssumption ==
  \A r \in Requests : \A c \in Inputs[r] :
    LET q == Routed(Wire(c)) IN
    /\ q.route.handler \in DOMAIN Operations \/ (~IsGRPC(q) /\ q.route.handler = None)
    /\ IsGRPC(q) => q.body # {}
ASSUME ErrorAssumption ==
  \A o \in DOMAIN Operations :
    \A e \in Failures[o] \cup {Denial(name) : name \in Refusals} \cup {DeadlineExceeded} :
      FromGRPCStatus(ToGRPC(e)) # None
ASSUME PortableAssumption ==
  \A r \in Requests : \A c \in Inputs[r] :
    LET q == Routed(Wire(c)) IN
    q.route.handler \in DOMAIN Operations /\ HasToken(q) =>
      LET ctx == Ctx(q, Token(q).claims) IN
      \A p \in Portable : Authorized(p, ctx) <=> Authorized(p, [ctx EXCEPT !.peer = None])

-----------------------------------------------------------------------------
(* Steps *)

NoStream == [public |-> "no", claims |-> None, err |-> "", by |-> None]
NoOutcome == [err |-> None, cause |-> None]

Init ==
  /\ policy \in Policies
  /\ swaps = 0
  /\ phase = [r \in Requests |-> "idle"]
  /\ call = [r \in Requests |-> None]
  /\ request = [r \in Requests |-> None]
  /\ public = [r \in Requests |-> "no"]
  /\ claims = [r \in Requests |-> None]
  /\ payload = [r \in Requests |-> None]
  /\ stream = [r \in Requests |-> NoStream]
  /\ outcome = [r \in Requests |-> NoOutcome]
  /\ answer = [r \in Requests |-> None]
  /\ expired = [r \in Requests |-> "no"]
  /\ verdict = [r \in Requests |-> "none"]
  /\ under = [r \in Requests |-> None]

Go(r, p) == phase' = [phase EXCEPT ![r] = p]
\* The request ends with err.
Fail_NoReturn(r, err) ==
  /\ Go(r, "run")
  /\ outcome' = [outcome EXCEPT ![r] = [err |-> err, cause |-> err]]
Fail(r, err) ==
  /\ Go(r, "error")
  /\ outcome' = [outcome EXCEPT ![r] = [err |-> err, cause |-> err]]
Respond(r, a) ==
  /\ Go(r, "done")
  /\ answer' = [answer EXCEPT ![r] = a]
Http(resp, codec, allow) == [kind |-> "http", resp |-> resp, codec |-> codec, allow |-> allow]
Close(code) == [kind |-> "stream", end |-> code]

\* The watcher of a policy file installs another policy.
Swap ==
  /\ swaps < MaxSwaps
  /\ swaps' = swaps + 1
  /\ policy' \in Policies \ {policy}
  /\ UNCHANGED <<phase, call, request, public, claims, payload, stream, outcome, answer,
                 expired, verdict, under>>

Send(r) ==
  /\ phase[r] = "idle"
  /\ Go(r, "sent")
  /\ \E c \in Inputs[r] :
       /\ call' = [call EXCEPT ![r] = c]
       /\ request' = [request EXCEPT ![r] = Routed(Wire(c))]
  /\ UNCHANGED <<policy, swaps, public, claims, payload, stream, outcome, answer, expired,
                 verdict, under>>

\* The generated gRPC handlers: a unary message is decoded before the chain
\* runs; that of a server stream after it, which the chain cannot tell.
DispatchGRPC(r) ==
  /\ phase[r] = "sent" /\ IsGRPC(request[r])
  /\ Go(r, "public")
  /\ payload' = [payload EXCEPT ![r] = IF Op(request[r]).form \in {"unary", "server"}
                               THEN CHOOSE m \in request[r].body : TRUE ELSE None]
  /\ UNCHANGED <<policy, swaps, call, request, public, claims, stream, outcome, answer,
                 expired, verdict, under>>

\* ServeHTTPWithParams, by the form of the operation.
Dispatch(r) ==
  /\ phase[r] = "sent" /\ ~IsGRPC(request[r]) /\ request[r].route.handler # None
  /\ \/ Go(r, IF Op(request[r]).form = "unary" THEN "bind" ELSE "public") /\ UNCHANGED outcome
     \/ /\ Op(request[r]).form \in {"unary", "server"} /\ request[r].body # {}
        /\ Fail(r, NewError("invalid_argument", <<"read body">>))
  /\ UNCHANGED <<policy, swaps, call, request, public, claims, payload, stream, answer, expired,
                 verdict, under>>

NotRouted(r) ==
  LET q == request[r] IN
  /\ phase[r] = "sent" /\ ~IsGRPC(q) /\ q.route.handler = None
  /\ Respond(r, IF PathExists(q.path) THEN Http(PlainAnswer(405), "", AllowedMethods(q.path))
                ELSE Http(PlainAnswer(404), "", {}))
  /\ UNCHANGED <<policy, swaps, call, request, public, claims, payload, stream, outcome, expired,
                 verdict, under>>

\* newRequest: unary before the chain, a server stream after it, also where
\* the message will be the first frame of a WebSocket.  SSE answers 200 here.
Bind(r) ==
  LET q == request[r]
      built == Built(q)
      next == IF Op(q).form = "unary" THEN "public"
              ELSE IF q.upgrade = "websocket" THEN "upgrade" ELSE "wrap"
  IN
  /\ phase[r] = "bind"
  /\ \/ built # {} /\ Go(r, next) /\ UNCHANGED outcome
     \/ built = {} /\ Fail(r, NewError("invalid_argument", <<"bind">>))
  /\ payload' = [payload EXCEPT ![r] = IF built = {} THEN None ELSE CHOOSE m \in built : TRUE]
  /\ UNCHANGED <<policy, swaps, call, request, public, claims, stream, answer, expired,
                 verdict, under>>

-----------------------------------------------------------------------------
(* The chain *)

Public(r) ==
  /\ phase[r] = "public"
  /\ Go(r, "jwt")
  /\ public' = [public EXCEPT ![r] = IsPublic(request[r])]
  /\ UNCHANGED <<policy, swaps, call, request, claims, payload, stream, outcome, answer, expired,
                 verdict, under>>

Refuse(r, name) ==
  /\ Fail(r, Denial(name))
  /\ verdict' = [verdict EXCEPT ![r] = name]
  /\ under' = [under EXCEPT ![r] = policy]

JWT(r) ==
  LET q == request[r] IN
  /\ phase[r] = "jwt"
  /\ \/ /\ public[r] = "yes" \/ HasToken(q)
        /\ claims' = [claims EXCEPT ![r] = IF public[r] = "yes" THEN @ ELSE Token(q).claims]
        /\ Go(r, "rbac")
        /\ UNCHANGED <<outcome, verdict, under>>
     \/ /\ public[r] = "no" /\ ~HasToken(q)
        /\ Refuse(r, "unauthenticated")
        /\ UNCHANGED claims
  /\ UNCHANGED <<policy, swaps, call, request, public, payload, stream, answer, expired>>

\* What is behind the chain: the handler, or, for the chain that authorizes a
\* stream, what establishes it.
Behind(q) ==
  IF IsGRPC(q) THEN "run"
  ELSE CASE Op(q).form = "unary" -> "run"
         [] Op(q).form = "server" -> "bind"
         [] Op(q).form = "bidi" -> "upgrade"
         [] OTHER -> "wrap"

RBAC_Always(r) ==
  /\ phase[r] = "rbac"
  /\ Go(r, Behind(request[r]))
  /\ verdict' = [verdict EXCEPT ![r] = "admitted"]
  /\ under' = [under EXCEPT ![r] = policy]
  /\ UNCHANGED <<policy, swaps, call, request, public, claims, payload, stream, outcome, answer,
                 expired>>
RBAC(r) ==
  LET q == request[r]
      may == public[r] = "yes" \/ Authorized(policy, Ctx(q, claims[r]))
  IN
  /\ phase[r] = "rbac"
  /\ \/ /\ may
        /\ Go(r, Behind(q))
        /\ verdict' = [verdict EXCEPT ![r] = "admitted"]
        /\ under' = [under EXCEPT ![r] = policy]
        /\ UNCHANGED outcome
     \/ ~may /\ Refuse(r, "permission_denied")
  /\ UNCHANGED <<policy, swaps, call, request, public, claims, payload, stream, answer, expired>>

-----------------------------------------------------------------------------
(* Streams *)

\* Accept, for a bidi stream also without an upgrade, and the first frame.
Upgrade_Silent(r) ==
  LET q == request[r] IN
  /\ phase[r] = "upgrade" /\ q.upgrade = "websocket"
  /\ Go(r, IF Op(q).form = "bidi" THEN "wrap" ELSE "frame")
  /\ UNCHANGED <<policy, swaps, call, request, public, claims, payload, stream, outcome, answer,
                 expired, verdict, under>>
Upgrade(r) ==
  LET q == request[r] IN
  /\ phase[r] = "upgrade"
  /\ \/ q.upgrade = "websocket" /\ Go(r, IF Op(q).form = "bidi" THEN "wrap" ELSE "frame")
        /\ UNCHANGED outcome
     \/ q.upgrade # "websocket" /\ Fail(r, NewError("internal", <<"websocket upgrade">>))
  /\ UNCHANGED <<policy, swaps, call, request, public, claims, payload, stream, answer, expired,
                 verdict, under>>

ReadFrame_KeepsQuery(r) ==
  /\ phase[r] = "frame" /\ request[r].frame # {}
  /\ Go(r, "wrap")
  /\ UNCHANGED <<policy, swaps, call, request, public, claims, payload, stream, outcome, answer,
                 expired, verdict, under>>
ReadFrame(r) ==
  LET q == request[r]
      read == Framed(q)
  IN
  /\ phase[r] = "frame"
  /\ \/ /\ q.frame # {} /\ read # {}
        /\ payload' = [payload EXCEPT ![r] = CHOOSE m \in read : TRUE]
        /\ Go(r, "wrap")
        /\ UNCHANGED answer
     \/ Respond(r, Close("abnormal")) /\ UNCHANGED payload   \* or the connection is lost
  /\ UNCHANGED <<policy, swaps, call, request, public, claims, stream, outcome, expired,
                 verdict, under>>

\* Each interceptor sees the context of the stream it wraps; the values of the
\* chain that authorized the stream are not in it.
WrapPublic(q, s) == [s EXCEPT !.public = IF IsPublic(q) = "yes" THEN "yes" ELSE @]
WrapJWT(q, s) ==
  IF s.public = "yes" THEN s
  ELSE IF ~HasToken(q) THEN [s EXCEPT !.err = "unauthenticated"]
  ELSE [s EXCEPT !.claims = Token(q).claims]
WrapRBAC(q, s) ==
  IF s.public = "yes" \/ Authorized(policy, Ctx(q, s.claims)) THEN s
  ELSE [s EXCEPT !.err = "permission_denied"]

WrapWith(r, kind, s) ==
  CASE kind = "public" -> WrapPublic(request[r], s)
    [] kind = "jwt" -> WrapJWT(request[r], s)
    [] OTHER -> WrapRBAC(request[r], s)
\* wrapped[n]: the stream within n interceptors of the chain.
ChainStream_InOrder(r) ==
  LET wrapped[n \in 0..Len(StreamChain)] ==
        IF n = 0 THEN [NoStream EXCEPT !.by = policy]
        ELSE WrapWith(r, StreamChain[n], wrapped[n - 1])
  IN wrapped[Len(StreamChain)]
ChainStream(r) ==
  LET wrapped[n \in 0..Len(StreamChain)] ==
        IF n = 0 THEN [NoStream EXCEPT !.by = policy]
        ELSE WrapWith(r, StreamChain[Len(StreamChain) + 1 - n], wrapped[n - 1])
  IN wrapped[Len(StreamChain)]

WrapStream(r) ==
  /\ phase[r] = "wrap"
  /\ stream' = [stream EXCEPT ![r] = ChainStream(r)]
  /\ Go(r, "run")
  /\ UNCHANGED <<policy, swaps, call, request, public, claims, payload, outcome, answer, expired,
                 verdict, under>>

-----------------------------------------------------------------------------
(* The handler *)

Expire(r) ==
  /\ phase[r] \notin {"idle", "done"} /\ expired[r] = "no"
  /\ DeadlineOf(request[r]) # {}
  /\ expired' = [expired EXCEPT ![r] = "yes"]
  /\ UNCHANGED <<policy, swaps, phase, call, request, public, claims, payload, stream, outcome,
                 answer, verdict, under>>

\* A refused stream fails when it is used, if the handler uses it.
Causes(r) ==
  {None} \cup (IF stream[r].err # "" THEN {Denial(stream[r].err)}
               ELSE Failures[request[r].route.handler])
         \cup (IF expired[r] = "yes" THEN {DeadlineExceeded} ELSE {})

\* A gateway's error is that of the gRPC service behind it.
Gateway(q, cause) == IF Op(q).gateway /\ ~IsGRPC(q) THEN FromGRPCStatus(ToGRPC(cause)) ELSE cause

Handle(r) ==
  /\ phase[r] = "run"
  /\ Go(r, "reply")
  /\ \E cause \in Causes(r) :
       outcome' = [outcome EXCEPT ![r] =
         [cause |-> cause, err |-> IF cause = None THEN None ELSE Gateway(request[r], cause)]]
  /\ UNCHANGED <<policy, swaps, call, request, public, claims, payload, stream, answer, expired,
                 verdict, under>>

\* writeResponse: the field that is the body may not be there, and the codec
\* may not encode it.
WriteResponse(q) ==
  IF Op(q).responseBody = "unknown" THEN WriteError(NewError("internal", <<"response field">>))
  ELSE IF Op(q).responseBody # "" /\ Codec(q) = "proto"
  THEN WriteError(NewError("internal", <<"encode response">>))
  ELSE [PlainAnswer(200) EXCEPT !.body = "message"]

\* The answer to a request that err ended, before its handler if it is early.
\* SSE ends in order: the status is long sent.
Answer(q, early, err) ==
  LET single == Op(q).form \in {"unary", "client"} IN
  IF IsGRPC(q) THEN [kind |-> "grpc", status |-> IF err = None THEN None ELSE ToGRPC(ToGRPC(err))]
  ELSE IF early \/ (single /\ err # None) THEN Http(WriteError(err), "json", {})
  ELSE IF single THEN Http(WriteResponse(q), Codec(q), {})
  ELSE Close(IF q.upgrade = "websocket" /\ err # None THEN "abnormal" ELSE "normal")

Reply(r) ==
  /\ phase[r] \in {"error", "reply"}
  /\ Respond(r, Answer(request[r], phase[r] = "error", outcome[r].err))
  /\ UNCHANGED <<policy, swaps, call, request, public, claims, payload, stream, outcome, expired,
                 verdict, under>>

Serve(r) ==
  \/ DispatchGRPC(r) \/ Dispatch(r) \/ NotRouted(r) \/ Bind(r)
  \/ Public(r) \/ JWT(r) \/ RBAC(r)
  \/ Upgrade(r) \/ ReadFrame(r) \/ WrapStream(r)
  \/ Handle(r) \/ Reply(r)

Next == Swap \/ \E r \in Requests : Send(r) \/ Serve(r) \/ Expire(r)

Spec == Init /\ [][Next]_vars
\* The goroutine of a request runs, and its handler returns.
FairSpec == Spec /\ \A r \in Requests : WF_phase(Serve(r))

-----------------------------------------------------------------------------
(* Properties *)

Phases == {"idle", "sent", "bind", "public", "jwt", "rbac", "upgrade", "frame", "wrap", "run",
           "reply", "error", "done"}
Verdicts == {"none", "admitted", "unauthenticated", "permission_denied"}

\* Types; a request that failed goes no further than its answer, and only an
\* answered request is done (the returns after each writeError).
TypeOK ==
  /\ policy \in Policies /\ swaps \in 0..MaxSwaps
  /\ phase \in [Requests -> Phases]
  /\ public \in [Requests -> {"yes", "no"}]
  /\ verdict \in [Requests -> Verdicts]
  /\ under \in [Requests -> Policies \cup {None}]
  /\ expired \in [Requests -> {"yes", "no"}]
  /\ DOMAIN call = Requests /\ DOMAIN request = Requests /\ DOMAIN claims = Requests
  /\ DOMAIN payload = Requests /\ DOMAIN stream = Requests /\ DOMAIN outcome = Requests
  /\ DOMAIN answer = Requests
  /\ \A r \in Requests :
       /\ phase[r] # "idle" => call[r] \in Inputs[r] /\ request[r] = Routed(Wire(call[r]))
       /\ outcome[r].err # None => phase[r] \in {"error", "reply", "done"}
       /\ answer[r] # None => phase[r] = "done"

\* The rights of a request under a policy, and the abstract view: handlers run
\* only on what was admitted, however the request came in (interceptor.JWT and
\* RBAC, authorizeStream, grpcbridge.UnaryInterceptor and StreamInterceptor).
Rights(q, p) ==
  IF ~IsGRPC(q) /\ q.route.handler = None THEN "none"
  ELSE IF IsPublic(q) = "yes" THEN "admitted"
  ELSE IF ~HasToken(q) THEN "unauthenticated"
  ELSE IF Authorized(p, Ctx(q, Token(q).claims)) THEN "admitted" ELSE "permission_denied"
Accepted == {Routed(Wire(c)) : c \in UNION {Inputs[r] : r \in Requests}}
Stage(p) == CASE p = "idle" -> "idle" [] p = "done" -> "done" [] p = "reply" -> "ran"
              [] OTHER -> "open"
A == INSTANCE Admission WITH stage <- [r \in Requests |-> Stage(phase[r])]
ImplementsAdmission == A!Spec

\* Every chain decides alike: that of HTTP and that of gRPC for one identity,
\* and the stream interceptors as the chain that authorized the stream, unless
\* the policy was replaced or looks at addresses (CtxFor has none).
Decisions(r) ==
  {d \in {[by |-> under[r], result |-> verdict[r]],
          [by |-> stream[r].by,
           result |-> IF stream[r].err = "" THEN "admitted" ELSE stream[r].err]} : d.by # None}
SameCaller(q1, q2) == Op(q1).procedure = Op(q2).procedure /\ Meta(q1) = Meta(q2)
VerdictsAgree ==
  \A r, s \in Requests : \A d \in Decisions(r), e \in Decisions(s) :
    /\ d.by = e.by /\ SameCaller(request[r], request[s])
    /\ d.by \in Portable \/ Peer(request[r]) = Peer(request[s])
    => d.result = e.result

\* The error of a handler or of the server is what the client's status.FromHTTP
\* or FromGRPCStatus makes of the answer, also behind a gateway, and the status
\* line is that of its code; a message is as it was, but for gRPC's.
Seen(a) == IF a.kind = "grpc" THEN FromGRPCStatus(a.status) ELSE FromHTTP(a.resp)
CodeReachesCaller ==
  \A r \in Requests :
    LET cause == outcome[r].cause
        a == answer[r]
    IN
    /\ a # None /\ cause # None /\ call[r].via \notin {"ws", "bidi"}
    /\ a.kind \in {"http", "grpc"}
    =>
      /\ Seen(a).code = Code(cause) /\ Seen(a).details = cause.details
      /\ a.kind = "http" =>
           /\ a.resp.status = HTTPStatus(Code(cause))
           /\ HTTPStatus(CodeFromHTTPStatus(a.resp.status)) = a.resp.status
           /\ Op(request[r]).gateway \/ Seen(a).message = Message(cause)

\* The order in which each stream interceptor finds what it needs in the context
\* of the stream that it wraps.
InOrder == StreamChain = <<"rbac", "jwt", "public">>

\* The handler that runs is that of the operation called, and is given every
\* field that the client sent, through substitution, routing, query conversion
\* and binding, in the codec in which it will answer; a path value wins over a
\* body that contradicts it.  Left out is what the mapping of the operation
\* itself loses or refuses (LostFields, MayBeRefused), and in a request that is not our
\* client's all but the path.
HasMessage(q) == Op(q).form \in {"unary", "server"}
Sent(c) ==
  LET op == Operations[c.op] IN
  IF c.via = "raw" THEN op.path ELSE DOMAIN op.fields \ LostFields(op, c.via, c.msg)
MessageArrives ==
  \A r \in Requests :
    LET c == call[r]
        q == request[r]
        op == Operations[c.op]
    IN
    /\ phase[r] \in {"run", "reply"} => Codec(q) = c.codec
    /\ phase[r] \in {"run", "reply"} /\ HasMessage(q) /\ (c.via = "raw" \/ FitsInPath(op, c.msg)) =>
         /\ q.route.handler = c.op
         /\ \A f \in Sent(c) : payload[r][2][f] = c.msg[2][f]
    /\ outcome[r].err = NewError("invalid_argument", <<"bind">>) =>
         c.via = "raw" \/ MayBeRefused(op, c.via, c.codec, c.msg)

\* What a handler is given was decoded from the request that it serves, last
\* from the first frame if there is one: nothing is left of what was bound
\* before an upgrade.
OwnMessages(q) ==
  IF IsGRPC(q) THEN q.body
  ELSE IF Op(q).form = "server" /\ q.upgrade = "websocket" THEN Framed(q) ELSE Built(q)
PayloadIsOwn ==
  \A r \in Requests :
    phase[r] \in {"run", "reply"} /\ HasMessage(request[r]) =>
      payload[r] \in OwnMessages(request[r])

\* A timeout reaches the server whole, at most a unit longer; of a point in
\* time at most a second is lost; and there is no deadline that nobody set.
DeadlineCarried ==
  \A r \in Requests : phase[r] # "idle" /\ call[r].via # "raw" =>
    LET c == call[r]
        d == DeadlineOf(request[r])
    IN IF c.timeout > 0 /\ c.via = "unary"
       THEN \E s \in d : \/ c.timeout <= s /\ s < c.timeout + Units[SmallestUnit(c.timeout)]
                         \/ c.timeout <= s /\ s = MaxDuration
       ELSE IF c.deadline > 0 /\ c.via = "unary"
       THEN \E s \in d : s <= c.deadline /\ c.deadline < s + Second
       ELSE d = {}

\* 405 names exactly the methods that would be served on that path, of which
\* the request's is none; 404 means that no method is (allowedMethods).
AllowIsTruthful ==
  \A r \in Requests : answer[r] # None /\ ~IsGRPC(request[r]) /\ request[r].route.handler = None =>
    LET served == {m \in Methods : Serves(m, request[r].path).handler # None} IN
    /\ answer[r].allow = served /\ request[r].method \notin served
    /\ answer[r].resp.status = IF served = {} THEN 404 ELSE 405

\* Every request is answered, whichever step refuses it.
RequestsAnswered == \A r \in Requests : phase[r] = "sent" ~> phase[r] = "done"
===============================================================================
