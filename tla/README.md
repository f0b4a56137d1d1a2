# zara-rpc in TLA+

A formal model of zara-rpc: a request's way through the server, over HTTP and
over gRPC, the streaming transports, the client's calls, the policy watcher and
the routing, model-checked with TLC and proved about with TLAPS. The modules are
translated from the Go source; line references are to the repository.

Contents: [1 the system](#1-the-system) ·
[2 the modules](#2-the-modules) · [3 the runs](#3-the-runs) ·
[4 fairness](#4-fairness) · [5 the proofs](#5-the-proofs) ·
[6 disagreements found](#6-disagreements-found) ·
[7 what is not modelled](#7-what-is-not-modelled) · [8 plan](#8-plan)

## 1 The system

zara-rpc serves protobuf-described services over plain HTTP. A `Handler` per
operation (kernel) is mounted on a mux (routing); it binds the request
(runtime), runs interceptors (middleware, auth), calls the user's method and
writes the response (encoding, status). Streaming operations use SSE for the
server-to-client direction, NDJSON for the client-to-server direction, and
WebSocket frames for both. Generated clients go through `client.ClientBase`.

| component | state | operations | hard behaviour | what makes it correct |
|---|---|---|---|---|
| client stream (client/ndjson.go, client/streams.go) | the pipe, `respCh`, the cached `result`, `mu` | Send, CloseAndReceive, Close, the goroutine in `httpClient.Do` | `mu` is held across a channel receive; the server may answer early; the pipe blocks | every call returns; the verdict told is the handler's; no response body leaks |
| NDJSON reader (transport/ndjson) | a buffered reader over the request body | Receive | blank lines, partial lines, a body that breaks | io.EOF means the client has finished |
| SSE writer (transport/sse) | `mu`, a pool of base64 buffers | Send | an event is several writes; a write blocks with `mu` held; a write fails half way | events stay whole; buffers are not shared; senders return |
| SSE client (client/streams.go) | body, `done`, `once`, a watcher goroutine | Receive, Close, the watcher | cancel, Close and the end of the body race | responses arrive whole, once, in order; end of stream is real; no goroutine leaks |
| byte pools (internal/xsync) | sync.Pool of slices | GetN, Put | capacity, garbage collection, one owner | exclusive buffers; nothing oversized is pinned |
| unary calls (client/unary.go, client.go, retry.go) | the base configuration (shared map and slice), one context per call | DoUnary, applyDeadline, buildInvoker, retryInvoker, invokeUnary | shared Go maps and slices; a retry racing a late answer; a silent server | options do not leak; side effects are bounded; a success is real; calls with deadlines return |
| policy watcher (auth/rbac) | `current` (atomic), `last`, a ticker | IsAuthorized, run, reload, Close | the file changes, breaks, vanishes; requests in flight | one policy decides a request; a good file takes effect; Close ends the loop |
| WebSocket streams | `readMu`, `writeMu`, the connection | Send, Receive, Close | separate readers and writers, close codes, no deadline | frames whole; what Close and cancel release |
| mux and route tree (routing) | exact map, one tree per method, templates | Register, ServeHTTP | precedence, duplicates, literals across slashes | the tree agrees with `Pattern.Match` on ordinary paths; 405 lists the allowed methods |
| server (routing.Server, kernel.Handler) | per request: the `Ctx`, the bound message, the wrapped stream | ServeHTTP, ServeHTTPWithParams, the four forms, writeResponse, writeError | early exits; streams authorized, bound, upgraded and wrapped in different orders; the policy changes meanwhile | a handler runs only on what was admitted; one answer to every request |
| request binding (runtime, generated builders) | none | PopulateMessage, the builders, path substitution, query conversion | integer widths; precedence of path, body and query; empty bodies | what the client sent is what the handler gets |
| auth and interceptors | values in the `Ctx`, claims | Public, JWT, RBAC and their stream forms, the chains | order, public operations, two entries | HTTP and gRPC, unary and stream chains decide alike |
| headers and codes (metadata, status, codes) | none | FormatGrpcTimeout, ParseGrpcTimeout, HTTPStatus, FromHTTP | units, clamping, overflow, lossy maps | deadlines and codes arrive as they were sent |
| gRPC bridge and gateway | none | CtxFor, ToGRPC, generated handlers | another context, another kind of error | the same decision, the same code |

How they interact: a client stream and the NDJSON reader share one HTTP request
body and response (`ClientStream`); the SSE writer and client share one
response body, and the SSE writer uses a byte pool (`ServerStream`, composed
with `BytesPool`); every client call starts from one shared `clientConfig`
(`UnaryCall`); requests read the policy the watcher goroutine replaces
(`PolicyWatcher`); a mux keeps its handlers in trees of templates (`Mux`,
`RouteTree`); a request passes from the client's encoding through routing,
binding, authorization and handler to the client's decoding of the answer
(`Server`, with `Binding`, `Policy`, `Codes` and `Deadline`). The hazards of each part, at their lines, are in
PROJECT.json.

## 2 The modules

### StreamCall and ClientStream: a client-streaming call

`StreamCall` is what the call promises without pipe, HTTP or mutex: the caller
appends requests and closes; the handler receives a prefix and is told "end of
stream" only when it has all of them and the caller has closed; one verdict is
given; a caller that closes and waits is told that verdict or learns that it is
lost.

`ClientStream` is the code.

| in the module | in the code |
|---|---|
| `pc`, `arg`, `ret` per thread | where a goroutine is in Send, CloseAndReceive or Close, and what it returned |
| `mu`, `result` | `ndjsonWriteStream.mu`, `.result`; `mu` names the thread that keeps it while blocked on `respCh` |
| `respCh`, `do` | the one-slot channel and the goroutine inside `httpClient.Do` |
| `sendSide`, `writer`, `written`, `piece` | the io.Pipe: its write side, the goroutine inside Write, lines handed over, an unfinished line |
| `transport`, `conn` | net/http's copy of the body, and the connection |
| `got`, `ended`, `handler`, `reply` | the server: messages Receive returned, how it ended, where the handler is, what it answered |
| `body`, `answers` | the client's response body; history of what CloseAndReceive told |

Each call is as many actions as it has interleaving points. A short critical
section that does not block (takeResult, the write of `s.result`) is one
action; `waitResult` is two (`LockResult`, `AwaitResult`), because it blocks
with `mu` held. `io.Pipe`, the transport and the user's handler are external:
the pipe is a rendezvous that takes a line whole or in two pieces and
serialises writers; the transport may stop reading at any time once a response
is there or the connection is lost; the handler receives any number of messages
and returns either verdict. A message is a model value; what matters of its
encoding is whether the codec refuses it (`Unencodable`, `Undecodable`) and
whether it is zero bytes long (`Blank`, empty for text codecs).

The refinement maps `sent` to `written` and `verdict` to `reply`, and reads
every answer that carries neither the reply nor its status as "lost".

### BytesPool, ResponseStream and ServerStream: a server-streaming call

`BytesPool` is internal/xsync's `Bytes` as its users see it: a buffer is an
identity with a capacity (`none`, `small`, `large`) and the content last
written to it; `GetN` takes a pooled or a new one and grows it, `Put` keeps it
or releases an oversized array, and the garbage collector may empty the pool.

`ResponseStream` is the promise: the client's `received` is a prefix of `sent`,
and the end of the stream is reported only after the handler returned and
everything was received; it may always be told that the stream broke. Over SSE
the promise is kept only if no message encodes to no bytes (`Blank = {}`): such
a message is in `sent` once Send has written it, and Receive skips it.

`ServerStream` composes `BytesPool` with the SSE sender (one action per write,
because another goroutine could write in between if the mutex did not hold),
the handler's return, the server's write deadline (kernel/lifecycle.go sets
30 s), the loss of the connection, and the client's Receive, Close, context
and watcher goroutine. `wire` is the queue of chunks; a payload chunk carries
what the sender's *buffer* holds at that moment, so that a buffer shared by two
senders would show as the wrong message. `sent` and `received` are history
variables. `net/http` is external: writes block when `Window` chunks are in
flight, and after the deadline or a disconnect they fail or are lost.

### WebSocketStream: server-streaming and bidi calls over WebSocket

One module for both operations (`kind`): they differ in who reads at the server
and in the first frame. Each end has a queue of `frames` on their way, a code
it called Close with (`close`), a state (`end`: open, close frame sent,
dropped) and what its reads were told in the end (`told`: a close code, that the
connection is lost, or "answered": the close code with which that same end had
closed, which may be the peer's answer to it).

| in the module | in the code |
|---|---|
| `pc`, `arg`, `writeMu`, `readMu` | the handler's goroutines in Send and Receive (transport/websocket/websocket.go); the server-streaming stream has only `mu`, which is `writeMu` here |
| `handler` | kernel/handler.go: the first frame awaited, serving, and the verdict; `CloseWith` is `conn.Close(1000)` or `conn.Close(1011, err)` |
| `sending`, `receiving` | the client's Send (or the request in doServerStreamWS) and Receive; the two run in a goroutine each |
| `ctx` | the context of DoServerStream; DialWebSocket does not use the caller's after the dial |
| `sent`, `got` | history: the messages each end put on the wire and took from it |

github.com/coder/websocket is external, modelled by what the code relies on: a
frame is written whole or lost; a write blocks when `Window` frames are in
flight; Close writes a close frame, waits for the answer for a while and drops
the connection; a Read that takes a close frame answers it with the same code,
unless its end has sent one already or there is no room, and drops the
connection too. A connection that ends may lose what was in flight.

It implements `ResponseStream` in both directions (`ImplementsResponses`,
`ImplementsRequests`): "eof" is close code 1000, except where it was "answered"
on a bidi call. A server-streaming handler reads nothing after its first frame,
so that nothing there answers the client, and 1000 is always the handler's.

### UnaryCall: concurrent unary calls

One action per step of `DoUnary` that other calls can interleave with: copy the
configuration, apply options (clone the header map), derive the deadline and
write its header (`setting`: the map is being written), build the chain
(`append` to the base slice), and per attempt: build the request (`building`:
the map is being read), round trip, classify, back off. `headers[c]` tells
whether the call's map is still the base client's; `slot` is the element behind
the base slice's last, which `append` writes when the slice has spare capacity.
The server runs or rejects a request at any time after it was sent, also after
the client gave up. Durations are abstract: a deadline or a backoff ends at any
time.

### PolicyWatcher

The policy file (written in place, hence possibly `Broken` when read, or
`Missing`), the ticker's one-slot channel, the goroutine's loop
(`ReadFile`, `Reload`, `Notify` are separate: the file and the requests go on
between them), Close, and requests that load the policy once and evaluate its
deny rules and then its allow rules. A policy is a pair of sets: the requests
its deny and its allow rules match.

### RouteTree and Mux: routing

`RouteTree` is routing without state: `Match` is `Pattern.Match`
(routing/pattern.go), the reference, and `Insert` and `Lookup` are the
compressed radix tree (routing/route_tree.go) that is to agree with it. A path
is a sequence of atoms: "/", pieces of segment names (a name of two pieces
shares a prefix with another name) and custom verbs with their colon. A
template is what parsing makes of it: segments (a literal, a `{param}`, or a
`{name=expression}`) and a verb.

A tree is its nodes by number, as Go has them by pointer: node 1 is the root, a
new node gets the next number, and `Split` leaves a node where it is and moves
what it had to a new one, as addLiteralChild does. A template is inserted as a
sequence of symbols (`Symbols`): the atoms of its literals, slashes included,
and its parameters, one symbol each, so that the key of every node is a run of
symbols. addLiteralChild, addParamChild and addResourceChild are then one
operator, `Descend`, one node further down. `Lookup` is the recursive function
with its stack made explicit: `calls` are the visits still to be made and the
`delete(params, n.name)` that stand behind the loops over children, in order; so
the one map that Go threads through the whole search is seen as it is when a
branch fails.

`Mux` is the state: the exact map and one tree per method, and the operations
themselves, because `Register` prepares them (prefixes their path, puts the
mux's interceptors before their own) before it can fail. `Register` goes through
the service's operations (`turn`) and stops at the first template that does not
parse, leaving the earlier ones registered. `MuxAssumption` says that an
operation belongs to one service, as the generated code makes it. `ServedBy` is the lookup of
ServeHTTP. `routes` is a history of what was registered, in order.

### Codes, Deadline, Binding and Policy: what the steps compute

Four modules of operators, translated function by function.

- `Codes`: the code names and HTTP statuses (codes/codes.go), errors, and their
  two ways out and back: `WriteError` and `FromHTTP`, `ToGRPC` and
  `FromGRPCStatus`. The wire form of google.rpc.Status is a sequence of
  numbered fields, so that order and repetition matter as they do for the
  parser (`ReadField` is one turn of its loop). `Errors` is what an application
  may return. `PlainAnswer` is what net/http or a proxy writes.
- `Deadline`: `FormatGrpcTimeout` and `ParseGrpcTimeout` with their units, eight
  digits, the clamp of hours and the product modulo 2^64 (`Wrap`), and the
  deadline in RFC 3339 or as a number. Units and limits are constants under
  `DeadlineAssumption`, which says only what the code's constants satisfy.
- `Binding`: `SubstitutePathParams` and `MessageToQuery` of the client;
  `PopulateMessage` (by reflection: path, body, query) and `BuildRequest` (the
  generated builders: body, path, query) of the server. A field type has a kind
  and a width; a value is tagged; a text is a sequence of atoms, and a number's
  text is its decimal, so that `ParseInt` and `SetInt`'s truncation (`Narrow`)
  are those of Go at a small width. A result is a set, empty for an error.
- `Policy`: token extraction, the validator's conditions, principals,
  permissions and rules (auth/jwt, auth/rbac/policy.go).

`Binding` also says where client and server disagree about a mapping, from the
operation and the message alone: what is lost (`Lost`), what may be refused
(`Refusable`), and which path names another resource (`Addressable`).

`Binding` and `Policy` use recursive operators; `Server` takes them, and the
routing of `RouteTree`, as constant operators, which `MCServer` instantiates. What the code guarantees of
them is assumed by name and evaluated by TLC on the instance: `RoutingAssumption`
(the tables lead to operations, gRPC hands over decoded messages), `ErrorAssumption` (None is no error) and
`PortableAssumption` (a policy that looks at no addresses decides alike for every
peer).

### Admission and Server: a request from the client to its answer

`Admission` is the promise: a request's handler runs only after the request was
admitted, once, by the policy in force at that moment and on the rights it has
under it.

`Server` is the code, one action per step that the policy watcher or another
request can come between:

| in the module | in the code |
|---|---|
| `call`, `Wire`, `Routed` | what the caller wants, the request DoUnary, DoServerStream (SSE, WebSocket), DoClientStream, DoBidiStream or a gRPC client makes of it, and the handler and path parameters that the mux adds |
| `Dispatch`, `DispatchGRPC`, `NotRouted` | routing.Server.ServeHTTP, Mux.ServeHTTP, ServeHTTPWithParams; the generated gRPC method handlers; 404 and 405 |
| `Bind`, `Built`, `Framed` | operation.newRequest and decodeRequest: before the chain for unary calls, after it for server streams |
| `Public`, `JWT`, `RBAC` | the chain [Public, JWT, RBAC], around the handler for unary calls and alone for streams (authorizeStream, grpcbridge.StreamInterceptor); `public` and `claims` are what it puts into the context |
| `Upgrade`, `ReadFrame`, `WrapStream` | websocket.Accept, the first frame, and wrapStream with the stream interceptors, which decide a second time |
| `Handle`, `Reply` | the user's handler (any failure of `Failures`, or the context's error once `expired`), writeResponse, writeError, the close frame, the gRPC status |
| `policy`, `Swap` | `FileWatcherAuthorizer.current`, replaced at any time |
| `verdict`, `under`, `stream.by` | history: what was decided, by which policy |

`phase` is the place of a request. Serving is one goroutine for each request;
what happens inside a stream after it is established is in `ServerStream`,
`ClientStream` and `WebSocketStream`. The refinement maps `phase` to the four
stages of `Admission` and keeps `policy`, `request` and `verdict`.

## 3 The runs

| run | instance | states | shows |
|---|---|---|---|
| `stream_text` | 2 goroutines, 3 messages (ordinary, unencodable, undecodable), 2 Sends, 2 closes | 285k | the stream implements `StreamCall`, io.EOF is real, no body leaks, every call returns |
| `stream_binary` | 1 goroutine, a message that encodes to nothing | found quickly | `EOFMeansFinished` fails: see section 6 |
| `sse` | 2 senders, 2 buffers, a binary codec, 2 messages (a large one in an envelope, a plain one), 2 Sends, window 3 | 398k | events and buffers are not mixed, the client's end of stream is real, senders return, a blocked Receive is released, the watcher exits |
| `unary_retry` | 2 calls with options, one idempotent, 3 attempts | 91k | bounded side effects, no map race, real successes, calls return |
| `unary_base_timeout` | 2 calls without options on a base client WithTimeout | found quickly | `BaseNeverMutated` fails |
| `unary_spare_slice` | 2 calls with options, spare capacity in the base slice | found quickly | `OwnInterceptors` fails |
| `policy_watcher` | 3 policies, 2 requests, 3 changes of the file | 120k | one policy decides, a stable good file takes effect, Close ends the loop |
| `websocket` | both kinds, 2 handler goroutines, 2 messages (one the server cannot decode), 2 Sends, window 1 | 91k | `ResponseStream` both ways, the close code is the verdict unless it is the client's own, senders and receivers are released when the client leaves, Receive ends after the handler |
| `websocket_cancel` | 1 goroutine, 1 message, 1 Send | found quickly | `CancelReleasesReceive` fails: see section 6 |
| `routing` | 6 services with 12 operations (parameters, expressions, verbs, two with the same symbols, a template that does not parse), 166 paths, 4 calls of Register in any order, also twice | 1555 | the trees agree with the templates on ordinary paths, the best route wins, the first route of a template is the one that is kept, interceptors run once |
| `server` | 11 operations (every form and mapping, generated and by reflection, numbers and names in paths), 49 calls of one caller and a gRPC call of another, 3 policies, 1 replacement | 59k | `Admission` is implemented; verdicts agree, messages, deadlines and codes arrive, 405 is truthful, every request is answered |
| `route_boundary` | one route, /a/{x} | found at once | `TreeIsPattern` fails: see section 6 |

Why the bounds are enough. Two goroutines are what each mutex, channel, map and
slice needs to be contended, and the theorems of section 5 hold for any number.
Two Sends give a second line after a line (order, a partial line after a whole
one) and two senders at once; two closes give the CloseAndReceive that finds
the cached result and the Close after it. A window of three chunks holds
half of the longest event and lets a write block. A window of one frame makes
every second write wait, for a close frame too. Three attempts give a retry
after a retry. Three changes of the file give good-broken-good. Each message
class of the code's branches has a member. Counters (`sends`, `closes`,
`writes`, `attempts`) are bounded by the constants `MaxSends`, `MaxCloses`,
`MaxWrites` and the retry policy's own `MaxAttempts`. For routing, four calls
of `Register` give every order of any four services and a service registered
twice; the templates share whole names, parts of names, verbs and parameters,
so that nodes are split, merged and searched in vain, and of two routes that
match the same paths (one below a verb's node, one with the same symbols)
either comes first. `Paths` are all paths of up to three segments over the names
used, those with a slash behind, a second one in front, a verb on a segment of
its own, and a name that goes on behind a literal.
For the server, integers of 3 bits and a "64-bit" width of 5 make truncation
and overflow happen; units 1, 4, 12 and 60 with one digit and a largest duration
of 200 give every branch of the timeout functions, the clamp included, and
the theorems on headers cover all others. The calls are those whose branches differ:
each transport of each form, each place a token can be, each way it can be
invalid, each kind of principal and permission, a body that contradicts its
path, a value too wide for its field, a body of the wrong codec, names that are
empty or have a slash, paths that only other methods serve. One replacement of the policy separates any two decisions
(`MaxSwaps`). Two requests are what `VerdictsAgree` compares; requests share
nothing else.

`CHECK_DEADLOCK FALSE` is set where the system may stop: a client stream whose
calls are all made, unary calls and requests that are all done, a WebSocket call
that both ends have closed, and a mux on which everything is registered.

The properties are chosen for what a test hardly reaches:

- `ImplementsCall`, `ImplementsResponses`: the whole promise of a stream,
  stated in a module of its own, through all interleavings.
- `ImplementsRequests`, `VerdictIsTrue`: the close code crosses the messages,
  the other end's close and the loss of the connection, and still says what
  happened.
- `EOFMeansFinished`: relates the server's io.EOF to the client's pipe.
- `BodyReleased`: whichever call took the response, a Send that fails fast or
  CloseAndReceive, its body is closed when that call has looked at it.
- `CallsReturn` (streams, unary), `SendReturns`, `CancelReleases`, `HandlerReleased`, `ReceiveEnds`, `LoopExits`: nothing waits
  for ever.
- `PoolIsSafe`: who owns the pooled memory, and how much the pool may keep.
- `SideEffectsBounded`: counted at the server, whatever the client believes.
- `OwnInterceptors`, `HeadersNotRaced`, `BaseNeverMutated`: what calls share.
- `SuccessIsReal`: a nil error means the handler ran and succeeded.
- `ConsistentDecisions`, `FileTakesEffect`: decisions against a moving policy.
- `OrdinaryTreeIsPattern`: after any registrations, a tree finds a handler
  exactly if some template in it matches, one that matches, with the same
  parameters, although branches of the search failed before. `OrdinaryPaths` and
  `OrdinaryTemplate` leave out what section 6 lists; without any one of the
  three conditions on paths TLC finds a disagreement in this instance.
- `BestRouteWins`: the route that serves a path precedes every other that
  matches it (`Precedes`): where their symbols part, the one that ends and a
  literal come first, whatever was registered before; of two parameters the one
  that some route, perhaps a third, brought there first; and of routes with the
  same symbols the older. So "the older route wins" is true of the last case
  only: after /ab/{x}:v and /ab/{y}, the route /ab/{x} goes to the node of the
  first and serves /ab/a before the second.
- `FirstRouteWins`: of all routes that were ever built, the tables hold the
  first of each template, and nothing else: no split loses one, no duplicate
  replaces or joins one.
- `ImplementsAdmission`: whatever the transport and the order of its steps, and
  while the policy changes, nothing runs that was not admitted.
- `VerdictsAgree`: two chains in two packages, and stream interceptors composed
  the other way round, decide alike under one policy. Policies that look at
  addresses are left out where the addresses differ: CtxFor has none.
- `CodeReachesCaller`: two encoders against two decoders, with codes that share
  an HTTP status and a header that overrides the body.
- `MessageArrives`: substitution against the route tree, query conversion and
  codecs against binding; the handler of the operation that was called is given
  every field, unchanged, and only what `Refusable` names is refused. What the
  mapping itself loses is left out of it, field by field, by `Lost`, and is
  listed in section 6; so are paths that are not `Addressable`.
- `DeadlineCarried`: what the client set against what the server derives.
- `AllowIsTruthful`: the Allow header against what would really be served.
- `RequestsAnswered`: no early exit forgets to answer.
- `InterceptorsOnce`: a Register that failed half way and is called again does
  not make an operation run the mux's interceptors twice.

## 4 Fairness

Weak fairness of a goroutine's own steps is Go's scheduler. Beyond that:

- client stream: the request goroutine and the transport go on while they can;
  the server's handler goes on receiving until it returns, and returns once
  Receive has told it the end. A handler that does neither keeps
  CloseAndReceive for ever: the call has no timeout of its own.
- server: weak fairness of a request's own steps (`Serve(r)`): its goroutine runs
  and its handler returns. Neither a replacement of the policy nor the passing
  of a deadline is assumed.
- SSE: weak fairness of a sender's steps, of the client's reads and of the
  watcher; strong fairness of `Lock`, because Go's mutex is starvation-free
  (sync.Mutex's starvation mode); weak fairness of `WriteTimeout`, because
  kernel/lifecycle.go sets a write deadline by default. With that deadline
  removed, `SendReturns` would not hold. Nobody has to send, receive, cancel,
  close or return.
- WebSocket: strong fairness of both mutexes, for the same reason; weak
  fairness of a read or write that can go on, and of `CloseEnds`, because the
  library waits for the peer's close frame for five seconds only. A hijacked
  connection has no write deadline, so a sender is promised its release only
  when the client closes or is lost: `HandlerReleased` assumes that departure,
  and a client that stays without reading blocks its handler for as long as it
  likes. That the peer or the network goes away is never assumed.
- unary: a call's steps and the passing of its deadline. Nothing is assumed of
  the server, and calls without a deadline are excluded from `CallsReturn`
  because http.DefaultClient has no timeout.
- policy watcher: the ticker, the loop's steps (OnPolicyUpdate returns), and
  strong fairness of `Exit`, because Go's select picks among ready branches at
  random and so cannot pass the closed context over for ever.

## 5 The proofs

All theorems hold for every value of the constants satisfying the modules'
assumptions, and use no other hypothesis unless stated.

- **ClientStreamProofs.** `TypeOK` is inductive with `CallInv` (a thread holds
  `mu` exactly while it waits, is the pipe's writer exactly while it is in
  Write, and offers the message it was called with). `ResultInv` says the one
  response is in one place at a time and that nobody acts on it before it is
  there; with it `BodyReleased` is inductive (`NoLeakedBody`). `WireInv` says
  that the handler never runs ahead of the wire; with it, and under
  `Blank = {}` (no message encodes to an empty line), `EOFMeansFinished` is
  inductive (`EOFIsTheEnd`). `CallSimulation` takes each action to a step of
  `StreamCall` or a stutter, and `StreamImplementsCall` concludes
  `Blank = {} => (Spec => ImplementsCall)`. The hypothesis is the one
  `stream_binary` shows to be needed. `BodyReleased` speaks of both calls that can
  take the response; a caller that only calls Close leaves it in `respCh`, and
  nobody has looked at it then.
- **ServerStreamProofs.** Of the pool first: exclusive buffers and no pinned
  array, for any users (`PoolSafe`).
  `SendInv`: one goroutine at a time, the holder of
  `mu`, is within an event (`OneWriter`). It makes every step of the stream a
  step of the pool or a stutter on its variables (`StreamUsesPool`), so that
  `PoolIsSafe` follows from the pool's theorem
  (`StreamBuffersAreSafe`). `HoldInv`: the buffer a goroutine holds still
  contains what it encoded, which needs that exclusiveness. `WireInv` is the
  grammar of the wire, and `TailInv` says that as long as writes arrive its last
  chunk is where the holder of `mu` has come to; together they make whatever is
  appended fit (`WriteFits`) and a line that Receive reads an event line or one
  whole event (`LineShape`). `HistoryInv` and `PendingInv`: what was received is
  a prefix of what was sent, and the rest stands on the wire, in order, one whole
  event per message (`Marks`); so that a read yields the next message
  (`LineSkippedOrNext`), and an empty wire means that nothing is missing
  (`NothingPending`). Hence `StreamTypes` and the refinement,
  `Blank = {} => (Spec => ImplementsResponses)` (`StreamImplementsResponses`).
  The hypothesis is needed: an empty message that Send wrote is in `sent` and
  never in `received` (section 6).
- **WebSocketStreamProofs.** `WireInv`, for each end: what its peer has read is
  a prefix of what it sent, what is in flight are the messages that follow and,
  behind them, its close frame once it has sent it; a peer that was told a code
  had read everything before. An end that was told the code with which it had closed
  itself is told nothing of its peer, and on a server-streaming call that does
  not happen. It is inductive with `CallInv` (verdict and close
  code agree; only a serving handler's goroutines write). From it follow
  `VerdictIsTrue` (`VerdictIsHandlers`) and both refinements
  (`StreamImplementsResponses`, `StreamImplementsRequests`): `ReadIsNext` and
  `ReadEndIsReal` say what one Read can do to the promise, and each action is
  then a step of `ResponseStream` or a stutter.
- **UnaryCallProofs.** `AttemptInv` and `RequestInv` count runs of the handler
  against attempts: an attempt is run once at most, and a second one begins only
  for an idempotent call (`AtMostOnce`). `SuccessInv` follows a success from the
  handler through the response to the caller (`SuccessIsTheServers`).
  `SharedHeadersOnlyRead` assumes
  `BaseTimeout = "unset"`, which `unary_base_timeout` shows to be needed.
- **PolicyWatcherProofs.** `last` and `current` agree and parse, and a request's
  policy and partial verdict are those of a policy in force since it began
  (`DecisionsAreConsistent`).
- **ServerProofs.** `TypeOK` is inductive by itself. `ChainInv` ties the place of
  a request to what the chain has done: the verdict is "none" up to RBAC and
  "admitted" behind it, and at each step `public` and `claims` are what the
  request's own token gives. It is needed because RBAC reads a context that
  other steps have filled. Under it each action is a step of `Admission` or a
  stutter (`StepMaps`), hence `ServerImplementsAdmission`. `MuxInv` relates an
  answer to the tables it came from (`AllowIsExact`). Three more invariants say
  what a request carries from step to step:
  - `OutcomeInv`: what ended a request is an error that the code can make
    (`Failures`, a denial, a deadline, binding, writing), the gateway's view of it
    is what its client makes of it, and an answer is made of that view and of
    nothing else. With the round trips of codes, below, it gives
    `CodesReachCallers`, for HTTP and gRPC, with and without a gateway.
  - `VerdictInv`: every decision recorded for a request, of the chain or of the
    stream interceptors, is what one function of the request and the policy says
    (`Rights`), and `SameRights` shows that the function gives equal
    callers equal verdicts. `ChainStream` is unfolded by induction
    (`ChainUnfolds`). `ChainsAgree` has the hypothesis `InOrder`: an interceptor
    wraps the stream of the one after it, so that [RBAC, JWT, Public] is the order
    in which RBACStream finds the claims. `ChainStream_InOrder`, the fold in the
    opposite direction, breaks the property.
  - `MessageInv`: where on its way a request of each form and transport has been
    bound, and that no way leads to a handler past that place. So a handler is
    given a message decoded from its own request, over a WebSocket from the first
    frame (`PayloadsAreOwn`), for any binding functions. What those functions
    make of a request is the other half of `MessageArrives`, which TLC checks.
- **ServerProofs, codes.** `StatusRoundTrip`: what marshalStatus writes,
  unmarshalStatus reads back, for any number of details. The parser's loop is a
  recursive function over the fields, by `Recursion` (see Induction). `HTTPRoundTrip` and
  `GRPCRoundTrip` follow for every error: over HTTP the header restores the codes
  that share a status, and without details the name in the body does.
- **ServerProofs, deadlines.** Integer arithmetic: `Div` rounds up by less than a unit
  (`Euclid`, `DivBounds`), some unit always fits (`HourFits`, `SmallestFits`),
  and no accepted value overflows (`NoWrap`); so a timeout and a deadline
  survive the wire (`TimeoutRoundTrip`, `DeadlineRoundTrip`), which
  `DeadlinesArrive` applies to every request of the server.
- **Induction.** A loop is a recursive function on 0..n. That a CHOOSE'd function
  is the one that the equation describes needs induction, which is by least
  counterexample (`LeastElement`, from the well-foundedness of < on the
  naturals): such a function exists (`Recursion`, `Recursive`). Loops of codes,
  of the stream interceptors, of insert, lookup and Register are unfolded by it.
- **MuxProofs.** The trees first. Every node is given the *word* that the keys on
  the way to it spell. `Radix(tree, word)` is what insert keeps: the nodes are
  well formed (`NodeOK`), a child's word is its parent's and its key (`Spelled`),
  no two nodes have the same word (`Distinct`), every node but the root has a
  parent (`Parented`), and a node whose word continues another's stands below it
  (`Complete`). The last is what makes the search for a place right: when no
  child shares the beginning of what is left, the word is nowhere in the tree. It
  survives a new child and a split, which are proved apart; `Radix` contains
  `TreeOK` (`RadixIsTree`).
  - `InsertPuts`: insert is put-if-absent on the tree read as a map from words and
    verbs to handlers (`Holds`), and keeps `Radix`. Every step down takes one
    symbol at least, so that the walk ends where nothing is left.
  - `LookupFinds`: whatever the path, the order of the search and the bindings,
    lookup returns None or a handler of the tree.
  - `IInv` is the invariant of the mux, and each turn of Register keeps it
    (`RegisterOperationOK`), also those before an operation that fails:
    `OperationsOK`, an operation is as declared or has been prepared, and if that
    left its path alone its route is in a table already; `TreesOK` and `MapsOK`,
    what a table holds under its declared path runs the right interceptors;
    `RoutesOK`, the tables hold the earliest route of each word and each path.
    That its route is in a table already is what makes `InterceptorsOnce`
    inductive: an operation whose service has no prefix is prepared again by the
    next Register, with the mux's interceptors twice, but its template is taken,
    and put-if-absent drops the route; one whose service has a prefix gets
    another path. Hence `TypeCorrect`, `RegisteredOnce`, `FirstRegistrationWins`.

Only model-checked:

- liveness under fairness, out of the prover's reach;
- `OrdinaryTreeIsPattern` and `BestRouteWins`: which of the handlers of a tree a
  path leads to is a statement about the whole search, backtracking included,
  against another recursion (`Match`) on the same path: an induction over
  trees and paths together. Proved is what both rest on: the shape of the tree
  and that it holds the right handlers, at their templates;
- what `Binding` and `Policy` compute, recursively, of templates, messages and
  rules; hence `MessageArrives`, and `PortableAssumption`, which TLC evaluates for
  every call of the instance.

## 6 Disagreements found

1. `stream_binary`: transport/ndjson/ndjson.go:49 answers io.EOF to a blank
   line, and a binary codec puts a blank line on the wire for a message with no
   field set. runtime/stream.go:43-44 promises io.EOF "when the client has
   finished sending". That message and all later ones are lost.
2. `unary_base_timeout`: client/client.go:116-117 says the deadline header goes
   to the cloned per-call map "so the base client is never mutated". DoUnary
   clones only when the call has options, so on a client built WithTimeout a
   call without options writes the base map.
3. `unary_spare_slice`: client/unary.go:21-23 says that options "apply to this
   call only". WithUnaryInterceptors appends to the shared slice; with spare
   capacity two concurrent calls share the backing array.
4. `websocket_cancel`: client/streams.go:297-298 says of DoServerStream that
   "When ctx is canceled, the underlying connection is closed so blocked Receive
   calls fail". Over WebSocket, Receive reads with context.Background()
   (client/websocket.go:28) and nothing watches the context.
5. `route_boundary`: routing/route_tree.go:23 says "The tree preserves the mux's
   routing semantics structurally", and routing/pattern.go:235 "The literal must
   end at a segment boundary". The tree's literal (routing/route_tree.go:94)
   does not look for the boundary: with /a/{x} registered, the path /ab is
   served with x = "b", which the template does not match.

The tree and `Pattern.Match` disagree in more ways, without a run of their own;
`OrdinaryPaths` and `OrdinaryTemplate` (Mux) leave these out of `routing`, and
nothing else:

- A verb with no name before it: /ac/{x}:v serves /ac/:v with x = ""
  (routing/route_tree.go:196-198), where `Pattern.Match` refuses an "empty
  segment" (routing/pattern.go:222); and only `Pattern.Match` lets the verb of a
  template that ends in a literal stand behind a slash.
- A verb with a slash behind it: the tree ignores the slash.
- Repeated slashes before a name: `Pattern.Match` skips them, the tree's literals
  have one.
- A verb on a resource expression: `Pattern.Match` takes it off before it looks
  at the expression, the tree looks for it behind.
- A template with the same parameter twice: when the walk leaves the second, it
  deletes the value of both.

Noted in passing, without a run: a Send that finds a *successful* early
response turns it into an error with status.FromHTTP (client/ndjson.go:69-74)
and closes its body, so that CloseAndReceive then cannot decode it. The model
keeps that behaviour, and `StreamCall` counts it as a lost answer. Over
WebSocket no Receive ever returns the io.EOF that runtime/stream.go:51-52 and
client/streams.go:30-31 announce: the end arrives as the library's CloseError,
and a client cannot finish sending without giving up receiving. The model
reports the close code and calls 1000 the end of the stream. The comment on
Mux.Register (routing/mux.go:76-78) announces an error for duplicates, which are
dropped; a service that is registered twice has its prefix twice the second
time. Over SSE a message that encodes to no bytes, the protobuf encoding of one
whose fields are all zero, is an empty data line: Send returns nil
(transport/sse/sse.go:66-96), Receive goes on to the next line
(client/streams.go:257) and ends with io.EOF as if nothing was missing. Over
WebSocket the library answers a close frame with the same code: a client that
closes a bidi call while another of its goroutines is in Receive may be told
1000 there while the handler still runs, or before it fails.

Of the server, also without a run (the model does what the code does):

- Fields beside a mapped body: DoUnary sends no query when the body is one field
  (client/unary.go:62-71; a query is built at line 54 for operations without a
  body only), so a field that neither the path nor the body binds is lost and
  the handler sees its zero value, although protoc-gen-zararpc/handler.go:148-149
  says that "every request field not bound by the path template or the body
  automatically becomes a query parameter" and the generated server looks for it
  there. DoServerStream over SSE sends no query at all: of an operation without a
  body mapping it sends the message as a body that nobody reads, and all but the
  path's fields are lost.
- Bodies of a mapped field: the generated builders decode into `&msg.Field`
  (protoc-gen-zararpc/handler.go:129), a pointer to a pointer for a message. It
  is no proto.Message, so that the proto codec answers 400 to every such call,
  and JSON falls back to encoding/json, which loses fields whose names have
  several words (protojson spells them in camel case) and refuses 64-bit
  integers in quotes. The framework's own client sends exactly these.
- Precedence: by reflection the path is bound first and a body `*` then
  overwrites it (runtime/populate.go:43-65); the generated builders bind the
  path last, because "Path params are applied last so they win over the body".
  A dotted query name still overrides part of a body field.
- Widths: query values and reflection truncate integers that do not fit;
  generated path converters refuse them.
- The client's query carries zero values too; a oneof, a nested message or a
  timestamp is printed with "%v", which the server refuses or ignores; an
  optional field in a path is printed as an address; nothing is escaped in a
  path, so that a value that is empty or has a slash makes it another path, which
  may be another operation's.
- DoServerStream sends the whole message as body, whatever the mapping is; no
  stream sends a deadline; DoClientStream and DoBidiStream do not substitute
  path parameters. Grpc-Deadline is cut to seconds; Grpc-Timeout is computed
  once for all retries of a call.
- A server stream over WebSocket is bound before the upgrade, from an empty
  body: with a body mapping and JSON it is refused always. Its first frame then
  replaces the message, path and query values included.
- Stream interceptors decide when they wrap, from the last to the first:
  [PublicStream, JWTStream, RBACStream] lets RBAC decide before there are claims.
  `StreamChain` is the order that works (`InOrder`); with the other one the runs'
  `VerdictsAgree` fails, as the mutant `ChainStream_InOrder` shows. The chain
  that authorizes a stream ends in a handler of its own, so its claims do not
  reach the stream's (auth/jwt/claims.go:54-55 says they do). A stream refused by its wrapping is
  an SSE answer 200 that ends at once.
- grpcbridge passes no stream interceptors on, although routing/server.go:44-45
  announces them for gRPC streams; CtxFor sets no peer, so that rules on
  addresses never match.
- Unary calls are bound before they are authorized (400 before 401), streams
  after.
- codes/codes.go:127-128 calls CodeFromHTTPStatus "the inverse" of HTTPStatus;
  codes share statuses, so it cannot be. An error with CodeOK is answered 200
  with an error body; a bare context error is Unknown.
- A response field that is a scalar cannot be encoded by the proto codec (500);
  the client decodes a response field into the whole message.

## 7 What is not modelled

Within the modelled parts: the client's stream interceptors and decode buffers,
the arithmetic of the backoff, Go's memory model beyond "a map is not written
while another goroutine touches it". A WebSocket stream begins with the
connection open: the upgrade is a step of `Server` that succeeds or not. Of
routing: the parsing of template strings (templates are given parsed,
`Unparsable` are those that fail); repeated slashes are in front of a path only. Of
answers: the metadata of an error, which writeError copies to headers
(kernel/handler.go:416-421) and FromHTTP fills from an upstream answer's
(status/status.go:286), so that an error returned again carries the headers of the
first answer, its length included. Of binding: floats, booleans, enums and timestamps (parsed by the standard library
as integers are), the field cache (a sync.Map of values that are the same
whoever computes them), and dotted path parameters. Of authentication: signature checking, which
is a comparison of method and key, and chains other than [Public, JWT, RBAC]. Of
the gateway: the header pairs it forwards and the loops that copy its streams
(a bidi method waits for both of its goroutines, protoc-gen-zararpc/gateway.go:184,
so it stays when the service ends a stream that the caller leaves open).

Left out for good: the writers of generated code (sequential text output), the
encodings behind the codecs (libraries) and the codec registry, plain
construction (builder, options, lifecycle), one-line wrappers (xunsafe, atomic).

## 8 Plan

1. **StreamCall / ClientStream**, **BytesPool / ResponseStream / ServerStream**,
   **UnaryCall**, **PolicyWatcher**, **WebSocketStream** with their proofs. Done.
2. **RouteTree / Mux**, with the proofs that insert keeps a radix tree and is
   put-if-absent, that the first registration wins and that interceptors run
   once. Done.
3. **Codes, Deadline, Binding, Policy, Admission, Server** with the proofs of the
   refinement and of the header functions. Done.
4. **Proofs** of what a request carries through the server: `CodesReachCallers`,
   `ChainsAgree`, `PayloadsAreOwn`, with the fields of a status as a
   recursive function. Done. Still worth having: that a search of a tree finds
   what the templates say (`OrdinaryTreeIsPattern`).
5. **Model** still worth having: the stream loops of a gateway between two
   streams, and the arithmetic of the backoff.
