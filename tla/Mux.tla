--------------------------------- MODULE Mux ---------------------------------
(***************************************************************************)
(* The mux of routing: services are registered one after another, and      *)
(* requests are served from an exact map and one route tree per method.    *)
(* Registering prepares each operation (kernel/prepare.go), which changes  *)
(* the operation itself: its path and its interceptors.                    *)
(***************************************************************************)
EXTENDS RouteTree

CONSTANTS
  Operations,   \* id |-> [method, bidi, segments, verb, interceptors]
  Unparsable,   \* ids of the operations whose template does not parse
  Services,     \* name |-> [prefix, operations]: a sequence of segments, and one
                \* of ids
  Interceptors, \* the mux's, outermost first
  Paths,        \* the paths that are requested
  MaxCalls      \* bound: calls of Register

Methods == {"GET", "POST"}
Ids     == DOMAIN Operations

\* An operation is made for one service, as the generated code does it.
ASSUME MuxAssumption ==
  /\ Unparsable \subseteq Ids
  /\ Operations \in [Ids -> [method : Methods, bidi : BOOLEAN, segments : Seq(Segment),
                              verb : Element, interceptors : Seq(STRING)]]
  /\ \A s \in DOMAIN Services :
       /\ Services[s].prefix \in Seq(Segment) /\ Services[s].operations \in Seq(Ids)
       /\ \A t \in DOMAIN Services \ {s} :
            Range(Services[s].operations) \cap Range(Services[t].operations) = {}
  /\ Interceptors \in Seq(STRING)
  /\ MaxCalls \in Nat

VARIABLES
  operations, \* the operations as Register has left them
  exact,      \* method |-> path |-> handler
  wildcard,   \* method |-> route tree
  routes,     \* history: the routes built, [method, handler], in order
  calls       \* calls of Register so far

vars == <<operations, exact, wildcard, routes, calls>>

Init ==
  /\ operations = Operations
  /\ exact = [m \in Methods |-> <<>>]
  /\ wildcard = [m \in Methods |-> NewRouteTree]
  /\ routes = <<>>
  /\ calls = 0

-----------------------------------------------------------------------------
(* Register *)

Pattern(op) == [segments |-> op.segments, verb |-> op.verb]
HasParams(op) == \E i \in DOMAIN op.segments : op.segments[i].kind # "literal"
\* The path of a template without parameters.
PlainPath(op) ==
  LET symbols == Symbols(op.segments)
  IN [i \in DOMAIN symbols |-> symbols[i].name] \o op.verb

PrepareOperation_Inside(op, prefix) ==
  [op EXCEPT !.segments = prefix \o @, !.interceptors = @ \o Interceptors]
PrepareOperation(op, prefix) ==
  [op EXCEPT !.segments = prefix \o @, !.interceptors = Interceptors \o @]

\* An operation may be declared with any method; a WebSocket opens with GET.
RouteMethod(op) == IF op.bidi THEN "GET" ELSE op.method

AddExact_LastWins(byPath, path, handler) == Bind(byPath, path, handler)
AddExact(byPath, path, handler) ==
  IF path \in DOMAIN byPath THEN byPath ELSE Bind(byPath, path, handler)

\* One turn of the loop; after an error there are no more.
RegisterOperation(mux, prefix, o) ==
  LET op == PrepareOperation(mux.operations[o], prefix)
      prepared == [mux EXCEPT !.operations[o] = op]
      handler == [operation |-> o, pattern |-> Pattern(op), interceptors |-> op.interceptors]
      method == RouteMethod(op)
      built == [prepared EXCEPT !.routes = Append(@, [method |-> method, handler |-> handler])]
  IN
  IF mux.err THEN mux
  ELSE IF o \in Unparsable THEN [prepared EXCEPT !.err = TRUE]
  ELSE IF HasParams(op)
  THEN [built EXCEPT !.wildcard[method] = Insert(@, Pattern(op), handler)]
  ELSE [built EXCEPT !.exact[method] = AddExact(@, PlainPath(op), handler)]

Register(s) ==
  LET mux == [operations |-> operations, exact |-> exact, wildcard |-> wildcard,
              routes |-> routes, err |-> FALSE]
      ids == Services[s].operations
      turn[n \in 0..Len(ids)] ==
        IF n = 0 THEN mux ELSE RegisterOperation(turn[n - 1], Services[s].prefix, ids[n])
      after == turn[Len(ids)]
  IN
  /\ calls < MaxCalls
  /\ calls' = calls + 1
  /\ operations' = after.operations
  /\ exact' = after.exact
  /\ wildcard' = after.wildcard
  /\ routes' = after.routes

Next == \E s \in DOMAIN Services : Register(s)

Spec == Init /\ [][Next]_vars

-----------------------------------------------------------------------------
(* ServeHTTP *)

\* The handler and the parameters that a request is served with.
ServedBy(method, path) ==
  IF path \in DOMAIN exact[method]
  THEN [handler |-> exact[method][path], params |-> NoParams]
  ELSE Lookup(wildcard[method], path)

-----------------------------------------------------------------------------
(* Properties *)

TypeOK ==
  /\ DOMAIN operations = Ids
  /\ \A m \in Methods : TreeOK(wildcard[m])

\* The routes in a method's tree, by their place in the order.
TreeRoutes(method) ==
  {i \in DOMAIN routes :
     routes[i].method = method /\ HasParams(routes[i].handler.pattern)}

\* The tree and the templates may disagree on a path
\*  - in which a segment begins with a literal that stands before a parameter
\*    and goes on: the tree does not look for the end of a literal;
\*  - that ends in a verb with no name before it: the tree serves an empty
\*    parameter, and only Pattern.Match lets a verb stand behind a slash;
\*  - that ends in a verb and a slash: the tree ignores the slash;
\*  - with repeated slashes before a name: only Pattern.Match skips them.
Aligned(path) ==
  LET BeforeCapture(segments) ==
        {segments[i].literal : i \in {k \in 1..(Len(segments) - 1) :
           segments[k].kind = "literal" /\ segments[k + 1].kind # "literal"}}
      literals == UNION {BeforeCapture(r.handler.pattern.segments) : r \in ToSet(routes)}
      names == {FirstSegment(Drop(path, i)) : i \in {k \in DOMAIN path : path[k] = Slash}}
  IN \A name \in names, l \in literals : IsPrefix(l, name) => l = name

VerbAttached(path) ==
  LET bare == StripTrailingSlashes(path)
      verbs == {r.handler.pattern.verb : r \in ToSet(routes)} \ {<<>>}
  IN \A v \in verbs : IsSuffix(v, bare) =>
       path = bare /\ bare[Len(bare) - Len(v)] # Slash

SingleSlashes(path) ==
  LET bare == StripTrailingSlashes(path)
  IN \A i \in 1..(Len(bare) - 1) : bare[i] # Slash \/ bare[i + 1] # Slash

OrdinaryPaths == {p \in Paths : Aligned(p) /\ VerbAttached(p) /\ SingleSlashes(p)}

\* ... or when a template has a verb behind an expression, which only
\* Pattern.Match takes off first, or a parameter twice, which the walk
\* deletes for both when it leaves the second.
OrdinaryTemplate(pattern) ==
  LET segments == pattern.segments
      captures == {i \in DOMAIN segments : segments[i].kind # "literal"}
  IN /\ pattern.verb = <<>> \/ Last(segments).kind # "resource"
     /\ \A i, j \in captures : segments[i].name = segments[j].name => i = j

AgreeOn(paths) ==
  \A m \in Methods :
    LET tree == wildcard[m]
        rs == TreeRoutes(m)
    IN \A p \in paths :
         LET found == Lookup(tree, p) IN
         IF found.handler = None THEN \A i \in rs : Match(routes[i].handler.pattern, p) = {}
         ELSE Match(found.handler.pattern, p) = {found.params}

\* A tree finds a handler exactly if some template in it matches the path, and
\* then one whose template matches, with the same parameters: "The tree
\* preserves the mux's routing semantics structurally."
TreeIsPattern == AgreeOn(Paths)
OrdinaryTreeIsPattern ==
  (\A r \in ToSet(routes) : OrdinaryTemplate(r.handler.pattern)) => AgreeOn(OrdinaryPaths)

\* The order in which a method's tree tries two of its routes that match a
\* path: where their symbols part, the one that ends, and a literal before a
\* parameter ("the most specific match wins"); of two parameters the one that
\* some route brought there first; and the same symbols in the order of
\* registration.
Precedes(rs, i, j) ==
  LET s == Symbols(routes[i].handler.pattern.segments)
      t == Symbols(routes[j].handler.pattern.segments)
      n == CommonPrefixLen(s, t)
      Since(branch) == Min({k \in rs : IsPrefix(branch, Symbols(routes[k].handler.pattern.segments))})
  IN
  IF s = t THEN i < j
  ELSE IF n = Len(s) \/ n = Len(t) THEN n = Len(s)
  ELSE IF s[n + 1].kind = "literal" \/ t[n + 1].kind = "literal"
  THEN s[n + 1].kind = "literal" /\ t[n + 1].kind # "literal"
  ELSE Since(SubSeq(s, 1, n + 1)) < Since(SubSeq(t, 1, n + 1))

\* /v1/users/me wins over /v1/users/{id} whatever was registered in between:
\* the route that serves a path precedes every other route that matches it.
BestRouteWins ==
  (\A r \in ToSet(routes) : OrdinaryTemplate(r.handler.pattern)) =>
    \A m \in Methods, p \in OrdinaryPaths :
      LET rs == TreeRoutes(m)
          found == Lookup(wildcard[m], p).handler
          matching == {i \in rs : Match(routes[i].handler.pattern, p) # {}}
          serving == {i \in rs : routes[i].handler = found}
      IN found # None => \A j \in matching \ serving : Precedes(rs, Min(serving), j)

\* The handler that serves an operation at its declared path runs the mux's
\* interceptors and then the operation's own, each once, even when a failed
\* Register was called again.
Declared(o) ==
  {[segments |-> Services[s].prefix \o Operations[o].segments, verb |-> Operations[o].verb] :
     s \in {t \in DOMAIN Services : o \in Range(Services[t].operations)}}

InterceptorsOnce ==
  \A m \in Methods, p \in Paths :
    LET h == ServedBy(m, p).handler IN
    h # None /\ h.pattern \in Declared(h.operation) =>
      h.interceptors = Interceptors \o Operations[h.operation].interceptors

\* Two routes that a request cannot tell apart: the same symbols and verb, or
\* without parameters the same path.
SameRoute(r, q) ==
  LET p == r.handler.pattern
      t == q.handler.pattern
  IN
  /\ r.method = q.method
  /\ \/ /\ HasParams(p) /\ HasParams(t)
        /\ Symbols(p.segments) = Symbols(t.segments) /\ p.verb = t.verb
     \/ ~HasParams(p) /\ ~HasParams(t) /\ PlainPath(p) = PlainPath(t)

FirstRoutes(method) ==
  {routes[i].handler : i \in {k \in DOMAIN routes :
     /\ routes[k].method = method
     /\ \A j \in 1..(k - 1) : ~SameRoute(routes[j], routes[k])}}

TreeHandlers(tree) ==
  UNION {{tree[n].terminals[i].handler : i \in DOMAIN tree[n].terminals} : n \in DOMAIN tree}

\* "First registration wins" (buildRoute, addTerminal): of the routes that were
\* built, a method's tree and its exact map have the first of each template,
\* and no other.
FirstRouteWins ==
  \A m \in Methods :
    /\ TreeHandlers(wildcard[m]) = {h \in FirstRoutes(m) : HasParams(h.pattern)}
    /\ {exact[m][p] : p \in DOMAIN exact[m]} = {h \in FirstRoutes(m) : ~HasParams(h.pattern)}
    /\ \A p \in DOMAIN exact[m] : PlainPath(exact[m][p].pattern) = p
===============================================================================
