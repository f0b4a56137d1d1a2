------------------------------ MODULE RouteTree ------------------------------
(***************************************************************************)
(* Path templates and the compressed radix tree of routing.                *)
(*                                                                         *)
(* A path is a sequence of atoms: "/", pieces of segment names, and custom *)
(* verbs with their colon (":v").  A name is one or several pieces, so     *)
(* that names can share a prefix.  A template is its parsed form: segments *)
(* and a verb, which is the empty sequence when there is none.             *)
(*                                                                         *)
(* A tree is its nodes by number, as the code has them by pointer; the     *)
(* first is the root.  A template is inserted as a sequence of symbols: an *)
(* atom of a literal, slashes included, or a parameter.  The key of a node *)
(* is a run of atoms, or one parameter.                                    *)
(***************************************************************************)
EXTENDS Naturals, Sequences, SequencesExt, FiniteSetsExt

CONSTANT None     \* "no handler"

\* A segment of a template.
Literal(name) == [kind |-> "literal", literal |-> name, name |-> "", expr |-> <<>>]
Param(name) == [kind |-> "param", literal |-> <<>>, name |-> name, expr |-> <<>>]
Resource(name, expr) == [kind |-> "resource", literal |-> <<>>, name |-> name, expr |-> expr]

Kinds   == {"literal", "param", "resource"}
Element == Seq(STRING)
Segment == [kind : Kinds, literal : Element, name : STRING, expr : Seq(Element)]

\* Elements of a resource expression that are not literal.
Wildcard == <<"*">>
Multi    == <<"**">>

\* The place of the first element of which something holds, or 0.
First(places) == IF places = {} THEN 0 ELSE Min(places)

Slash == "/"
Drop(s, n) == SubSeq(s, n + 1, Len(s))
SkipSlashes(s) ==
  LET names == {i \in 1..Len(s) : s[i] # Slash}
  IN IF names = {} THEN <<>> ELSE Drop(s, Min(names) - 1)
StripTrailingSlashes(s) ==
  LET names == {i \in 1..Len(s) : s[i] # Slash}
  IN IF names = {} THEN <<>> ELSE SubSeq(s, 1, Max(names))
FirstSegment(s) ==
  LET slashes == {i \in 1..Len(s) : s[i] = Slash}
  IN IF slashes = {} THEN s ELSE SubSeq(s, 1, Min(slashes) - 1)
AtBoundary(s) == s = <<>> \/ Head(s) = Slash

NoParams == <<>>
Bind(params, name, value) ==
  [n \in DOMAIN params \cup {name} |-> IF n = name THEN value ELSE params[n]]
Unbind(params, name) == Restrict(params, DOMAIN params \ {name})

-----------------------------------------------------------------------------
(* Pattern.Match *)

NoMatch == 0 - 1

\* Where a path goes on after one element of an expression, from the at-th
\* atom on, and after the expression: at the end of the path after "**".
AfterElement(element, path, at) ==
  LET rest == SkipSlashes(Drop(path, at))
      here == Len(path) - Len(rest)
  IN
  IF at = NoMatch THEN NoMatch
  ELSE IF element = Wildcard THEN here + Len(FirstSegment(rest))
  ELSE IF IsPrefix(element, rest) /\ AtBoundary(Drop(rest, Len(element)))
  THEN here + Len(element)
  ELSE NoMatch
MatchResourceExpr(expr, path, start) ==
  LET multi == First({i \in DOMAIN expr : expr[i] = Multi})
      last == IF multi = 0 THEN Len(expr) ELSE multi - 1
      after[i \in 0..last] == IF i = 0 THEN start ELSE AfterElement(expr[i], path, after[i - 1])
      end == after[last]
  IN IF multi > 0 /\ end # NoMatch THEN Len(path) ELSE end

\* One segment: what is left of the path, and the bindings; none without a match.
MatchSegment(seg, path, params) ==
  LET rest == SkipSlashes(path)
      taken == CASE seg.kind = "resource" -> MatchResourceExpr(seg.expr, rest, 0)
                 [] seg.kind = "param" ->
                      IF FirstSegment(rest) = <<>> THEN NoMatch ELSE Len(FirstSegment(rest))
                 [] OTHER ->
                      IF IsPrefix(seg.literal, rest) /\ AtBoundary(Drop(rest, Len(seg.literal)))
                      THEN Len(seg.literal) ELSE NoMatch
  IN IF taken = NoMatch THEN {}
     ELSE {<<Drop(rest, taken), IF seg.kind = "literal" THEN params
                                ELSE Bind(params, seg.name, SubSeq(rest, 1, taken))>>}

\* The bindings with which a template matches a path: one or none.
Match(pattern, path) ==
  LET start == SubSeq(path, 1, Len(path) - Len(pattern.verb))
      matched[i \in 0..Len(pattern.segments)] ==
        IF i = 0 THEN {<<start, NoParams>>}
        ELSE UNION {MatchSegment(pattern.segments[i], m[1], m[2]) : m \in matched[i - 1]}
  IN IF ~IsSuffix(pattern.verb, path) THEN {}
     ELSE {m[2] : m \in {m \in matched[Len(pattern.segments)] : SkipSlashes(m[1]) = <<>>}}

-----------------------------------------------------------------------------
(* The tree *)

Symbol(kind, name, expr) == [kind |-> kind, name |-> name, expr |-> expr]
SymbolsOf(seg) ==
  IF seg.kind = "literal"
  THEN [i \in 1..(Len(seg.literal) + 1) |->
          Symbol("literal", IF i = 1 THEN Slash ELSE seg.literal[i - 1], <<>>)]
  ELSE <<Symbol(seg.kind, seg.name, seg.expr)>>
Symbols(segments) ==
  LET upTo[i \in 0..Len(segments)] ==
        IF i = 0 THEN <<>> ELSE upTo[i - 1] \o SymbolsOf(segments[i])
  IN upTo[Len(segments)]

NewNode(key) == [key |-> key, terminals |-> <<>>, children |-> <<>>]
NewRouteTree == <<NewNode(<<>>)>>
Kind(node) == IF node.key = <<>> THEN "literal" ELSE node.key[1].kind

CommonPrefixLen(s, t) ==
  Max({n \in 0..Len(s) : n <= Len(t) /\ \A i \in 1..n : s[i] = t[i]})

\* What insert adds at once: the literal run in front, or a parameter.
Run(symbols) ==
  LET other == First({i \in DOMAIN symbols : symbols[i].kind # "literal"})
  IN IF other = 0 THEN symbols ELSE SubSeq(symbols, 1, IF other = 1 THEN 1 ELSE other - 1)

\* Where a new child goes: literals before the first child of another kind.
Place_AtEnd(tree, children, key) == Len(children) + 1
Place(tree, children, key) ==
  LET others == First({i \in DOMAIN children : Kind(tree[children[i]]) # "literal"})
  IN IF key[1].kind = "literal" /\ others > 0 THEN others ELSE Len(children) + 1

AddChild(tree, at, key) ==
  Append([tree EXCEPT ![at].children = InsertAt(@, Place(tree, @, key), Len(tree) + 1)],
         NewNode(key))

\* The first n symbols of a node stay where it is; a new node below has the rest.
Split(tree, child, n) ==
  LET node == tree[child] IN
  IF n = Len(node.key) THEN tree
  ELSE Append([tree EXCEPT ![child] = [NewNode(SubSeq(node.key, 1, n)) EXCEPT
                                         !.children = <<Len(tree) + 1>>]],
              [node EXCEPT !.key = Drop(@, n)])

\* The child that shares the beginning of what is left, or 0.
Below(tree, at, left) ==
  First({i \in DOMAIN tree[at].children :
           CommonPrefixLen(tree[tree[at].children[i]].key, left) > 0})

\* addLiteralChild, addParamChild and addResourceChild: one node further down.
Descend(w) ==
  LET i == Below(w.tree, w.at, w.left)
      child == w.tree[w.at].children[i]
      n == CommonPrefixLen(w.tree[child].key, w.left)
      key == Run(w.left)
  IN
  IF i = 0
  THEN [tree |-> AddChild(w.tree, w.at, key), at |-> Len(w.tree) + 1,
        left |-> Drop(w.left, Len(key))]
  ELSE [tree |-> Split(w.tree, child, n), at |-> child, left |-> Drop(w.left, n)]

OneDown(w) == IF w.left = <<>> THEN w ELSE Descend(w)

AddTerminal_Always(terminals, verb, handler) ==
  Append(terminals, [verb |-> verb, handler |-> handler])
AddTerminal(terminals, verb, handler) ==
  IF \E i \in DOMAIN terminals : terminals[i].verb = verb THEN terminals
  ELSE Append(terminals, [verb |-> verb, handler |-> handler])

Insert(tree, pattern, handler) ==
  LET symbols == Symbols(pattern.segments)
      walk[n \in 0..Len(symbols)] ==
        IF n = 0 THEN [tree |-> tree, at |-> 1, left |-> symbols] ELSE OneDown(walk[n - 1])
      end == walk[Len(symbols)]
  IN [end.tree EXCEPT ![end.at].terminals = AddTerminal(@, pattern.verb, handler)]

-----------------------------------------------------------------------------
(* lookup, with the calls and deletions that are still to be made *)

Visit(node, path) == [call |-> "lookup", node |-> node, path |-> path, name |-> ""]
Delete(name) == [call |-> "delete", node |-> 0, path |-> <<>>, name |-> name]
VisitChildren(node, path) == [i \in DOMAIN node.children |-> Visit(node.children[i], path)]

Found(terminal, params) == [calls |-> <<>>, handler |-> terminal.handler, params |-> params]

\* matchTerminal: only the verb may be left.
LookupLiteral(node, path, later, params) ==
  LET prefix == [i \in DOMAIN node.key |-> node.key[i].name]
      rest == Drop(path, Len(prefix))
      i == First({j \in DOMAIN node.terminals :
                    StripTrailingSlashes(rest) = node.terminals[j].verb})
      go(calls) == [calls |-> calls \o later, handler |-> None, params |-> params]
  IN IF ~IsPrefix(prefix, path) THEN go(<<>>)
     ELSE IF i > 0 THEN Found(node.terminals[i], params)
     ELSE go(VisitChildren(node, rest))

\* matchParamTerminal and matchResourceTerminal: the verb is a suffix of the
\* value, which is the first taken atoms.
LookupCapture_Forgets(node, path, taken, later, params) ==
  LET name == node.key[1].name
      value == SubSeq(path, 1, taken)
      rest == Drop(path, taken)
      i == First({j \in DOMAIN node.terminals :
                    StripTrailingSlashes(rest) = <<>> /\ IsSuffix(node.terminals[j].verb, value)})
      verb == node.terminals[i].verb
  IN IF i > 0
     THEN Found(node.terminals[i], Bind(params, name, SubSeq(value, 1, Len(value) - Len(verb))))
     ELSE [calls |-> VisitChildren(node, rest) \o later, handler |-> None,
           params |-> Bind(params, name, value)]
LookupCapture(node, path, taken, later, params) ==
  LET name == node.key[1].name
      value == SubSeq(path, 1, taken)
      rest == Drop(path, taken)
      i == First({j \in DOMAIN node.terminals :
                    StripTrailingSlashes(rest) = <<>> /\ IsSuffix(node.terminals[j].verb, value)})
      verb == node.terminals[i].verb
  IN IF i > 0
     THEN Found(node.terminals[i], Bind(params, name, SubSeq(value, 1, Len(value) - Len(verb))))
     ELSE [calls |-> VisitChildren(node, rest) \o <<Delete(name)>> \o later, handler |-> None,
           params |-> Bind(params, name, value)]

\* The next call of routeNode.lookup, or the deletion after those below a node.
LookupStep(tree, w) ==
  LET first == Head(w.calls)
      later == Tail(w.calls)
      node == tree[first.node]
      rest == SkipSlashes(first.path)
      taken == IF Kind(node) = "param" THEN Len(FirstSegment(rest))
               ELSE MatchResourceExpr(node.key[1].expr, rest, 0)
  IN
  IF first.call = "delete" THEN [w EXCEPT !.calls = later, !.params = Unbind(@, first.name)]
  ELSE IF Kind(node) = "literal" THEN LookupLiteral(node, first.path, later, w.params)
  ELSE IF taken = NoMatch \/ (Kind(node) = "param" /\ taken = 0)
  THEN [w EXCEPT !.calls = later]
  ELSE LookupCapture(node, rest, taken, later, w.params)

NextCall(tree, w) == IF w.calls = <<>> THEN w ELSE LookupStep(tree, w)

\* A node is visited once, by the one way that leads to it.
Lookup(tree, path) ==
  LET most == 2 * Len(tree)
      walk[n \in 0..most] ==
        IF n = 0 THEN [calls |-> <<Visit(1, path)>>, handler |-> None, params |-> NoParams]
        ELSE NextCall(tree, walk[n - 1])
      end == walk[most]
  IN [handler |-> end.handler, params |-> end.params]

-----------------------------------------------------------------------------
(* What insert keeps *)

\* The radix tree is well formed: it is a tree, a key is a run of literal
\* atoms or one parameter, no two children of a node begin alike, literals come
\* first, and no verb is there twice (addLiteralChild and its kin, addTerminal).
NodeOK(tree, n) ==
  LET kids == tree[n].children
      Key(i) == tree[kids[i]].key
  IN
  /\ kids \in Seq(2..Len(tree))
  /\ \A i \in DOMAIN kids :
       /\ Key(i) # <<>>
       /\ Len(Key(i)) = 1 \/ \A j \in DOMAIN Key(i) : Key(i)[j].kind = "literal"
       /\ \A j \in DOMAIN kids : i < j =>
            /\ Key(i)[1] # Key(j)[1]
            /\ Key(j)[1].kind = "literal" => Key(i)[1].kind = "literal"
  /\ \A i, j \in DOMAIN tree[n].terminals :
       tree[n].terminals[i].verb = tree[n].terminals[j].verb => i = j

TreeOK(tree) ==
  /\ tree[1].key = <<>>
  /\ \A n \in DOMAIN tree : NodeOK(tree, n)
  /\ \A c \in 2..Len(tree) : \E p \in DOMAIN tree : c \in Range(tree[p].children)
  /\ \A p, q \in DOMAIN tree :
       p # q => Range(tree[p].children) \cap Range(tree[q].children) = {}
===============================================================================
