-------------------------------- MODULE MCMux --------------------------------
(* A small instance of Mux for TLC. *)
EXTENDS Mux

LOCAL a  == <<"a">>
LOCAL ab == <<"a", "b">>
LOCAL ac == <<"a", "c">>
LOCAL b  == <<"b">>
LOCAL v  == <<":v">>

LOCAL Op(method, segments, verb) ==
  [method |-> method, bidi |-> FALSE, segments |-> segments, verb |-> verb,
   interceptors |-> <<>>]

\* Templates that share names, parts of names, verbs and parameters.
MCOperations ==
  [get     |-> Op("GET", <<Literal(ab), Param("x")>>, <<>>),
   getV    |-> Op("GET", <<Literal(ab), Param("x")>>, v),
   twin    |-> Op("GET", <<Literal(ab), Param("y")>>, <<>>),
   deep    |-> Op("GET", <<Literal(ab), Param("y"), Literal(a)>>, <<>>),
   all     |-> Op("GET", <<Resource("r", <<ab, Multi>>)>>, <<>>),
   literal |-> Op("GET", <<Literal(ab), Literal(ac), Param("z")>>, <<>>),
   exact   |-> [Op("GET", <<Literal(ab), Literal(ac)>>, <<>>) EXCEPT !.interceptors = <<"own">>],
   name    |-> [Op("POST", <<Resource("r", <<ac, Wildcard>>), Literal(a)>>, <<>>)
                  EXCEPT !.bidi = TRUE],
   post    |-> Op("POST", <<Literal(ac), Param("x")>>, v),
   some    |-> Op("GET", <<Param("x")>>, <<>>),
   bad     |-> Op("GET", <<Param("")>>, <<>>),
   late    |-> Op("GET", <<Param("x"), Literal(a)>>, <<>>),
   short   |-> Op("GET", <<Literal(a), Param("x")>>, <<>>)]

MCInterceptors == <<"mux">>

MCServices ==
  [plain  |-> [prefix |-> <<>>, operations |-> <<"get">>],
   verb   |-> [prefix |-> <<>>, operations |-> <<"getV">>],
   deeper |-> [prefix |-> <<>>, operations |-> <<"all", "deep">>],
   first  |-> [prefix |-> <<>>, operations |-> <<"literal", "exact", "twin">>],
   other  |-> [prefix |-> <<>>, operations |-> <<"name", "post">>],
   below  |-> [prefix |-> <<Literal(b)>>, operations |-> <<"some", "bad", "late">>]]

\* A literal before a parameter that other names begin with.
MCShortService == [plain |-> [prefix |-> <<>>, operations |-> <<"short">>]]

LOCAL Join(names) == FlattenSeq([i \in DOMAIN names |-> <<Slash>> \o names[i]])

\* The paths of up to three segments, below b or not, with a slash behind or
\* repeated in front, with a verb and no name before it, and with a name that
\* goes on behind a literal.
MCPaths ==
  LET Names == {a, ab, ac, a \o v}
      Up(n) == {Join(names) : names \in UNION {[1..k -> Names] : k \in 1..n}}
  IN Up(3) \cup {Join(<<b>>) \o p : p \in Up(2)}
           \cup {p \o <<Slash>> : p \in Up(2)}
           \cup {<<Slash>> \o p : p \in Up(2)}
           \cup {p \o <<Slash>> \o v : p \in Up(2)}
           \cup {Join(<<ab \o a>>), Join(<<ab \o a, a>>)}
===============================================================================
