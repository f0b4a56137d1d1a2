------------------------------- MODULE MuxProofs -------------------------------
(***************************************************************************)
(* What registration makes of the route trees and of the interceptors, for *)
(* every set of operations and services.                                   *)
(***************************************************************************)
EXTENDS Mux, Induction, SequenceTheorems

\* What a template is spelled with: a slash, an atom of a name, or a parameter.
Letters == [kind : Kinds, name : STRING \cup {Slash}, expr : Seq(Element)]
Words == Seq(Letters)

Handlers ==
  [operation : Ids, pattern : [segments : Seq(Segment), verb : Element],
   interceptors : Seq(STRING)]
Terminals == Seq([verb : Element, handler : Handlers])
Nodes == [key : Words, terminals : Terminals, children : Seq(Nat)]

-----------------------------------------------------------------------------
(* Prefixes *)

\* One sequence, and then another.
Join(s, t) == s \o t

\* One sequence begins another.
Begins(s, t) == Len(s) <= Len(t) /\ \A i \in 1..Len(s) : s[i] = t[i]

LEMMA BeginsSelf ==
  ASSUME NEW s \in Words
  PROVE  Begins(s, s)
<1>1. Len(s) \in Nat
  BY DEF Words
<1> QED
  BY <1>1 DEF Begins

LEMMA BeginsTrans ==
  ASSUME NEW s \in Words, NEW t \in Words, NEW u \in Words, Begins(s, t), Begins(t, u)
  PROVE  Begins(s, u)
<1>1. Len(s) \in Nat /\ Len(t) \in Nat /\ Len(u) \in Nat
  BY DEF Words
<1>2. \A i \in 1..Len(s) : i \in 1..Len(t)
  BY <1>1 DEF Begins
<1> QED
  BY <1>1, <1>2 DEF Begins

\* Of two sequences that begin a third, the shorter begins the longer.
LEMMA BeginsBoth ==
  ASSUME NEW s \in Words, NEW t \in Words, NEW u \in Words, Begins(s, u), Begins(t, u),
         Len(s) <= Len(t)
  PROVE  Begins(s, t)
<1>1. Len(s) \in Nat /\ Len(t) \in Nat /\ Len(u) \in Nat
  BY DEF Words
<1>2. \A i \in 1..Len(s) : i \in 1..Len(t)
  BY <1>1
<1> QED
  BY <1>1, <1>2 DEF Begins

LEMMA BeginsEqual ==
  ASSUME NEW s \in Words, NEW t \in Words, Begins(s, t), Len(t) <= Len(s)
  PROVE  s = t
<1>1. Len(s) \in Nat /\ Len(t) \in Nat
  BY DEF Words
<1>2. Len(s) = Len(t) /\ \A i \in 1..Len(s) : s[i] = t[i]
  BY <1>1 DEF Begins
<1> QED
  BY <1>2, SeqEqual DEF Words

\* What is appended to a sequence begins where the sequence ends.
LEMMA Appended ==
  ASSUME NEW s \in Words, NEW t \in Words
  PROVE  /\ Join(s, t) \in Words /\ Len(Join(s, t)) = Len(s) + Len(t)
         /\ Begins(s, Join(s, t))
         /\ \A i \in 1..Len(t) : Join(s, t)[Len(s) + i] = t[i]
<1>1. Len(s) \in Nat /\ Len(t) \in Nat
  BY DEF Words
<1>2. /\ Join(s, t) \in Words /\ Len(Join(s, t)) = Len(s) + Len(t)
      /\ \A i \in 1..(Len(s) + Len(t)) :
           Join(s, t)[i] = IF i <= Len(s) THEN s[i] ELSE t[i - Len(s)]
  BY ConcatProperties DEF Words, Join
<1>3. Begins(s, Join(s, t))
  BY <1>1, <1>2 DEF Begins
<1>4. ASSUME NEW i \in 1..Len(t) PROVE Join(s, t)[Len(s) + i] = t[i]
  <2>1. Len(s) + i \in 1..(Len(s) + Len(t)) /\ ~(Len(s) + i <= Len(s))
        /\ (Len(s) + i) - Len(s) = i
    BY <1>1
  <2> QED
    BY <1>2, <2>1
<1> QED
  BY <1>2, <1>3, <1>4

\* Where a sequence that begins with another and with a first symbol parts from
\* it, and what is left after a number of symbols.
LEMMA BeginsAppended ==
  ASSUME NEW s \in Words, NEW t \in Words, NEW u \in Words, t # <<>>, Begins(Join(s, t), u)
  PROVE  /\ Begins(s, u) /\ Len(s) < Len(u) /\ u[Len(s) + 1] = t[1]
<1>1. Len(s) \in Nat /\ Len(t) \in Nat \ {0} /\ Len(u) \in Nat
  BY EmptySeq DEF Words
<1>2. /\ Join(s, t) \in Words /\ Len(Join(s, t)) = Len(s) + Len(t)
      /\ Begins(s, Join(s, t))
      /\ \A i \in 1..Len(t) : Join(s, t)[Len(s) + i] = t[i]
  BY Appended
<1>3. Begins(s, u)
  BY <1>2, BeginsTrans
<1>4. 1 \in 1..Len(t) /\ Len(s) + 1 \in 1..Len(Join(s, t))
  BY <1>1, <1>2
<1>5. Join(s, t)[Len(s) + 1] = t[1] /\ u[Len(s) + 1] = Join(s, t)[Len(s) + 1]
  BY <1>2, <1>4 DEF Begins
<1> QED
  BY <1>1, <1>2, <1>3, <1>5 DEF Begins

LEMMA CancelRight ==
  ASSUME NEW s \in Words, NEW t \in Words, NEW u \in Words, Join(s, u) = Join(t, u)
  PROVE  s = t
<1>1. Len(s) \in Nat /\ Len(t) \in Nat /\ Len(u) \in Nat
  BY DEF Words
<1>2. Len(Join(s, u)) = Len(s) + Len(u) /\ Begins(s, Join(s, u))
  BY Appended
<1>3. Len(Join(t, u)) = Len(t) + Len(u) /\ Begins(t, Join(t, u))
  BY Appended
<1>4. Len(s) = Len(t)
  BY <1>1, <1>2, <1>3
<1>5. \A i \in 1..Len(s) : s[i] = t[i]
  BY <1>2, <1>3, <1>4 DEF Begins
<1> QED
  BY <1>4, <1>5, SeqEqual DEF Words

\* A sequence in two parts.
LEMMA Parts ==
  ASSUME NEW X, NEW s \in Seq(X), NEW n \in 0..Len(s)
  PROVE  /\ SubSeq(s, 1, n) \in Seq(X) /\ Drop(s, n) \in Seq(X)
         /\ Len(SubSeq(s, 1, n)) = n /\ Len(Drop(s, n)) = Len(s) - n
         /\ \A i \in 1..n : SubSeq(s, 1, n)[i] = s[i]
         /\ \A i \in 1..(Len(s) - n) : Drop(s, n)[i] = s[n + i]
         /\ Join(SubSeq(s, 1, n), Drop(s, n)) = s
<1>1. Len(s) \in Nat /\ n \in Nat /\ \A i \in 1..Len(s) : s[i] \in X
  OBVIOUS
<1>2. /\ SubSeq(s, 1, n) \in Seq(X) /\ Len(SubSeq(s, 1, n)) = n
      /\ \A i \in 1..n : SubSeq(s, 1, n)[i] = s[i]
  <2>1. \A i \in 1..n : s[i] \in X
    BY <1>1
  <2>2. /\ SubSeq(s, 1, n) \in Seq(X)
        /\ Len(SubSeq(s, 1, n)) = IF 1 <= n THEN n - 1 + 1 ELSE 0
        /\ \A i \in 1..(n - 1 + 1) : SubSeq(s, 1, n)[i] = s[1 + i - 1]
    BY <1>1, <2>1, SubSeqProperties
  <2>3. n - 1 + 1 = n /\ \A i \in 1..n : 1 + i - 1 = i
    BY <1>1
  <2> QED
    BY <1>1, <2>2, <2>3
<1>3. /\ Drop(s, n) \in Seq(X) /\ Len(Drop(s, n)) = Len(s) - n
      /\ \A i \in 1..(Len(s) - n) : Drop(s, n)[i] = s[n + i]
  <2>1. \A i \in (n + 1)..Len(s) : s[i] \in X
    BY <1>1
  <2>2. /\ Drop(s, n) \in Seq(X)
        /\ Len(Drop(s, n)) = IF n + 1 <= Len(s) THEN Len(s) - (n + 1) + 1 ELSE 0
        /\ \A i \in 1..(Len(s) - (n + 1) + 1) : Drop(s, n)[i] = s[n + 1 + i - 1]
    BY <1>1, <2>1, SubSeqProperties DEF Drop
  <2>3. Len(s) - (n + 1) + 1 = Len(s) - n /\ \A i \in Nat : n + 1 + i - 1 = n + i
    BY <1>1
  <2>4. Len(Drop(s, n)) = Len(s) - n
    BY <1>1, <2>2
  <2>5. ASSUME NEW i \in 1..(Len(s) - n) PROVE Drop(s, n)[i] = s[n + i]
    <3>1. i \in 1..(Len(s) - (n + 1) + 1) /\ n + 1 + i - 1 = n + i
      BY <1>1
    <3> QED
      BY <2>2, <3>1
  <2> QED
    BY <2>2, <2>4, <2>5
<1>4. Join(SubSeq(s, 1, n), Drop(s, n)) = s
  <2>1. 1 \in 1..(Len(s) + 1) /\ n \in (1 - 1)..Len(s) /\ Len(s) \in n..Len(s)
    BY <1>1
  <2>2. SubSeq(s, 1, n) \o SubSeq(s, n + 1, Len(s)) = SubSeq(s, 1, Len(s))
    BY <2>1, ConcatAdjacentSubSeq
  <2> QED
    BY <2>2, SubSeqFull DEF Drop, Join
<1> QED
  BY <1>2, <1>3, <1>4

-----------------------------------------------------------------------------
(* Trees and the words that their keys spell *)

Kids(tree, p) == Range(tree[p].children)

\* The word of a node is that of its parent and its own key.
Spelled(tree, word) ==
  \A p \in DOMAIN tree : \A c \in Kids(tree, p) : word[c] = Join(word[p], tree[c].key)

Distinct(word) == \A m, n \in DOMAIN word : word[m] = word[n] => m = n

Parented(tree) == \A c \in 2..Len(tree) : \E p \in DOMAIN tree : c \in Kids(tree, p)

\* The way to a longer word leads through a child.
Complete(tree, word) ==
  \A p, n \in DOMAIN tree :
    Begins(word[p], word[n]) /\ p # n => \E c \in Kids(tree, p) : Begins(word[c], word[n])

\* word is what the keys of a radix tree spell from the root on.
Radix(tree, word) ==
  /\ tree \in Seq(Nodes) /\ 1 \in DOMAIN tree /\ tree[1].key = <<>>
  /\ word \in [DOMAIN tree -> Words] /\ word[1] = <<>>
  /\ \A n \in DOMAIN tree : NodeOK(tree, n)
  /\ Spelled(tree, word)
  /\ Distinct(word)
  /\ Parented(tree)
  /\ Complete(tree, word)

\* A tree holds a handler for a word and a verb.
Holds(tree, word, w, verb, handler) ==
  \E n \in DOMAIN tree : \E i \in DOMAIN tree[n].terminals :
    word[n] = w /\ tree[n].terminals[i] = [verb |-> verb, handler |-> handler]

LEMMA NodeTypes ==
  ASSUME NEW tree \in Seq(Nodes), NEW n \in DOMAIN tree
  PROVE  /\ Len(tree) \in Nat /\ DOMAIN tree = 1..Len(tree) /\ tree[n] \in Nodes
         /\ tree[n].key \in Words /\ tree[n].terminals \in Terminals
         /\ tree[n].children \in Seq(Nat)
<1>1. Len(tree) \in Nat /\ DOMAIN tree = 1..Len(tree) /\ tree[n] \in Nodes
  OBVIOUS
<1> QED
  BY <1>1 DEF Nodes

\* A key: a run of literal atoms, or one symbol.
OneKind(key) == Len(key) = 1 \/ \A j \in DOMAIN key : key[j].kind = "literal"

\* The children of a node by their number: nodes, with keys that begin
\* differently.
LEMMA KidsOK ==
  ASSUME NEW tree \in Seq(Nodes), NEW p \in DOMAIN tree, NodeOK(tree, p)
  PROVE  /\ \A c \in Kids(tree, p) :
              /\ c \in DOMAIN tree /\ c \in 2..Len(tree)
              /\ tree[c].key \in Words /\ tree[c].key # <<>> /\ tree[c].key[1] \in Letters
              /\ OneKind(tree[c].key)
         /\ \A c, d \in Kids(tree, p) : tree[c].key[1] = tree[d].key[1] => c = d
<1> DEFINE kids == tree[p].children
<1>1. /\ kids \in Seq(2..Len(tree))
      /\ \A i \in DOMAIN kids :
           /\ tree[kids[i]].key # <<>>
           /\ Len(tree[kids[i]].key) = 1
              \/ \A j \in DOMAIN tree[kids[i]].key : tree[kids[i]].key[j].kind = "literal"
           /\ \A j \in DOMAIN kids : i < j => tree[kids[i]].key[1] # tree[kids[j]].key[1]
  BY DEF NodeOK
<1>2. DOMAIN tree = 1..Len(tree) /\ Len(tree) \in Nat /\ DOMAIN kids = 1..Len(kids)
      /\ Len(kids) \in Nat
  BY <1>1
<1>3. \A c \in Kids(tree, p) : \E i \in DOMAIN kids : c = kids[i]
  BY DEF Kids, Range
<1> HIDE DEF kids
<1>4. ASSUME NEW c \in Kids(tree, p)
      PROVE  /\ c \in DOMAIN tree /\ c \in 2..Len(tree)
             /\ tree[c].key \in Words /\ tree[c].key # <<>> /\ tree[c].key[1] \in Letters
             /\ OneKind(tree[c].key)
  <2>1. PICK i \in DOMAIN kids : c = kids[i]
    BY <1>3
  <2>2. c \in 2..Len(tree)
    BY <1>1, <1>2, <2>1
  <2>3. c \in DOMAIN tree
    BY <1>2, <2>2
  <2>4. tree[c].key \in Words /\ tree[c].key # <<>>
    BY <1>1, <2>1, <2>3, NodeTypes
  <2>5. tree[c].key[1] \in Letters
    BY <2>4, EmptySeq DEF Words
  <2> QED
    BY <1>1, <2>1, <2>2, <2>3, <2>4, <2>5 DEF OneKind
<1>5. ASSUME NEW c \in Kids(tree, p), NEW d \in Kids(tree, p),
             tree[c].key[1] = tree[d].key[1]
      PROVE  c = d
  <2>1. PICK i \in DOMAIN kids : c = kids[i]
    BY <1>3
  <2>2. PICK j \in DOMAIN kids : d = kids[j]
    BY <1>3
  <2>3. ~(i < j) /\ ~(j < i)
    BY <1>1, <1>5, <2>1, <2>2
  <2>4. i = j
    BY <1>2, <2>3
  <2> QED
    BY <2>1, <2>2, <2>4
<1> QED
  BY <1>4, <1>5

\* The word of a child goes on with its key.
LEMMA ChildWord ==
  ASSUME NEW tree, NEW word, Radix(tree, word), NEW p \in DOMAIN tree, NEW c \in Kids(tree, p)
  PROVE  /\ c \in DOMAIN tree /\ word[p] \in Words /\ word[c] \in Words
         /\ tree[c].key \in Words /\ tree[c].key # <<>>
         /\ word[c] = Join(word[p], tree[c].key)
<1>1. tree \in Seq(Nodes) /\ NodeOK(tree, p) /\ word \in [DOMAIN tree -> Words]
  BY DEF Radix
<1>2. c \in DOMAIN tree /\ tree[c].key \in Words /\ tree[c].key # <<>>
  BY <1>1, KidsOK
<1>3. word[c] = Join(word[p], tree[c].key)
  BY DEF Radix, Spelled
<1> QED
  BY <1>1, <1>2, <1>3

LEMMA ChildLength ==
  ASSUME NEW tree, NEW word, Radix(tree, word), NEW p \in DOMAIN tree, NEW c \in Kids(tree, p)
  PROVE  /\ Len(tree[c].key) \in Nat \ {0} /\ Len(word[p]) \in Nat
         /\ Len(word[c]) = Len(word[p]) + Len(tree[c].key)
         /\ Begins(word[p], word[c])
         /\ word[c][Len(word[p]) + 1] = tree[c].key[1]
<1> DEFINE s == word[p]
           t == tree[c].key
<1>1. s \in Words /\ t \in Words /\ t # <<>> /\ word[c] = Join(s, t)
  BY ChildWord
<1> HIDE DEF s, t
<1>2. Len(t) \in Nat \ {0} /\ Len(s) \in Nat
  BY ONLY <1>1, EmptySeq DEF Words
<1>3. /\ Len(Join(s, t)) = Len(s) + Len(t) /\ Begins(s, Join(s, t))
      /\ \A i \in 1..Len(t) : Join(s, t)[Len(s) + i] = t[i]
  BY ONLY <1>1, Appended
<1>4. 1 \in 1..Len(t)
  BY ONLY <1>2
<1> QED
  BY <1>1, <1>2, <1>3, <1>4 DEF s, t

LEMMA NotOwnKid ==
  ASSUME NEW tree, NEW word, Radix(tree, word), NEW p \in DOMAIN tree, NEW c \in Kids(tree, p)
  PROVE  c # p
<1>1. /\ word[p] \in Words /\ word[c] \in Words /\ tree[c].key \in Words /\ tree[c].key # <<>>
      /\ word[c] = Join(word[p], tree[c].key)
  BY ChildWord
<1>2. Begins(word[c], word[c])
  BY <1>1, BeginsSelf
<1>3. Len(word[p]) < Len(word[c])
  BY <1>1, <1>2, BeginsAppended
<1>4. Len(word[p]) \in Nat
  BY <1>1 DEF Words
<1> QED
  BY <1>3, <1>4

\* A node is the child of one node.
LEMMA OneParent ==
  ASSUME NEW tree, NEW word, Radix(tree, word),
         NEW p \in DOMAIN tree, NEW q \in DOMAIN tree, NEW c \in Kids(tree, p), c \in Kids(tree, q)
  PROVE  p = q
<1>1. word[c] = Join(word[p], tree[c].key) /\ word[p] \in Words /\ tree[c].key \in Words
  BY ChildWord
<1>2. word[c] = Join(word[q], tree[c].key) /\ word[q] \in Words
  BY ChildWord
<1>3. word[p] = word[q]
  BY <1>1, <1>2, CancelRight
<1>4. DOMAIN word = DOMAIN tree
  BY DEF Radix
<1> QED
  BY <1>4, <1>3 DEF Radix, Distinct

\* A node whose children keep the beginnings of their keys stays well formed.
LEMMA KeptOrder ==
  ASSUME NEW tree \in Seq(Nodes), NEW n \in DOMAIN tree, NodeOK(tree, n),
         NEW new, NEW b, Len(new) \in Nat, Len(tree) <= Len(new),
         new[b].children = tree[n].children, new[b].terminals = tree[n].terminals,
         \A c \in Kids(tree, n) :
           new[c].key # <<>> /\ OneKind(new[c].key) /\ new[c].key[1] = tree[c].key[1]
  PROVE  NodeOK(new, b)
<1> DEFINE kids == tree[n].children
           K(i) == tree[kids[i]].key
           A(i) == new[kids[i]].key
<1>1. kids \in Seq(2..Len(tree))
  BY DEF NodeOK
<1>2. \A i, j \in DOMAIN kids : i < j =>
        /\ K(i)[1] # K(j)[1]
        /\ K(j)[1].kind = "literal" => K(i)[1].kind = "literal"
  BY DEF NodeOK
<1>3. \A i, j \in DOMAIN tree[n].terminals :
        tree[n].terminals[i].verb = tree[n].terminals[j].verb => i = j
  BY DEF NodeOK
<1>4. kids \in Seq(2..Len(new))
  <2>1. 2..Len(tree) \subseteq 2..Len(new)
    OBVIOUS
  <2> QED
    BY <1>1, <2>1, SeqMonotonic
<1>5. \A i \in DOMAIN kids : kids[i] \in Kids(tree, n)
  BY DEF Kids, Range
<1>6. \A i \in DOMAIN kids : A(i) # <<>> /\ OneKind(A(i)) /\ A(i)[1] = K(i)[1]
  BY <1>5
<1>7. new[b].children = kids
  OBVIOUS
<1> HIDE DEF kids, K, A
<1>8. \A i \in DOMAIN kids :
        /\ A(i) # <<>>
        /\ Len(A(i)) = 1 \/ \A j \in DOMAIN A(i) : A(i)[j].kind = "literal"
        /\ \A j \in DOMAIN kids : i < j =>
             /\ A(i)[1] # A(j)[1]
             /\ A(j)[1].kind = "literal" => A(i)[1].kind = "literal"
  BY <1>2, <1>6 DEF OneKind
<1> QED
  BY <1>3, <1>4, <1>7, <1>8 DEF NodeOK, A

\* The child that begins with the next symbol is the one on the way.
LEMMA NextChild ==
  ASSUME NEW tree, NEW word, Radix(tree, word), NEW p \in DOMAIN tree, NEW c \in Kids(tree, p),
         NEW n \in DOMAIN tree, Begins(word[p], word[n]), Len(word[p]) < Len(word[n]),
         tree[c].key[1] = word[n][Len(word[p]) + 1]
  PROVE  Begins(word[c], word[n])
<1>1. p # n
  <2>1. Len(word[p]) \in Nat
    BY ChildLength
  <2> QED
    BY <2>1
<1>2. PICK d \in Kids(tree, p) : Begins(word[d], word[n])
  BY <1>1 DEF Radix, Complete
<1>3. word[d] = Join(word[p], tree[d].key) /\ word[p] \in Words /\ tree[d].key \in Words
      /\ tree[d].key # <<>>
  BY <1>2, ChildWord
<1>4. word[n] \in Words
  BY DEF Radix
<1>5. word[n][Len(word[p]) + 1] = tree[d].key[1]
  BY <1>2, <1>3, <1>4, BeginsAppended
<1>6. c = d
  BY <1>5, KidsOK DEF Radix
<1> QED
  BY <1>2, <1>6

-----------------------------------------------------------------------------
(* Sequences that grow *)

LEMMA Elements ==
  ASSUME NEW X, NEW Y, NEW s \in Seq(X), \A i \in 1..Len(s) : s[i] \in Y
  PROVE  s \in Seq(Y)
<1>1. Len(s) \in Nat /\ s \in [1..Len(s) -> X]
  BY LenProperties
<1>2. s \in [1..Len(s) -> Y]
  BY <1>1
<1> QED
  BY <1>1, <1>2

LEMMA FirstPlace ==
  ASSUME NEW n \in Nat, NEW places \in SUBSET (1..n)
  PROVE  \/ First(places) = 0 /\ places = {}
         \/ First(places) \in places /\ \A i \in places : First(places) <= i
<1>1. CASE places = {}
  BY <1>1 DEF First
<1>2. CASE places # {}
  <2>1. places \in SUBSET Nat
    OBVIOUS
  <2>2. \E x \in places : \A y \in places : x <= y
    BY <1>2, <2>1, LeastElement
  <2> QED
    BY <1>2, <2>2 DEF First, Min
<1> QED
  BY <1>1, <1>2

\* A sequence is another with one more element at the i-th place.
OneMore(s, i, e, t) ==
  /\ Len(t) = Len(s) + 1
  /\ \A j \in 1..(Len(s) + 1) : t[j] = IF j < i THEN s[j] ELSE IF j = i THEN e ELSE s[j - 1]

LEMMA Inserted ==
  ASSUME NEW X, NEW s \in Seq(X), NEW i \in 1..(Len(s) + 1), NEW e \in X
  PROVE  InsertAt(s, i, e) \in Seq(X) /\ OneMore(s, i, e, InsertAt(s, i, e))
<1> DEFINE a == SubSeq(s, 1, i - 1)
           b == SubSeq(s, i, Len(s))
           ae == a \o <<e>>
<1>1. Len(s) \in Nat /\ i \in Nat /\ i - 1 \in 0..Len(s) /\ \A j \in 1..Len(s) : s[j] \in X
  OBVIOUS
<1>2. /\ a \in Seq(X) /\ Len(a) = i - 1 /\ \A j \in 1..(i - 1) : a[j] = s[j]
      /\ b \in Seq(X) /\ Len(b) = Len(s) - (i - 1)
      /\ \A j \in 1..(Len(s) - (i - 1)) : b[j] = s[(i - 1) + j]
  <2>1. (i - 1) + 1 = i
    BY <1>1
  <2>2. Drop(s, i - 1) = b
    BY <2>1 DEF Drop
  <2> QED
    BY <1>1, <2>2, Parts
<1>3. <<e>> \in Seq(X) /\ Len(<<e>>) = 1 /\ <<e>>[1] = e
  OBVIOUS
<1> HIDE DEF a, b
<1>4. /\ ae \in Seq(X) /\ Len(ae) = i
      /\ \A j \in 1..i : ae[j] = IF j <= i - 1 THEN a[j] ELSE <<e>>[j - (i - 1)]
  <2>1. /\ ae \in Seq(X) /\ Len(ae) = Len(a) + Len(<<e>>)
        /\ \A j \in 1..(Len(a) + Len(<<e>>)) :
             ae[j] = IF j <= Len(a) THEN a[j] ELSE <<e>>[j - Len(a)]
    BY <1>2, <1>3, ConcatProperties
  <2>2. Len(a) + Len(<<e>>) = i
    BY <1>1, <1>2, <1>3
  <2> QED
    BY <1>2, <2>1, <2>2
<1>5. \A j \in 1..i : ae[j] = IF j < i THEN s[j] ELSE e
  <2> SUFFICES ASSUME NEW j \in 1..i PROVE ae[j] = IF j < i THEN s[j] ELSE e
    OBVIOUS
  <2>1. CASE j < i
    <3>1. j \in 1..(i - 1) /\ j <= i - 1
      BY <1>1, <2>1
    <3> QED
      BY <1>2, <1>4, <2>1, <3>1
  <2>2. CASE j = i
    <3>1. ~(j <= i - 1) /\ j - (i - 1) = 1 /\ ~(j < i)
      BY <1>1, <2>2
    <3> QED
      BY <1>3, <1>4, <3>1
  <2>3. j < i \/ j = i
    BY <1>1
  <2> QED
    BY <2>1, <2>2, <2>3
<1> HIDE DEF ae
<1>6. /\ ae \o b \in Seq(X) /\ Len(ae \o b) = Len(s) + 1
      /\ \A j \in 1..(Len(s) + 1) : (ae \o b)[j] = IF j <= i THEN ae[j] ELSE b[j - i]
  <2>1. /\ ae \o b \in Seq(X) /\ Len(ae \o b) = Len(ae) + Len(b)
        /\ \A j \in 1..(Len(ae) + Len(b)) :
             (ae \o b)[j] = IF j <= Len(ae) THEN ae[j] ELSE b[j - Len(ae)]
    BY <1>2, <1>4, ConcatProperties
  <2>2. Len(ae) + Len(b) = Len(s) + 1
    BY <1>1, <1>2, <1>4
  <2> QED
    BY <1>4, <2>1, <2>2
<1>7. \A j \in 1..(Len(s) + 1) :
        (ae \o b)[j] = IF j < i THEN s[j] ELSE IF j = i THEN e ELSE s[j - 1]
  <2> SUFFICES ASSUME NEW j \in 1..(Len(s) + 1)
               PROVE (ae \o b)[j] = IF j < i THEN s[j] ELSE IF j = i THEN e ELSE s[j - 1]
    OBVIOUS
  <2>1. CASE j <= i
    <3>1. j \in 1..i
      BY <1>1, <2>1
    <3>2. (ae \o b)[j] = IF j < i THEN s[j] ELSE e
      BY <1>5, <1>6, <2>1, <3>1
    <3>3. j < i \/ j = i
      BY <1>1, <2>1
    <3> QED
      BY <1>1, <3>2, <3>3
  <2>2. CASE ~(j <= i)
    <3>1. j - i \in 1..(Len(s) - (i - 1)) /\ (i - 1) + (j - i) = j - 1 /\ ~(j < i) /\ j # i
      BY <1>1, <2>2
    <3>2. (ae \o b)[j] = b[j - i] /\ b[j - i] = s[(i - 1) + (j - i)]
      BY <1>2, <1>6, <2>2, <3>1
    <3> QED
      BY <3>1, <3>2
  <2> QED
    BY <2>1, <2>2
<1>8. InsertAt(s, i, e) = ae \o b
  BY DEF InsertAt, ae, a, b
<1> QED
  BY <1>6, <1>7, <1>8 DEF OneMore

LEMMA OneMoreRange ==
  ASSUME NEW s \in Seq(Nat), NEW i \in 1..(Len(s) + 1), NEW e \in Nat, NEW t \in Seq(Nat),
         OneMore(s, i, e, t)
  PROVE  Range(t) = Range(s) \cup {e}
<1>1. /\ Len(t) = Len(s) + 1
      /\ \A j \in 1..(Len(s) + 1) : t[j] = IF j < i THEN s[j] ELSE IF j = i THEN e ELSE s[j - 1]
  BY DEF OneMore
<1>2. Len(s) \in Nat /\ DOMAIN s = 1..Len(s) /\ DOMAIN t = 1..(Len(s) + 1)
  BY <1>1
<1>3. ASSUME NEW j \in DOMAIN t PROVE t[j] \in Range(s) \cup {e}
  <2>1. j < i \/ j = i \/ j > i
    BY <1>2
  <2>2. CASE j < i
    <3>1. j \in DOMAIN s
      BY <1>2, <2>2
    <3> QED
      BY <1>1, <1>2, <2>2, <3>1 DEF Range
  <2>3. CASE j = i
    BY <1>1, <1>2, <2>3
  <2>4. CASE j > i
    <3>1. j - 1 \in DOMAIN s /\ ~(j < i) /\ j # i
      BY <1>2, <2>4
    <3> QED
      BY <1>1, <1>2, <3>1 DEF Range
  <2> QED
    BY <2>1, <2>2, <2>3, <2>4
<1>4. ASSUME NEW j \in DOMAIN s PROVE s[j] \in Range(t)
  <2>1. CASE j < i
    <3>1. j \in DOMAIN t
      BY <1>2
    <3> QED
      BY <1>1, <1>2, <2>1, <3>1 DEF Range
  <2>2. CASE ~(j < i)
    <3>1. j + 1 \in DOMAIN t /\ ~(j + 1 < i) /\ j + 1 # i /\ (j + 1) - 1 = j
      BY <1>2, <2>2
    <3>2. t[j + 1] = s[j]
      BY <1>1, <1>2, <3>1
    <3> QED
      BY <3>1, <3>2 DEF Range
  <2> QED
    BY <2>1, <2>2
<1>5. e \in Range(t)
  <2>1. i \in DOMAIN t /\ t[i] = e
    BY <1>1, <1>2
  <2> QED
    BY <2>1 DEF Range
<1>6. Range(t) \subseteq Range(s) \cup {e} /\ Range(s) \subseteq Range(t)
  BY <1>3, <1>4 DEF Range
<1> QED
  BY <1>5, <1>6

-----------------------------------------------------------------------------
(* A new child *)

\* new is tree with a new node, which has the key k and is a child of q.
Added(tree, q, k, new) ==
  /\ new \in Seq(Nodes) /\ Len(new) = Len(tree) + 1
  /\ new[Len(tree) + 1] = NewNode(k)
  /\ \A n \in DOMAIN tree :
       /\ new[n].key = tree[n].key /\ new[n].terminals = tree[n].terminals
       /\ n # q => new[n].children = tree[n].children
  /\ new[q].children \in Seq(Nat)
  /\ OneMore(tree[q].children, Place(tree, tree[q].children, k), Len(tree) + 1, new[q].children)

\* Literals go before the first child of another kind, other children last.
LEMMA PlaceOK ==
  ASSUME NEW tree \in Seq(Nodes), NEW q \in DOMAIN tree, NodeOK(tree, q), NEW k \in Words
  PROVE  /\ Place(tree, tree[q].children, k) \in 1..(Len(tree[q].children) + 1)
         /\ \A i \in DOMAIN tree[q].children :
              /\ i < Place(tree, tree[q].children, k) /\ k[1].kind = "literal" =>
                   tree[tree[q].children[i]].key[1].kind = "literal"
              /\ i >= Place(tree, tree[q].children, k) =>
                   /\ k[1].kind = "literal"
                   /\ tree[tree[q].children[i]].key[1].kind # "literal"
<1> DEFINE kids == tree[q].children
           K(i) == tree[kids[i]].key[1].kind
           others == {i \in DOMAIN kids : Kind(tree[kids[i]]) # "literal"}
           r == Place(tree, kids, k)
<1>1. kids \in Seq(Nat) /\ Len(kids) \in Nat /\ DOMAIN kids = 1..Len(kids)
  BY NodeTypes
<1>2. \A i \in DOMAIN kids : tree[kids[i]].key # <<>>
  BY DEF NodeOK
<1>3. \A i, j \in DOMAIN kids : i < j /\ K(j) = "literal" => K(i) = "literal"
  BY DEF NodeOK
<1>4. \A i \in DOMAIN kids : Kind(tree[kids[i]]) = K(i)
  BY <1>2 DEF Kind
<1>5. r = IF k[1].kind = "literal" /\ First(others) > 0 THEN First(others) ELSE Len(kids) + 1
  BY DEF Place
<1>6. others = {i \in DOMAIN kids : K(i) # "literal"}
  BY <1>4
<1> HIDE DEF kids, K, others, r
<1>7. \/ First(others) = 0 /\ others = {}
      \/ First(others) \in others /\ \A i \in others : First(others) <= i
  BY <1>1, <1>6, FirstPlace
<1>8. r \in 1..(Len(kids) + 1)
  BY <1>1, <1>5, <1>6, <1>7
<1>9. ASSUME NEW i \in DOMAIN kids, i < r, k[1].kind = "literal" PROVE K(i) = "literal"
  <2>1. CASE others = {}
    BY <1>6, <2>1
  <2>2. CASE others # {}
    <3>1. First(others) \in others /\ \A j \in others : First(others) <= j
      BY <1>7, <2>2
    <3>2. First(others) \in Nat \ {0}
      BY <1>1, <1>6, <3>1
    <3>3. r = First(others)
      BY <1>5, <1>9, <3>2
    <3>4. i \notin others
      BY <1>1, <1>9, <3>1, <3>2, <3>3
    <3> QED
      BY <1>6, <3>4
  <2> QED
    BY <2>1, <2>2
<1>10. ASSUME NEW i \in DOMAIN kids, i >= r PROVE k[1].kind = "literal" /\ K(i) # "literal"
  <2>1. k[1].kind = "literal" /\ First(others) > 0
    BY <1>1, <1>5, <1>10
  <2>2. r = First(others) /\ r \in others
    BY <1>5, <1>7, <2>1
  <2>3. r \in DOMAIN kids /\ K(r) # "literal"
    BY <1>6, <2>2
  <2>4. r = i \/ r < i
    BY <1>1, <1>8, <1>10
  <2> QED
    BY <1>3, <2>1, <2>3, <2>4
<1>11. \A i \in DOMAIN kids :
         /\ i < r /\ k[1].kind = "literal" => K(i) = "literal"
         /\ i >= r => k[1].kind = "literal" /\ K(i) # "literal"
  BY <1>9, <1>10
<1> QED
  BY <1>8, <1>11 DEF kids, K, r

LEMMA AddChildAdds ==
  ASSUME NEW tree \in Seq(Nodes), NEW q \in DOMAIN tree, NodeOK(tree, q), NEW k \in Words
  PROVE  Added(tree, q, k, AddChild(tree, q, k))
<1> DEFINE N == Len(tree) + 1
           kids == tree[q].children
           r == Place(tree, kids, k)
           t == InsertAt(kids, r, N)
           node == [tree[q] EXCEPT !.children = t]
           changed == [tree EXCEPT ![q].children = t]
<1>1. Len(tree) \in Nat /\ DOMAIN tree = 1..Len(tree) /\ N \in Nat
  OBVIOUS
<1>2. tree[q] \in Nodes /\ kids \in Seq(Nat)
  BY NodeTypes
<1>3. r \in 1..(Len(kids) + 1)
  BY PlaceOK
<1>4. t \in Seq(Nat) /\ OneMore(kids, r, N, t)
  <2> HIDE DEF kids, r, N
  <2> QED
    BY <1>1, <1>2, <1>3, Inserted
<1>5. AddChild(tree, q, k) = Append(changed, NewNode(k))
  BY DEF AddChild
<1> HIDE DEF t
<1>6. node \in Nodes /\ node.key = tree[q].key /\ node.terminals = tree[q].terminals
      /\ node.children = t
  BY <1>2, <1>4 DEF Nodes
<1>7. changed = [tree EXCEPT ![q] = node]
  OBVIOUS
<1> HIDE DEF node, changed
<1>8. /\ changed \in Seq(Nodes) /\ Len(changed) = Len(tree)
      /\ \A n \in 1..Len(tree) : changed[n] = IF n = q THEN node ELSE tree[n]
  BY <1>1, <1>6, <1>7, ExceptSeq
<1>9. NewNode(k) \in Nodes
  BY DEF NewNode, Nodes, Terminals
<1> DEFINE new == Append(changed, NewNode(k))
<1>10. /\ new \in Seq(Nodes) /\ Len(new) = Len(tree) + 1
       /\ \A n \in 1..Len(tree) : new[n] = changed[n]
       /\ new[Len(tree) + 1] = NewNode(k)
  BY <1>8, <1>9, AppendProperties
<1> HIDE DEF new
<1>11. \A n \in DOMAIN tree : new[n] = IF n = q THEN node ELSE tree[n]
  BY <1>1, <1>8, <1>10
<1>12. new[q] = node
  BY <1>11
<1>13. \A n \in DOMAIN tree :
         /\ new[n].key = tree[n].key /\ new[n].terminals = tree[n].terminals
         /\ n # q => new[n].children = tree[n].children
  BY <1>6, <1>11
<1>14. new[q].children = t
  BY <1>6, <1>12
<1>15. Added(tree, q, k, new)
  BY <1>4, <1>10, <1>13, <1>14 DEF Added
<1> QED
  BY <1>5, <1>15 DEF new

LEMMA AddedKids ==
  ASSUME NEW tree \in Seq(Nodes), NEW q \in DOMAIN tree, NodeOK(tree, q), NEW k \in Words,
         NEW new, Added(tree, q, k, new)
  PROVE  /\ DOMAIN new = DOMAIN tree \cup {Len(tree) + 1} /\ Len(tree) + 1 \notin DOMAIN tree
         /\ \A n \in DOMAIN tree : n # q => Kids(new, n) = Kids(tree, n)
         /\ Kids(new, q) = Kids(tree, q) \cup {Len(tree) + 1}
         /\ Kids(new, Len(tree) + 1) = {}
<1>1. Len(tree) \in Nat /\ DOMAIN tree = 1..Len(tree)
  OBVIOUS
<1>2. new \in Seq(Nodes) /\ Len(new) = Len(tree) + 1
  BY DEF Added
<1>3. DOMAIN new = 1..(Len(tree) + 1)
  BY <1>1, <1>2
<1>4. DOMAIN new = DOMAIN tree \cup {Len(tree) + 1} /\ Len(tree) + 1 \notin DOMAIN tree
  BY <1>1, <1>3
<1>5. \A n \in DOMAIN tree : n # q => Kids(new, n) = Kids(tree, n)
  BY DEF Added, Kids
<1>6. Kids(new, q) = Kids(tree, q) \cup {Len(tree) + 1}
  <2> DEFINE kids == tree[q].children
             r == Place(tree, kids, k)
             t == new[q].children
  <2>1. kids \in Seq(Nat) /\ r \in 1..(Len(kids) + 1)
    BY NodeTypes, PlaceOK
  <2>2. t \in Seq(Nat) /\ OneMore(kids, r, Len(tree) + 1, t)
    BY DEF Added
  <2>3. Len(tree) + 1 \in Nat
    BY <1>1
  <2> DEFINE N == Len(tree) + 1
  <2> HIDE DEF kids, r, t, N
  <2>4. /\ kids \in Seq(Nat) /\ r \in 1..(Len(kids) + 1) /\ N \in Nat /\ t \in Seq(Nat)
        /\ OneMore(kids, r, N, t)
    BY <2>1, <2>2, <2>3 DEF N
  <2>5. Range(t) = Range(kids) \cup {N}
    BY ONLY <2>4, OneMoreRange
  <2> QED
    BY <2>5 DEF Kids, kids, t, N
<1>7. Kids(new, Len(tree) + 1) = {}
  BY DEF Added, Kids, NewNode, Range
<1> QED
  BY <1>4, <1>5, <1>6, <1>7

\* The nodes stay in order.
LEMMA AddedNodes ==
  ASSUME NEW tree \in Seq(Nodes), NEW q \in DOMAIN tree, \A n \in DOMAIN tree : NodeOK(tree, n),
         NEW k \in Words, k # <<>>,
         \A c \in Kids(tree, q) : tree[c].key[1] # k[1],
         OneKind(k),
         NEW new, Added(tree, q, k, new)
  PROVE  \A n \in DOMAIN new : NodeOK(new, n)
<1> DEFINE N == Len(tree) + 1
<1>1. /\ Len(tree) \in Nat /\ DOMAIN tree = 1..Len(tree)
      /\ DOMAIN new = DOMAIN tree \cup {N} /\ N \notin DOMAIN tree
  <2>1. NodeOK(tree, q)
    OBVIOUS
  <2>2. DOMAIN new = DOMAIN tree \cup {Len(tree) + 1} /\ Len(tree) + 1 \notin DOMAIN tree
    BY <2>1, AddedKids
  <2> QED
    BY <2>2
<1>2. /\ new \in Seq(Nodes) /\ Len(new) = N /\ new[N] = NewNode(k)
      /\ \A n \in DOMAIN tree :
           /\ new[n].key = tree[n].key /\ new[n].terminals = tree[n].terminals
           /\ n # q => new[n].children = tree[n].children
  BY DEF Added
<1>3. new[N].key = k /\ new[N].terminals = <<>> /\ new[N].children = <<>>
  BY <1>2 DEF NewNode
<1> HIDE DEF N
<1>4. NodeOK(new, N)
  <2>1. <<>> \in Seq(2..Len(new)) /\ DOMAIN <<>> = {}
    OBVIOUS
  <2> QED
    BY <1>3, <2>1 DEF NodeOK
<1>5. ASSUME NEW n \in DOMAIN tree, n # q PROVE NodeOK(new, n)
  <2>1. new[n].children = tree[n].children /\ new[n].terminals = tree[n].terminals
    BY <1>2, <1>5
  <2>2. \A c \in Kids(tree, n) : c \in DOMAIN tree /\ tree[c].key # <<>> /\ OneKind(tree[c].key)
    BY KidsOK
  <2>3. \A c \in Kids(tree, n) :
          new[c].key # <<>> /\ OneKind(new[c].key) /\ new[c].key[1] = tree[c].key[1]
    BY <1>2, <2>2
  <2>4. Len(new) \in Nat /\ Len(tree) <= Len(new)
    BY <1>1, <1>2 DEF N
  <2> QED
    BY <2>1, <2>3, <2>4, KeptOrder
<1>6. NodeOK(new, q)
  <2> DEFINE kids == tree[q].children
             all == new[q].children
             r == Place(tree, kids, k)
             K(i) == tree[kids[i]].key
             A(i) == new[all[i]].key
  <2>1. kids \in Seq(2..Len(tree))
    BY DEF NodeOK
  <2>2. \A i \in DOMAIN kids :
          /\ K(i) # <<>>
          /\ Len(K(i)) = 1 \/ \A j \in DOMAIN K(i) : K(i)[j].kind = "literal"
    BY DEF NodeOK
  <2>3. \A i, j \in DOMAIN kids : i < j =>
          /\ K(i)[1] # K(j)[1]
          /\ K(j)[1].kind = "literal" => K(i)[1].kind = "literal"
    BY DEF NodeOK
  <2>4. \A i, j \in DOMAIN new[q].terminals :
          new[q].terminals[i].verb = new[q].terminals[j].verb => i = j
    <3>1. \A i, j \in DOMAIN tree[q].terminals :
            tree[q].terminals[i].verb = tree[q].terminals[j].verb => i = j
      BY DEF NodeOK
    <3>2. new[q].terminals = tree[q].terminals
      BY <1>2
    <3> QED
      BY <3>1, <3>2
  <2>5. r \in 1..(Len(kids) + 1)
    BY PlaceOK
  <2>6. \A i \in DOMAIN kids :
          /\ i < r /\ k[1].kind = "literal" => K(i)[1].kind = "literal"
          /\ i >= r => k[1].kind = "literal" /\ K(i)[1].kind # "literal"
    BY PlaceOK
  <2>7. /\ all \in Seq(Nat) /\ Len(all) = Len(kids) + 1
        /\ \A j \in 1..(Len(kids) + 1) :
             all[j] = IF j < r THEN kids[j] ELSE IF j = r THEN N ELSE kids[j - 1]
    BY DEF Added, OneMore, N
  <2>8. \A i \in DOMAIN kids : K(i)[1] # k[1]
    BY DEF Kids, Range
  <2>9. Len(kids) \in Nat /\ DOMAIN kids = 1..Len(kids) /\ DOMAIN all = 1..(Len(kids) + 1)
    BY <2>1, <2>7
  <2>10. \A i \in DOMAIN kids : kids[i] \in DOMAIN tree /\ kids[i] \in 2..Len(tree)
                                /\ new[kids[i]].key = K(i)
    BY <1>1, <1>2, <2>1
  <2> HIDE DEF kids, all, r
  <2>11. ASSUME NEW j \in DOMAIN all
         PROVE  \/ j < r /\ j \in DOMAIN kids /\ all[j] = kids[j] /\ A(j) = K(j)
                \/ j = r /\ all[j] = N /\ A(j) = k
                \/ j > r /\ j - 1 \in DOMAIN kids /\ all[j] = kids[j - 1] /\ A(j) = K(j - 1)
    <3>1. CASE j < r
      <4>1. j \in DOMAIN kids /\ all[j] = kids[j]
        BY <2>5, <2>7, <2>9, <3>1
      <4> QED
        BY <2>10, <3>1, <4>1
    <3>2. CASE j = r
      <4>1. all[j] = N
        BY <2>5, <2>7, <2>9, <3>2
      <4> QED
        BY <1>3, <3>2, <4>1
    <3>3. CASE j > r
      <4>1. j - 1 \in DOMAIN kids /\ ~(j < r) /\ j # r
        BY <2>5, <2>9, <3>3
      <4>2. all[j] = kids[j - 1]
        BY <2>7, <2>9, <4>1
      <4> QED
        BY <2>10, <3>3, <4>1, <4>2
    <3>4. j < r \/ j = r \/ j > r
      BY <2>5, <2>9
    <3> QED
      BY <3>1, <3>2, <3>3, <3>4
  <2> HIDE DEF K, A
  <2>12. all \in Seq(2..Len(new))
    <3>1. \A j \in 1..Len(all) : all[j] \in 2..Len(new)
      <4>1. N \in 2..Len(new) /\ \A x \in 2..Len(tree) : x \in 2..Len(new)
        <5>1. 1 \in DOMAIN tree
          BY <1>1
        <5> QED
          BY <1>1, <1>2, <5>1 DEF N
      <4> QED
        BY <2>7, <2>9, <2>10, <2>11, <4>1
    <3> QED
      BY <2>7, <3>1, Elements
  <2>13. ASSUME NEW i \in DOMAIN all
         PROVE  A(i) # <<>> /\ (Len(A(i)) = 1 \/ \A j \in DOMAIN A(i) : A(i)[j].kind = "literal")
    <3>1. A(i) = k \/ \E j \in DOMAIN kids : A(i) = K(j)
      BY <2>11
    <3> QED
      BY <2>2, <3>1 DEF OneKind
  <2>14. ASSUME NEW i \in DOMAIN all, NEW j \in DOMAIN all, i < j
         PROVE  /\ A(i)[1] # A(j)[1]
                /\ A(j)[1].kind = "literal" => A(i)[1].kind = "literal"
    <3>1. i \in Int /\ j \in Int /\ r \in Int
      BY <2>5, <2>9
    <3>2. CASE j < r
      <4>1. i < r
        BY <2>14, <3>1, <3>2
      <4>2. i \in DOMAIN kids /\ A(i) = K(i) /\ j \in DOMAIN kids /\ A(j) = K(j)
        BY <2>11, <3>1, <3>2, <4>1
      <4> QED
        BY <2>3, <2>14, <4>2
    <3>3. CASE j = r
      <4>1. i < r
        BY <2>14, <3>1, <3>3
      <4>2. i \in DOMAIN kids /\ A(i) = K(i) /\ A(j) = k
        BY <2>11, <3>1, <3>3, <4>1
      <4> QED
        BY <2>6, <2>8, <4>1, <4>2
    <3>4. CASE j > r
      <4>1. j - 1 \in DOMAIN kids /\ A(j) = K(j - 1)
        BY <2>11, <3>1, <3>4
      <4>2. CASE i < r
        <5>1. i \in DOMAIN kids /\ A(i) = K(i) /\ i < j - 1
          BY <2>11, <3>1, <3>4, <4>2
        <5> QED
          BY <2>3, <4>1, <5>1
      <4>3. CASE i = r
        <5>1. A(i) = k /\ j - 1 >= r
          BY <2>11, <3>1, <3>4, <4>3
        <5> QED
          BY <2>6, <2>8, <4>1, <5>1
      <4>4. CASE i > r
        <5>1. i - 1 \in DOMAIN kids /\ A(i) = K(i - 1) /\ i - 1 < j - 1
          BY <2>11, <2>14, <3>1, <4>4
        <5> QED
          BY <2>3, <4>1, <5>1
      <4> QED
        BY <3>1, <4>2, <4>3, <4>4
    <3> QED
      BY <3>1, <3>2, <3>3, <3>4
  <2> QED
    BY <2>4, <2>12, <2>13, <2>14 DEF NodeOK, all, A
<1> QED
  BY <1>1, <1>4, <1>5, <1>6

\* No node goes on where no child does.
LEMMA NoNode ==
  ASSUME NEW tree, NEW word, Radix(tree, word), NEW q \in DOMAIN tree, NEW n \in DOMAIN tree,
         Begins(word[q], word[n]), Len(word[q]) < Len(word[n]),
         \A c \in Kids(tree, q) : tree[c].key[1] # word[n][Len(word[q]) + 1]
  PROVE  FALSE
<1>1. word[q] \in Words /\ word[n] \in Words
  BY DEF Radix
<1>2. Len(word[q]) \in Nat
  BY <1>1 DEF Words
<1>3. q # n
  BY <1>2
<1>4. PICK c \in Kids(tree, q) : Begins(word[c], word[n])
  BY <1>3 DEF Radix, Complete
<1>5. word[c] = Join(word[q], tree[c].key) /\ tree[c].key \in Words /\ tree[c].key # <<>>
  BY ChildWord
<1>6. word[n][Len(word[q]) + 1] = tree[c].key[1]
  BY <1>1, <1>4, <1>5, BeginsAppended
<1> QED
  BY <1>6

\* Two trees hold the same.
SameContent(tree, word, new, next) ==
  \A w, verb, handler : Holds(new, next, w, verb, handler) <=> Holds(tree, word, w, verb, handler)

LEMMA AddedRadix ==
  ASSUME NEW tree, NEW word, Radix(tree, word), NEW q \in DOMAIN tree,
         NEW k \in Words, k # <<>>,
         \A c \in Kids(tree, q) : tree[c].key[1] # k[1],
         OneKind(k),
         NEW new, Added(tree, q, k, new),
         NEW next \in [DOMAIN new -> Words],
         \A n \in DOMAIN tree : next[n] = word[n],
         next[Len(tree) + 1] = Join(word[q], k)
  PROVE  Radix(new, next) /\ SameContent(tree, word, new, next)
<1> DEFINE N == Len(tree) + 1
<1>1. /\ tree \in Seq(Nodes) /\ 1 \in DOMAIN tree /\ tree[1].key = <<>>
      /\ word \in [DOMAIN tree -> Words] /\ word[1] = <<>>
      /\ \A n \in DOMAIN tree : NodeOK(tree, n)
  BY DEF Radix
<1>2. /\ DOMAIN new = DOMAIN tree \cup {N} /\ N \notin DOMAIN tree
      /\ \A n \in DOMAIN tree : n # q => Kids(new, n) = Kids(tree, n)
      /\ Kids(new, q) = Kids(tree, q) \cup {N}
      /\ Kids(new, N) = {}
  BY <1>1, AddedKids
<1>3. /\ new \in Seq(Nodes) /\ Len(new) = N /\ Len(tree) \in Nat /\ new[N] = NewNode(k)
      /\ \A n \in DOMAIN tree : new[n].key = tree[n].key /\ new[n].terminals = tree[n].terminals
  BY <1>1 DEF Added
<1>4. new[N].key = k /\ new[N].terminals = <<>>
  BY <1>3 DEF NewNode
<1>5. next[N] = Join(word[q], k)
  OBVIOUS
<1> HIDE DEF N
<1>6. \A n \in DOMAIN new : NodeOK(new, n)
  BY <1>1, AddedNodes
<1>7. \A p \in DOMAIN tree : \A c \in Kids(tree, p) : c \in DOMAIN tree /\ c # N
  BY <1>2, ChildWord
<1>8. Spelled(new, next)
  <2> SUFFICES ASSUME NEW p \in DOMAIN new, NEW c \in Kids(new, p)
               PROVE  next[c] = Join(next[p], new[c].key)
    BY DEF Spelled
  <2>1. p \in DOMAIN tree
    BY <1>2
  <2>2. CASE p = q /\ c = N
    BY <1>4, <1>5, <2>1, <2>2
  <2>3. CASE ~(p = q /\ c = N)
    <3>1. c \in Kids(tree, p)
      BY <1>2, <2>1, <2>3
    <3>2. word[c] = Join(word[p], tree[c].key) /\ c \in DOMAIN tree
      BY <2>1, <3>1, ChildWord
    <3>3. next[c] = word[c] /\ next[p] = word[p] /\ new[c].key = tree[c].key
      BY <1>3, <2>1, <3>2
    <3> QED
      BY <3>2, <3>3
  <2> QED
    BY <2>2, <2>3
<1>9. word[q] \in Words /\ Begins(word[q], next[N]) /\ Len(word[q]) < Len(next[N])
      /\ next[N][Len(word[q]) + 1] = k[1] /\ next[N] \in Words
      /\ \A u \in Words : Begins(next[N], u) =>
           Begins(word[q], u) /\ Len(word[q]) < Len(u) /\ u[Len(word[q]) + 1] = k[1]
  <2>1. word[q] \in Words
    BY <1>1
  <2>2. next[N] \in Words
    BY <1>5, <2>1, Appended
  <2>3. \A u \in Words : Begins(next[N], u) =>
           Begins(word[q], u) /\ Len(word[q]) < Len(u) /\ u[Len(word[q]) + 1] = k[1]
    BY <1>5, <2>1, BeginsAppended
  <2>4. Begins(next[N], next[N])
    <3>1. Len(next[N]) \in Nat
      BY <2>2 DEF Words
    <3> QED
      BY <3>1 DEF Begins
  <2> QED
    BY <2>1, <2>2, <2>3, <2>4
<1>10. \A n \in DOMAIN tree : ~Begins(next[N], word[n])
  <2> SUFFICES ASSUME NEW n \in DOMAIN tree, Begins(next[N], word[n]) PROVE FALSE
    OBVIOUS
  <2>1. word[n] \in Words
    BY <1>1
  <2>2. Begins(word[q], word[n]) /\ Len(word[q]) < Len(word[n])
        /\ word[n][Len(word[q]) + 1] = k[1]
    BY <1>9, <2>1
  <2>3. \A c \in Kids(tree, q) : tree[c].key[1] # word[n][Len(word[q]) + 1]
    BY <2>2
  <2> QED
    BY <2>2, <2>3, NoNode
<1>11. \A n \in DOMAIN tree : next[n] = word[n] /\ next[n] # next[N]
  <2> SUFFICES ASSUME NEW n \in DOMAIN tree, word[n] = next[N] PROVE FALSE
    OBVIOUS
  <2>1. Len(next[N]) \in Nat
    BY <1>9 DEF Words
  <2>2. Begins(next[N], word[n])
    BY <2>1 DEF Begins
  <2> QED
    BY <1>10, <2>2
<1>12. Distinct(next)
  <2> SUFFICES ASSUME NEW m \in DOMAIN new, NEW n \in DOMAIN new, next[m] = next[n] PROVE m = n
    BY DEF Distinct
  <2>1. CASE m \in DOMAIN tree /\ n \in DOMAIN tree
    <3>1. word[m] = word[n] /\ DOMAIN word = DOMAIN tree
      BY <1>1, <1>11, <2>1
    <3> QED
      BY <2>1, <3>1 DEF Radix, Distinct
  <2> QED
    BY <1>2, <1>11, <2>1
<1>13. Parented(new)
  <2> SUFFICES ASSUME NEW c \in 2..Len(new) PROVE \E p \in DOMAIN new : c \in Kids(new, p)
    BY DEF Parented
  <2>1. CASE c = N
    BY <1>2, <2>1
  <2>2. CASE c # N
    <3>1. c \in 2..Len(tree)
      BY <1>3, <2>2 DEF N
    <3>2. PICK p \in DOMAIN tree : c \in Kids(tree, p)
      BY <3>1 DEF Radix, Parented
    <3> QED
      BY <1>2, <3>2
  <2> QED
    BY <2>1, <2>2
<1>14. \A p, n \in DOMAIN tree : Begins(word[p], word[n]) /\ p # n =>
         \E c \in Kids(tree, p) : Begins(word[c], word[n])
  BY DEF Radix, Complete
<1>15. Complete(new, next)
  <2> SUFFICES ASSUME NEW p \in DOMAIN new, NEW n \in DOMAIN new, Begins(next[p], next[n]), p # n
               PROVE  \E c \in Kids(new, p) : Begins(next[c], next[n])
    BY DEF Complete
  <2>1. CASE p \in DOMAIN tree /\ n \in DOMAIN tree
    <3>1. Begins(word[p], word[n])
      BY <2>1
    <3>2. PICK c \in Kids(tree, p) : Begins(word[c], word[n])
      BY <1>14, <2>1, <3>1
    <3>3. next[c] = word[c] /\ next[n] = word[n] /\ c \in Kids(new, p)
      BY <1>2, <1>7, <2>1
    <3> QED
      BY <3>2, <3>3
  <2>2. CASE p = N /\ n \in DOMAIN tree
    BY <1>10, <1>11, <2>2
  <2>3. CASE p \in DOMAIN tree /\ n = N
    <3>1. word[p] \in Words /\ Begins(word[p], next[N])
      BY <1>1, <2>3
    <3>2. CASE p = q
      <4>1. Begins(next[N], next[N])
        <5>1. Len(next[N]) \in Nat
          BY <1>9 DEF Words
        <5> QED
          BY <5>1 DEF Begins
      <4> QED
        BY <1>2, <2>3, <3>2, <4>1
    <3>3. CASE p # q /\ Len(word[p]) <= Len(word[q])
      <4>1. Begins(word[p], word[q])
        BY <1>9, <3>1, <3>3, BeginsBoth
      <4>2. PICK c \in Kids(tree, p) : Begins(word[c], word[q])
        BY <1>14, <2>3, <3>3, <4>1
      <4>3. next[c] = word[c] /\ word[c] \in Words /\ c \in Kids(new, p)
        BY <1>1, <1>2, <1>7, <2>3
      <4>4. Begins(word[c], next[N])
        BY <1>9, <4>2, <4>3, BeginsTrans
      <4> QED
        BY <2>3, <4>3, <4>4
    <3>4. CASE ~(Len(word[p]) <= Len(word[q]))
      <4>1. Len(word[p]) \in Nat /\ Len(word[q]) \in Nat
        BY <1>9, <3>1 DEF Words
      <4>2. Len(word[q]) < Len(word[p]) /\ Len(word[q]) <= Len(word[p])
        BY <3>4, <4>1
      <4>3. Begins(word[q], word[p])
        BY <1>9, <3>1, <4>2, BeginsBoth
      <4>4. Len(word[q]) + 1 \in 1..Len(word[p])
        BY <4>1, <4>2
      <4>5. word[p][Len(word[q]) + 1] = next[N][Len(word[q]) + 1]
        BY <3>1, <4>4 DEF Begins
      <4>6. word[p][Len(word[q]) + 1] = k[1]
        BY <1>9, <4>5
      <4>7. \A c \in Kids(tree, q) : tree[c].key[1] # word[p][Len(word[q]) + 1]
        BY <4>6
      <4> QED
        BY <2>3, <4>2, <4>3, <4>7, NoNode
    <3> QED
      BY <3>2, <3>3, <3>4
  <2> QED
    BY <1>2, <2>1, <2>2, <2>3
<1>16. SameContent(tree, word, new, next)
  <2>1. \A n \in DOMAIN tree : next[n] = word[n] /\ new[n].terminals = tree[n].terminals
    BY <1>3, <1>11
  <2>2. DOMAIN new[N].terminals = {}
    BY <1>4
  <2> QED
    BY <1>2, <2>1, <2>2 DEF SameContent, Holds
<1>17. new[1].key = <<>> /\ next[1] = <<>> /\ 1 \in DOMAIN new
  BY <1>1, <1>2, <1>3
<1> QED
  BY <1>3, <1>6, <1>8, <1>12, <1>13, <1>15, <1>16, <1>17 DEF Radix

-----------------------------------------------------------------------------
(* A key in two *)

\* new is tree with the key of c cut after m symbols: a new node has the rest
\* of the key and what was below.
Cut(tree, c, m, new) ==
  /\ new \in Seq(Nodes) /\ Len(new) = Len(tree) + 1
  /\ \A n \in DOMAIN tree : n # c => new[n] = tree[n]
  /\ new[c].key = SubSeq(tree[c].key, 1, m)
  /\ new[c].terminals = <<>> /\ new[c].children = <<Len(tree) + 1>>
  /\ new[Len(tree) + 1].key = Drop(tree[c].key, m)
  /\ new[Len(tree) + 1].terminals = tree[c].terminals
  /\ new[Len(tree) + 1].children = tree[c].children

LEMMA SplitCuts ==
  ASSUME NEW tree \in Seq(Nodes), NEW c \in DOMAIN tree, NEW m \in 1..Len(tree[c].key),
         m # Len(tree[c].key)
  PROVE  Cut(tree, c, m, Split(tree, c, m))
<1> DEFINE N == Len(tree) + 1
           node == tree[c]
           top == [NewNode(SubSeq(node.key, 1, m)) EXCEPT !.children = <<N>>]
           rest == [node EXCEPT !.key = Drop(@, m)]
           changed == [tree EXCEPT ![c] = top]
           new == Append(changed, rest)
<1>1. Len(tree) \in Nat /\ DOMAIN tree = 1..Len(tree) /\ N \in Nat
  OBVIOUS
<1>2. node \in Nodes /\ node.key \in Words /\ node.terminals \in Terminals
      /\ node.children \in Seq(Nat)
  BY NodeTypes
<1>3. SubSeq(node.key, 1, m) \in Words /\ Drop(node.key, m) \in Words
  <2>1. m \in 0..Len(node.key)
    OBVIOUS
  <2> HIDE DEF node
  <2> QED
    BY <1>2, <2>1, Parts DEF Words
<1>4. Split(tree, c, m) = new
  BY DEF Split
<1> HIDE DEF N
<1>5. /\ top \in Nodes /\ top.key = SubSeq(node.key, 1, m) /\ top.terminals = <<>>
      /\ top.children = <<N>>
  <2> DEFINE a == SubSeq(node.key, 1, m)
  <2>1. a \in Words
    BY <1>3
  <2>4. \A x : [NewNode(x) EXCEPT !.children = <<N>>]
               = [key |-> x, terminals |-> <<>>, children |-> <<N>>]
    BY DEF NewNode
  <2>2. top = [key |-> a, terminals |-> <<>>, children |-> <<N>>]
    BY <2>4
  <2> HIDE DEF a, top
  <2>3. <<>> \in Terminals /\ <<N>> \in Seq(Nat)
    BY <1>1 DEF Terminals
  <2> QED
    BY <2>1, <2>2, <2>3 DEF Nodes, a
<1>6. /\ rest \in Nodes /\ rest.key = Drop(node.key, m) /\ rest.terminals = node.terminals
      /\ rest.children = node.children
  BY <1>2, <1>3 DEF Nodes
<1> HIDE DEF top, rest, node
<1>7. /\ changed \in Seq(Nodes) /\ Len(changed) = Len(tree)
      /\ \A n \in 1..Len(tree) : changed[n] = IF n = c THEN top ELSE tree[n]
  BY <1>1, <1>5, ExceptSeq
<1> HIDE DEF changed
<1>8. /\ new \in Seq(Nodes) /\ Len(new) = Len(tree) + 1
      /\ \A n \in 1..Len(tree) : new[n] = changed[n]
      /\ new[Len(tree) + 1] = rest
  BY <1>6, <1>7, AppendProperties
<1> HIDE DEF new
<1>9. new[c] = top /\ \A n \in DOMAIN tree : n # c => new[n] = tree[n]
  BY <1>1, <1>7, <1>8
<1>10. new[N] = rest
  BY <1>8 DEF N
<1>11. /\ new[c].key = SubSeq(tree[c].key, 1, m)
       /\ new[c].terminals = <<>> /\ new[c].children = <<Len(tree) + 1>>
  BY <1>5, <1>9 DEF node, N
<1>12. /\ new[Len(tree) + 1].key = Drop(tree[c].key, m)
       /\ new[Len(tree) + 1].terminals = tree[c].terminals
       /\ new[Len(tree) + 1].children = tree[c].children
  BY <1>6, <1>10 DEF node, N
<1>13. Cut(tree, c, m, new)
  BY <1>8, <1>9, <1>11, <1>12 DEF Cut
<1> QED
  BY <1>4, <1>13

LEMMA CutKids ==
  ASSUME NEW tree \in Seq(Nodes), NEW c \in DOMAIN tree, NEW m \in Nat, NEW new,
         Cut(tree, c, m, new), NEW N, N = Len(tree) + 1
  PROVE  /\ \A n \in DOMAIN tree : n # c => Kids(new, n) = Kids(tree, n)
         /\ Kids(new, c) = {N}
         /\ Kids(new, N) = Kids(tree, c)
<1>1. \A n \in DOMAIN tree : n # c => Kids(new, n) = Kids(tree, n)
  BY DEF Cut, Kids
<1>2. Kids(new, c) = {N}
  <2>1. new[c].children = <<N>>
    BY DEF Cut
  <2> QED
    BY <2>1 DEF Kids, Range
<1>3. Kids(new, N) = Kids(tree, c)
  BY DEF Cut, Kids
<1> QED
  BY <1>1, <1>2, <1>3

\* Both parts of a key are one, and the first begins as the key does.
LEMMA KeyParts ==
  ASSUME NEW key \in Words, OneKind(key), NEW m \in 1..Len(key), m # Len(key)
  PROVE  /\ SubSeq(key, 1, m) \in Words /\ SubSeq(key, 1, m) # <<>>
         /\ OneKind(SubSeq(key, 1, m)) /\ SubSeq(key, 1, m)[1] = key[1]
         /\ Drop(key, m) \in Words /\ Drop(key, m) # <<>> /\ OneKind(Drop(key, m))
         /\ Join(SubSeq(key, 1, m), Drop(key, m)) = key
<1> DEFINE a == SubSeq(key, 1, m)
           b == Drop(key, m)
<1>1. Len(key) \in Nat /\ m \in 0..Len(key) /\ m < Len(key) /\ Len(key) # 1
  BY DEF Words
<1>2. /\ a \in Words /\ b \in Words /\ Len(a) = m /\ Len(b) = Len(key) - m
      /\ \A i \in 1..m : a[i] = key[i]
      /\ \A i \in 1..(Len(key) - m) : b[i] = key[m + i]
      /\ Join(a, b) = key
  BY <1>1, Parts DEF Words
<1> HIDE DEF a, b
<1>3. \A j \in 1..Len(key) : key[j].kind = "literal"
  BY <1>1 DEF OneKind, Words
<1>4. DOMAIN a = 1..m /\ DOMAIN b = 1..(Len(key) - m)
  BY <1>2 DEF Words
<1>5. OneKind(a)
  BY <1>1, <1>2, <1>3, <1>4 DEF OneKind
<1>6. OneKind(b)
  <2>1. \A i \in 1..(Len(key) - m) : m + i \in 1..Len(key)
    BY <1>1
  <2> QED
    BY <1>2, <1>3, <1>4, <2>1 DEF OneKind
<1>7. a # <<>> /\ b # <<>> /\ 1 \in 1..m
  BY <1>1, <1>2
<1> QED
  BY <1>2, <1>5, <1>6, <1>7 DEF a, b

\* What a cut does to the words: c keeps a part of its word, which is no node's,
\* and whatever begins with this part begins with the whole.
LEMMA CutWords ==
  ASSUME NEW tree, NEW word, Radix(tree, word), NEW p \in DOMAIN tree, NEW c \in Kids(tree, p),
         NEW m \in 1..Len(tree[c].key), m # Len(tree[c].key),
         NEW u, u = Join(word[p], SubSeq(tree[c].key, 1, m))
  PROVE  /\ u \in Words /\ Join(u, Drop(tree[c].key, m)) = word[c]
         /\ Begins(u, word[c]) /\ ~Begins(word[c], u)
         /\ \A n \in DOMAIN tree : Begins(u, word[n]) => Begins(word[c], word[n])
         /\ \A n \in DOMAIN tree : word[n] # u
<1> DEFINE key == tree[c].key
           a == SubSeq(key, 1, m)
           b == Drop(key, m)
           s == word[p]
           w == word[c]
<1>1. /\ s \in Words /\ w \in Words /\ key \in Words /\ key # <<>> /\ w = Join(s, key)
      /\ c \in DOMAIN tree
  BY ChildWord
<1>2. OneKind(key)
  BY KidsOK DEF Radix
<1>3. m \in 1..Len(key) /\ m # Len(key) /\ u = Join(s, a)
  OBVIOUS
<1> HIDE DEF key, s, w
<1>4. a \in Words /\ a # <<>> /\ a[1] = key[1] /\ b \in Words /\ b # <<>> /\ Join(a, b) = key
  BY <1>1, <1>2, <1>3, KeyParts
<1> HIDE DEF a, b
<1>5. u \in Words
  BY <1>1, <1>3, <1>4, Appended
<1>6. Join(u, b) = w
  <2>1. s \in Seq(Letters) /\ a \in Seq(Letters) /\ b \in Seq(Letters)
    BY <1>1, <1>4 DEF Words
  <2>2. (s \o a) \o b = s \o (a \o b)
    BY ONLY <2>1, ConcatAssociative
  <2> QED
    BY ONLY <1>1, <1>3, <1>4, <2>2, Zenon DEF Join
<1>7. Begins(u, w) /\ Len(w) = Len(u) + Len(b)
  BY <1>4, <1>5, <1>6, Appended
<1>8. Len(u) \in Nat /\ Len(w) \in Nat /\ Len(b) \in Nat \ {0}
  BY <1>1, <1>4, <1>5, EmptySeq DEF Words
<1>9. ~Begins(w, u)
  BY <1>7, <1>8 DEF Begins
<1>10. ASSUME NEW n \in DOMAIN tree, Begins(u, word[n]) PROVE Begins(w, word[n])
  <2>1. word[n] \in Words
    BY DEF Radix
  <2>2. Begins(s, word[n]) /\ Len(s) < Len(word[n]) /\ word[n][Len(s) + 1] = a[1]
    BY <1>1, <1>3, <1>4, <1>10, <2>1, BeginsAppended
  <2>3. tree[c].key[1] = word[n][Len(word[p]) + 1]
    BY <1>4, <2>2 DEF key, s
  <2> QED
    BY <2>2, <2>3, NextChild DEF s, w
<1>11. ASSUME NEW n \in DOMAIN tree, word[n] = u PROVE FALSE
  <2>1. Begins(u, word[n])
    BY <1>5, <1>11, BeginsSelf
  <2> QED
    BY <1>9, <1>10, <1>11, <2>1
<1> QED
  BY <1>5, <1>6, <1>7, <1>9, <1>10, <1>11 DEF w, b, key

LEMMA CutNodes ==
  ASSUME NEW tree \in Seq(Nodes), \A n \in DOMAIN tree : NodeOK(tree, n),
         NEW p \in DOMAIN tree, NEW c \in Kids(tree, p),
         NEW m \in 1..Len(tree[c].key), m # Len(tree[c].key),
         NEW new, Cut(tree, c, m, new)
  PROVE  \A n \in DOMAIN new : NodeOK(new, n)
<1> DEFINE N == Len(tree) + 1
<1>1. c \in DOMAIN tree /\ tree[c].key \in Words /\ OneKind(tree[c].key) /\ m \in Nat
  <2>1. c \in DOMAIN tree /\ tree[c].key \in Words /\ OneKind(tree[c].key)
    BY KidsOK
  <2> QED
    BY <2>1
<1>2. /\ DOMAIN new = DOMAIN tree \cup {N} /\ N \notin DOMAIN tree
      /\ \A n \in DOMAIN tree : n # c => Kids(new, n) = Kids(tree, n)
      /\ Kids(new, c) = {N} /\ Kids(new, N) = Kids(tree, c)
  <2>1. N = Len(tree) + 1
    OBVIOUS
  <2> HIDE DEF N
  <2>2. c \in DOMAIN tree /\ m \in Nat /\ Cut(tree, c, m, new) /\ tree \in Seq(Nodes)
    BY <1>1
  <2>3. DOMAIN new = 1..N /\ Len(tree) \in Nat /\ DOMAIN tree = 1..Len(tree)
    BY <2>1, <2>2 DEF Cut
  <2>6. DOMAIN new = DOMAIN tree \cup {N} /\ N \notin DOMAIN tree
    BY <2>1, <2>3
  <2>4. \A n \in DOMAIN tree : n # c => Kids(new, n) = Kids(tree, n)
    BY ONLY <2>1, <2>2, CutKids
  <2>5. Kids(new, c) = {N} /\ Kids(new, N) = Kids(tree, c)
    BY ONLY <2>1, <2>2, CutKids
  <2> QED
    BY <2>4, <2>5, <2>6
<1>3. /\ new \in Seq(Nodes) /\ Len(new) = N
      /\ \A n \in DOMAIN tree : n # c => new[n] = tree[n]
      /\ new[c].key = SubSeq(tree[c].key, 1, m)
      /\ new[c].terminals = <<>> /\ new[c].children = <<N>>
      /\ new[N].key = Drop(tree[c].key, m)
      /\ new[N].terminals = tree[c].terminals /\ new[N].children = tree[c].children
  BY DEF Cut
<1>4. Len(tree) \in Nat /\ DOMAIN tree = 1..Len(tree)
  OBVIOUS
<1>5. Len(new) \in Nat /\ Len(tree) <= Len(new) /\ N \in 2..Len(new)
  <2>1. 1 \in DOMAIN tree
    BY <1>1, <1>4
  <2> QED
    BY <1>3, <1>4, <2>1
<1> HIDE DEF N
<1>6. /\ new[c].key # <<>> /\ OneKind(new[c].key) /\ new[c].key[1] = tree[c].key[1]
      /\ new[N].key # <<>> /\ OneKind(new[N].key)
  <2> DEFINE key == tree[c].key
  <2>1. key \in Words /\ OneKind(key) /\ m \in 1..Len(key) /\ m # Len(key)
    BY <1>1
  <2> HIDE DEF key
  <2>2. /\ SubSeq(key, 1, m) # <<>> /\ OneKind(SubSeq(key, 1, m)) /\ SubSeq(key, 1, m)[1] = key[1]
        /\ Drop(key, m) # <<>> /\ OneKind(Drop(key, m))
    BY ONLY <2>1, KeyParts
  <2> QED
    BY <1>3, <2>2 DEF key
<1>7. ASSUME NEW n \in DOMAIN tree, NEW x \in Kids(tree, n)
      PROVE  new[x].key # <<>> /\ OneKind(new[x].key) /\ new[x].key[1] = tree[x].key[1]
  <2>1. x \in DOMAIN tree /\ tree[x].key # <<>> /\ OneKind(tree[x].key)
    BY KidsOK
  <2> QED
    BY <1>3, <1>6, <2>1
<1>8. ASSUME NEW n \in DOMAIN tree, n # c PROVE NodeOK(new, n)
  <2>1. new[n].children = tree[n].children /\ new[n].terminals = tree[n].terminals
    BY <1>3, <1>8
  <2>2. \A x \in Kids(tree, n) :
          new[x].key # <<>> /\ OneKind(new[x].key) /\ new[x].key[1] = tree[x].key[1]
    BY <1>7
  <2> QED
    BY <1>5, <2>1, <2>2, KeptOrder
<1>9. NodeOK(new, N)
  <2>1. \A x \in Kids(tree, c) :
          new[x].key # <<>> /\ OneKind(new[x].key) /\ new[x].key[1] = tree[x].key[1]
    BY <1>1, <1>7
  <2>2. NodeOK(tree, c) /\ new[N].terminals = tree[c].terminals
        /\ new[N].children = tree[c].children
    BY <1>1, <1>3
  <2> QED
    BY <1>1, <1>5, <2>1, <2>2, KeptOrder
<1>10. NodeOK(new, c)
  <2>1. <<N>> \in Seq(2..Len(new)) /\ DOMAIN <<N>> = {1} /\ <<N>>[1] = N
    BY <1>5
  <2>2. DOMAIN new[c].terminals = {}
    BY <1>3
  <2>3. \A i \in DOMAIN <<N>> :
          /\ new[<<N>>[i]].key # <<>>
          /\ Len(new[<<N>>[i]].key) = 1
             \/ \A j \in DOMAIN new[<<N>>[i]].key : new[<<N>>[i]].key[j].kind = "literal"
    BY <1>6, <2>1 DEF OneKind
  <2>4. \A i, j \in DOMAIN <<N>> : ~(i < j)
    BY <2>1
  <2> DEFINE kids == <<N>>
  <2>5. new[c].children = kids
    BY <1>3
  <2> HIDE DEF kids
  <2> QED
    BY <2>1, <2>2, <2>3, <2>4, <2>5 DEF NodeOK, kids
<1> QED
  BY <1>2, <1>8, <1>9, <1>10

LEMMA CutRadix ==
  ASSUME NEW tree, NEW word, Radix(tree, word), NEW p \in DOMAIN tree, NEW c \in Kids(tree, p),
         NEW m \in 1..Len(tree[c].key), m # Len(tree[c].key),
         NEW new, Cut(tree, c, m, new),
         NEW next \in [DOMAIN new -> Words],
         next[c] = Join(word[p], SubSeq(tree[c].key, 1, m)),
         next[Len(tree) + 1] = word[c],
         \A n \in DOMAIN tree : n # c => next[n] = word[n]
  PROVE  Radix(new, next) /\ SameContent(tree, word, new, next)
<1> DEFINE N == Len(tree) + 1
           a == SubSeq(tree[c].key, 1, m)
           b == Drop(tree[c].key, m)
           u == next[c]
<1>1. /\ tree \in Seq(Nodes) /\ 1 \in DOMAIN tree /\ tree[1].key = <<>>
      /\ word \in [DOMAIN tree -> Words] /\ word[1] = <<>>
      /\ \A n \in DOMAIN tree : NodeOK(tree, n)
  BY DEF Radix
<1>2. c \in DOMAIN tree /\ tree[c].key # <<>> /\ word[c] = Join(word[p], tree[c].key)
  BY ChildWord
<1>3. /\ DOMAIN new = DOMAIN tree \cup {N} /\ N \notin DOMAIN tree
      /\ \A n \in DOMAIN tree : n # c => Kids(new, n) = Kids(tree, n)
      /\ Kids(new, c) = {N} /\ Kids(new, N) = Kids(tree, c)
  <2>1. N = Len(tree) + 1
    OBVIOUS
  <2> HIDE DEF N
  <2>2. c \in DOMAIN tree /\ m \in Nat /\ Cut(tree, c, m, new) /\ tree \in Seq(Nodes)
    BY <1>1, <1>2
  <2>3. DOMAIN new = 1..N /\ Len(tree) \in Nat /\ DOMAIN tree = 1..Len(tree)
    BY <2>1, <2>2 DEF Cut
  <2>6. DOMAIN new = DOMAIN tree \cup {N} /\ N \notin DOMAIN tree
    BY <2>1, <2>3
  <2>4. \A n \in DOMAIN tree : n # c => Kids(new, n) = Kids(tree, n)
    BY ONLY <2>1, <2>2, CutKids
  <2>5. Kids(new, c) = {N} /\ Kids(new, N) = Kids(tree, c)
    BY ONLY <2>1, <2>2, CutKids
  <2> QED
    BY <2>4, <2>5, <2>6
<1>4. /\ new \in Seq(Nodes) /\ Len(new) = N /\ Len(tree) \in Nat
      /\ \A n \in DOMAIN tree : n # c => new[n] = tree[n]
      /\ new[c].key = a /\ new[c].terminals = <<>>
      /\ new[N].key = b /\ new[N].terminals = tree[c].terminals
  BY <1>1 DEF Cut
<1>5. /\ next[N] = word[c] /\ u = next[c] /\ u = Join(word[p], a)
      /\ \A n \in DOMAIN tree : n # c => next[n] = word[n]
  OBVIOUS
<1>6. u \in Words /\ Join(u, b) = word[c] /\ Begins(u, word[c]) /\ ~Begins(word[c], u)
  BY <1>5, CutWords
<1>7. /\ \A n \in DOMAIN tree : Begins(u, word[n]) => Begins(word[c], word[n])
      /\ \A n \in DOMAIN tree : word[n] # u
  BY <1>5, CutWords
<1> HIDE DEF N, a, b, u
<1>8. \A n \in DOMAIN tree : word[n] \in Words /\ Begins(word[n], word[n])
  BY <1>1, BeginsSelf
<1>9. ASSUME NEW n \in DOMAIN tree, NEW x \in Kids(tree, n)
      PROVE  /\ x \in DOMAIN tree /\ x # N /\ x # n /\ n # N
             /\ word[x] = Join(word[n], tree[x].key)
             /\ x = c => n = p
  <2>1. x \in DOMAIN tree /\ word[x] = Join(word[n], tree[x].key)
    BY ChildWord
  <2>2. x # n
    BY NotOwnKid
  <2>3. x = c => n = p
    BY OneParent
  <2> QED
    BY <1>3, <2>1, <2>2, <2>3
<1>10. \A n \in DOMAIN new : NodeOK(new, n)
  BY <1>1, CutNodes
<1>11. p # c
  BY <1>9
<1>12. Spelled(new, next)
  <2> SUFFICES ASSUME NEW n \in DOMAIN new, NEW x \in Kids(new, n)
               PROVE  next[x] = Join(next[n], new[x].key)
    BY DEF Spelled
  <2>1. CASE n = c
    <3>1. x = N
      BY <1>3, <2>1
    <3> QED
      BY <1>4, <1>5, <1>6, <2>1, <3>1
  <2>2. CASE n = N
    <3>1. x \in Kids(tree, c)
      BY <1>3, <2>2
    <3>2. x \in DOMAIN tree /\ x # c /\ word[x] = Join(word[c], tree[x].key)
      BY <1>2, <1>9, <3>1
    <3>3. next[x] = word[x] /\ new[x] = tree[x]
      BY <1>4, <1>5, <3>2
    <3> QED
      BY <1>5, <2>2, <3>2, <3>3
  <2>3. CASE n # c /\ n # N
    <3>1. n \in DOMAIN tree /\ x \in Kids(tree, n)
      BY <1>3, <2>3
    <3>2. x \in DOMAIN tree /\ word[x] = Join(word[n], tree[x].key) /\ next[n] = word[n]
      BY <1>5, <1>9, <2>3, <3>1
    <3>3. CASE x = c
      <4>1. n = p
        BY <1>9, <3>1, <3>3
      <4> QED
        BY <1>4, <1>5, <3>2, <3>3, <4>1
    <3>4. CASE x # c
      BY <1>4, <1>5, <3>2, <3>4
    <3> QED
      BY <3>3, <3>4
  <2> QED
    BY <2>1, <2>2, <2>3
<1>13. Distinct(word) /\ DOMAIN word = DOMAIN tree
  BY <1>1 DEF Radix
<1>14. word[c] # u
  BY <1>2, <1>7
<1>15. Distinct(next)
  <2> SUFFICES ASSUME NEW i \in DOMAIN new, NEW j \in DOMAIN new, next[i] = next[j] PROVE i = j
    BY DEF Distinct
  <2> DEFINE Old(n) == IF n = N THEN c ELSE n
  <2>1. \A n \in DOMAIN new : n # c => Old(n) \in DOMAIN tree /\ next[n] = word[Old(n)]
    BY <1>2, <1>3, <1>5
  <2>2. CASE i # c /\ j # c
    <3>1. Old(i) = Old(j)
      BY <1>13, <2>1, <2>2 DEF Distinct
    <3> QED
      BY <2>2, <3>1
  <2>3. \A n \in DOMAIN new : n # c => next[n] # u
    BY <1>7, <2>1
  <2> QED
    BY <1>5, <2>2, <2>3
<1>16. Parented(new)
  <2> SUFFICES ASSUME NEW x \in 2..Len(new) PROVE \E n \in DOMAIN new : x \in Kids(new, n)
    BY DEF Parented
  <2>1. CASE x = N
    BY <1>2, <1>3, <2>1
  <2>2. CASE x # N
    <3>1. x \in 2..Len(tree)
      BY <1>4, <2>2 DEF N
    <3>2. PICK n \in DOMAIN tree : x \in Kids(tree, n)
      BY <3>1 DEF Radix, Parented
    <3>3. CASE n = c
      BY <1>3, <3>2, <3>3
    <3>4. CASE n # c
      BY <1>3, <3>2, <3>4
    <3> QED
      BY <3>3, <3>4
  <2> QED
    BY <2>1, <2>2
<1>17. \A n, x \in DOMAIN tree : Begins(word[n], word[x]) /\ n # x =>
         \E d \in Kids(tree, n) : Begins(word[d], word[x])
  BY DEF Radix, Complete
<1>18. Begins(u, u) /\ Begins(word[c], word[c])
  BY <1>2, <1>6, <1>8, BeginsSelf
<1>19. Complete(new, next)
  <2> SUFFICES ASSUME NEW n \in DOMAIN new, NEW x \in DOMAIN new, Begins(next[n], next[x]), n # x
               PROVE  \E d \in Kids(new, n) : Begins(next[d], next[x])
    BY DEF Complete
  <2>1. CASE n = c
    <3>1. N \in Kids(new, c)
      BY <1>3
    <3>2. CASE x = N
      BY <1>5, <1>18, <2>1, <3>1, <3>2
    <3>3. CASE x # N
      <4>1. x \in DOMAIN tree /\ next[x] = word[x]
        BY <1>3, <1>5, <2>1, <3>3
      <4>2. Begins(u, word[x])
        BY <1>5, <2>1, <4>1
      <4>3. Begins(word[c], word[x])
        BY <1>7, <4>1, <4>2
      <4> QED
        BY <1>5, <2>1, <3>1, <4>1, <4>3
    <3> QED
      BY <3>2, <3>3
  <2>2. CASE n = N
    <3>1. Begins(word[c], next[x])
      BY <1>5, <2>2
    <3>2. x # c
      BY <1>5, <1>6, <3>1
    <3>3. x \in DOMAIN tree /\ next[x] = word[x]
      BY <1>3, <1>5, <2>2, <3>2
    <3>4. PICK d \in Kids(tree, c) : Begins(word[d], word[x])
      BY <1>2, <1>17, <3>1, <3>2, <3>3
    <3>5. d \in Kids(new, N) /\ d \in DOMAIN tree /\ d # c
      BY <1>2, <1>3, <1>9
    <3>6. next[d] = word[d]
      BY <1>5, <3>5
    <3> QED
      BY <2>2, <3>3, <3>4, <3>5, <3>6
  <2>3. CASE n # c /\ n # N
    <3>1. n \in DOMAIN tree /\ next[n] = word[n] /\ Kids(new, n) = Kids(tree, n)
      BY <1>3, <1>5, <2>3
    <3>2. \A d \in Kids(tree, n) : d \in DOMAIN tree /\ (d # c => next[d] = word[d])
      BY <1>5, <1>9, <3>1
    <3>3. CASE x # c
      <4> DEFINE y == IF x = N THEN c ELSE x
      <4>1. y \in DOMAIN tree /\ next[x] = word[y] /\ n # y
        BY <1>2, <1>3, <1>5, <2>3, <3>3
      <4> HIDE DEF y
      <4>2. PICK d \in Kids(tree, n) : Begins(word[d], word[y])
        BY <1>17, <3>1, <4>1
      <4>3. CASE d # c
        BY <3>1, <3>2, <4>1, <4>2, <4>3
      <4>4. CASE d = c
        <5>1. Begins(u, word[y])
          BY <1>2, <1>6, <1>8, <4>1, <4>2, <4>4, BeginsTrans
        <5> QED
          BY <1>5, <3>1, <4>1, <4>4, <5>1
      <4> QED
        BY <4>3, <4>4
    <3>4. CASE x = c
      <4>1. Begins(word[n], u)
        BY <1>5, <3>1, <3>4
      <4>2. Begins(word[n], word[c])
        BY <1>2, <1>6, <1>8, <3>1, <4>1, BeginsTrans
      <4>3. PICK d \in Kids(tree, n) : Begins(word[d], word[c])
        BY <1>2, <1>17, <2>3, <3>1, <4>2
      <4>4. CASE d = c
        BY <1>5, <1>18, <3>1, <3>4, <4>4
      <4>5. CASE d # c
        <5>1. d \in DOMAIN tree /\ next[d] = word[d] /\ word[d] \in Words /\ word[c] \in Words
          BY <1>2, <1>8, <3>2, <4>5
        <5>2. CASE Len(word[d]) <= Len(u)
          <6>1. Begins(word[d], u)
            BY <1>6, <4>3, <5>1, <5>2, BeginsBoth
          <6> QED
            BY <1>5, <3>1, <3>4, <5>1, <6>1
        <5>3. CASE ~(Len(word[d]) <= Len(u))
          <6>1. Len(u) \in Nat /\ Len(word[d]) \in Nat
            BY <1>6, <5>1 DEF Words
          <6>2. Len(u) <= Len(word[d])
            BY <5>3, <6>1
          <6>3. Begins(u, word[d])
            BY <1>6, <4>3, <5>1, <6>2, BeginsBoth
          <6>4. Begins(word[c], word[d])
            BY <1>7, <5>1, <6>3
          <6>5. Len(word[c]) <= Len(word[d])
            BY <6>4 DEF Begins
          <6>6. word[d] = word[c]
            BY <4>3, <5>1, <6>5, BeginsEqual
          <6> QED
            BY <1>2, <1>13, <4>5, <5>1, <6>6 DEF Distinct
        <5> QED
          BY <5>2, <5>3
      <4> QED
        BY <4>4, <4>5
    <3> QED
      BY <3>3, <3>4
  <2> QED
    BY <2>1, <2>2, <2>3
<1>20. SameContent(tree, word, new, next)
  <2>1. \A n \in DOMAIN tree : n # c => next[n] = word[n] /\ new[n].terminals = tree[n].terminals
    BY <1>4, <1>5
  <2>2. DOMAIN new[c].terminals = {}
    BY <1>4
  <2>3. next[N] = word[c] /\ new[N].terminals = tree[c].terminals
    BY <1>4, <1>5
  <2>4. ASSUME NEW w, NEW verb, NEW handler, Holds(new, next, w, verb, handler)
        PROVE  Holds(tree, word, w, verb, handler)
    <3>1. PICK n \in DOMAIN new : \E i \in DOMAIN new[n].terminals :
            next[n] = w /\ new[n].terminals[i] = [verb |-> verb, handler |-> handler]
      BY <2>4 DEF Holds
    <3>2. n # c
      BY <2>2, <3>1
    <3>3. CASE n = N
      BY <1>2, <2>3, <3>1, <3>3 DEF Holds
    <3>4. CASE n # N
      BY <1>3, <2>1, <3>1, <3>2, <3>4 DEF Holds
    <3> QED
      BY <3>3, <3>4
  <2>5. ASSUME NEW w, NEW verb, NEW handler, Holds(tree, word, w, verb, handler)
        PROVE  Holds(new, next, w, verb, handler)
    <3>1. PICK n \in DOMAIN tree : \E i \in DOMAIN tree[n].terminals :
            word[n] = w /\ tree[n].terminals[i] = [verb |-> verb, handler |-> handler]
      BY <2>5 DEF Holds
    <3>2. CASE n = c
      BY <1>3, <2>3, <3>1, <3>2 DEF Holds
    <3>3. CASE n # c
      BY <1>3, <2>1, <3>1, <3>3 DEF Holds
    <3> QED
      BY <3>2, <3>3
  <2> QED
    BY <2>4, <2>5 DEF SameContent
<1>21. new[1].key = <<>> /\ next[1] = <<>> /\ 1 \in DOMAIN new
  <2>1. c # 1
    BY <1>1, <1>2
  <2> QED
    BY <1>1, <1>3, <1>4, <1>5, <2>1
<1> QED
  BY <1>4, <1>10, <1>12, <1>15, <1>16, <1>19, <1>20, <1>21 DEF Radix

-----------------------------------------------------------------------------
(* One node further down *)

LEMMA JoinJoin ==
  ASSUME NEW s \in Words, NEW t \in Words, NEW u \in Words
  PROVE  Join(Join(s, t), u) = Join(s, Join(t, u))
BY ConcatAssociative DEF Words, Join

LEMMA Common ==
  ASSUME NEW s \in Words, NEW t \in Words
  PROVE  /\ CommonPrefixLen(s, t) \in 0..Len(s) /\ CommonPrefixLen(s, t) <= Len(t)
         /\ \A i \in 1..CommonPrefixLen(s, t) : s[i] = t[i]
         /\ s # <<>> /\ t # <<>> => (CommonPrefixLen(s, t) > 0 <=> s[1] = t[1])
<1> DEFINE T == {n \in 0..Len(s) : n <= Len(t) /\ \A i \in 1..n : s[i] = t[i]}
           U == {n \in 0..Len(s) : Len(s) - n \in T}
           m == CommonPrefixLen(s, t)
<1>1. Len(s) \in Nat /\ Len(t) \in Nat
  BY DEF Words
<1>2. 0 \in T
  BY <1>1
<1>3. U \in SUBSET Nat /\ U # {}
  <2>1. Len(s) \in U
    BY <1>1, <1>2
  <2> QED
    BY <2>1
<1>4. PICK x \in U : \A y \in U : x <= y
  BY <1>3, LeastElement
<1>5. Len(s) - x \in T /\ \A y \in T : Len(s) - x >= y
  <2>1. ASSUME NEW y \in T PROVE Len(s) - x >= y
    <3>1. y \in 0..Len(s) /\ Len(s) - (Len(s) - y) = y
      BY <1>1
    <3>2. Len(s) - y \in U
      BY <1>1, <3>1
    <3>3. x <= Len(s) - y /\ x \in 0..Len(s)
      BY <1>4, <3>2
    <3> QED
      BY <1>1, <3>1, <3>3
  <2> QED
    BY <1>4, <2>1
<1>6. m = CHOOSE y \in T : \A z \in T : y >= z
  BY DEF CommonPrefixLen, Max
<1> HIDE DEF m, T
<1>7. m \in T /\ \A y \in T : m >= y
  BY <1>5, <1>6
<1>8. m \in 0..Len(s) /\ m <= Len(t) /\ \A i \in 1..m : s[i] = t[i]
  BY <1>7 DEF T
<1>9. ASSUME s # <<>>, t # <<>> PROVE m > 0 <=> s[1] = t[1]
  <2>1. Len(s) > 0 /\ Len(t) > 0
    BY <1>1, <1>9, EmptySeq DEF Words
  <2>2. ASSUME s[1] = t[1] PROVE m > 0
    <3>1. 1 \in T
      BY <1>1, <2>1, <2>2 DEF T
    <3> QED
      BY <1>7, <1>8, <3>1
  <2>3. ASSUME m > 0 PROVE s[1] = t[1]
    <3>1. 1 \in 1..m
      BY <1>8, <2>3
    <3> QED
      BY <1>8, <3>1
  <2> QED
    BY <2>2, <2>3
<1> QED
  BY <1>8, <1>9 DEF m

\* What is added at once is a key, with which the rest begins.
LEMMA RunOK ==
  ASSUME NEW left \in Words, left # <<>>
  PROVE  /\ Run(left) \in Words /\ Run(left) # <<>> /\ OneKind(Run(left))
         /\ Len(Run(left)) \in 1..Len(left) /\ Run(left) = SubSeq(left, 1, Len(Run(left)))
<1> DEFINE others == {i \in DOMAIN left : left[i].kind # "literal"}
           r == First(others)
           n == IF r = 0 THEN Len(left) ELSE IF r = 1 THEN 1 ELSE r - 1
<1>1. Len(left) \in Nat \ {0} /\ DOMAIN left = 1..Len(left)
  BY EmptySeq DEF Words
<1>2. \/ r = 0 /\ others = {}
      \/ r \in others /\ \A i \in others : r <= i
  BY <1>1, FirstPlace
<1>3. r = 0 \/ r \in 1..Len(left)
  BY <1>1, <1>2
<1>4. Run(left) = SubSeq(left, 1, n)
  <2>1. CASE r = 0
    <3>1. SubSeq(left, 1, Len(left)) = left
      BY SubSeqFull DEF Words
    <3> QED
      BY <2>1, <3>1 DEF Run
  <2>2. CASE r # 0
    BY <2>2 DEF Run
  <2> QED
    BY <2>1, <2>2
<1> HIDE DEF r
<1>5. n \in 1..Len(left)
  BY <1>1, <1>3
<1>6. n = 1 \/ \A i \in 1..n : left[i].kind = "literal"
  <2>1. CASE r = 0
    BY <1>1, <1>2, <2>1
  <2>2. CASE r # 0 /\ r # 1
    <3>1. \A i \in 1..n : i \in DOMAIN left /\ ~(r <= i)
      BY <1>1, <1>3, <2>2
    <3>2. \A i \in 1..n : i \notin others
      BY <1>2, <2>2, <3>1
    <3> QED
      BY <3>1, <3>2
  <2>3. CASE r = 1
    BY <2>3
  <2> QED
    BY <2>1, <2>2, <2>3
<1> HIDE DEF n, others
<1> DEFINE k == SubSeq(left, 1, n)
<1>7. k \in Words /\ Len(k) = n /\ \A i \in 1..n : k[i] = left[i]
  <2>1. n \in 0..Len(left) /\ left \in Seq(Letters)
    BY <1>1, <1>5 DEF Words
  <2> QED
    BY <2>1, Parts DEF Words
<1> HIDE DEF k
<1>8. k # <<>> /\ OneKind(k)
  <2>1. DOMAIN k = 1..n
    BY <1>7 DEF Words
  <2>2. n # 0
    BY <1>1, <1>5
  <2> QED
    BY <1>6, <1>7, <2>1, <2>2 DEF OneKind
<1>9. Run(left) = k /\ k = SubSeq(left, 1, Len(k))
  BY <1>4, <1>7 DEF k
<1> QED
  BY <1>5, <1>7, <1>8, <1>9

\* The child below which a word goes on, and if there is none, no child begins
\* as the word does.
LEMMA BelowOK ==
  ASSUME NEW tree \in Seq(Nodes), NEW at \in DOMAIN tree, NodeOK(tree, at),
         NEW left \in Words, left # <<>>
  PROVE  \/ /\ Below(tree, at, left) = 0
            /\ \A c \in Kids(tree, at) : tree[c].key[1] # left[1]
         \/ /\ Below(tree, at, left) # 0
            /\ tree[at].children[Below(tree, at, left)] \in Kids(tree, at)
            /\ CommonPrefixLen(tree[tree[at].children[Below(tree, at, left)]].key, left) > 0
<1> DEFINE kids == tree[at].children
           found == {i \in DOMAIN kids : CommonPrefixLen(tree[kids[i]].key, left) > 0}
           b == Below(tree, at, left)
<1>1. kids \in Seq(Nat) /\ Len(kids) \in Nat /\ DOMAIN kids = 1..Len(kids)
  BY NodeTypes
<1>2. b = First(found)
  BY DEF Below
<1>3. \A i \in DOMAIN kids : kids[i] \in Kids(tree, at)
  BY DEF Kids, Range
<1>4. \A c \in Kids(tree, at) : \E i \in DOMAIN kids : c = kids[i]
  BY DEF Kids, Range
<1>5. found \in SUBSET (1..Len(kids))
  BY <1>1
<1>6. \/ b = 0 /\ found = {}
      \/ b \in found
  BY <1>1, <1>2, <1>5, FirstPlace
<1>7. ASSUME NEW c \in Kids(tree, at), found = {} PROVE tree[c].key[1] # left[1]
  <2>1. PICK i \in DOMAIN kids : c = kids[i]
    BY <1>4
  <2>2. tree[c].key \in Words /\ tree[c].key # <<>>
    BY KidsOK
  <2>3. ~(CommonPrefixLen(tree[c].key, left) > 0)
    BY <1>7, <2>1
  <2> QED
    BY <2>2, <2>3, Common
<1>8. CASE b = 0 /\ found = {}
  BY <1>7, <1>8
<1>9. CASE b \in found
  <2>1. b # 0 /\ b \in DOMAIN kids /\ CommonPrefixLen(tree[kids[b]].key, left) > 0
    BY <1>5, <1>9
  <2> QED
    BY <1>3, <2>1
<1> QED
  BY <1>6, <1>8, <1>9

\* A tree that holds the same, and in it the place of a node and what is left of
\* the same word, less than before.
Further(tree, word, at, left, new, next, below, rest) ==
  /\ Radix(new, next) /\ SameContent(tree, word, new, next)
  /\ below \in DOMAIN new /\ rest \in Words
  /\ Len(rest) < Len(left) /\ Join(next[below], rest) = Join(word[at], left)

LEMMA DescendAdds ==
  ASSUME NEW tree, NEW word, Radix(tree, word), NEW at \in DOMAIN tree,
         NEW left \in Words, left # <<>>, Below(tree, at, left) = 0,
         NEW N, N = Len(tree) + 1
  PROVE  \E next : Further(tree, word, at, left, AddChild(tree, at, Run(left)), next,
                           N, Drop(left, Len(Run(left))))
<1> DEFINE k == Run(left)
           new == AddChild(tree, at, k)
           next == [n \in DOMAIN new |-> IF n = N THEN Join(word[at], k) ELSE word[n]]
           rest == Drop(left, Len(k))
<1>1. /\ tree \in Seq(Nodes) /\ NodeOK(tree, at) /\ word \in [DOMAIN tree -> Words]
      /\ Len(tree) \in Nat /\ DOMAIN tree = 1..Len(tree)
  BY DEF Radix
<1>2. k \in Words /\ k # <<>> /\ OneKind(k) /\ Len(k) \in 1..Len(left)
      /\ k = SubSeq(left, 1, Len(k))
  BY RunOK
<1>3. \A c \in Kids(tree, at) : tree[c].key[1] # left[1]
  BY <1>1, BelowOK
<1>4. /\ rest \in Words /\ Len(rest) = Len(left) - Len(k) /\ Join(k, rest) = left
      /\ k[1] = left[1]
  <2> HIDE DEF k
  <2> DEFINE n == Len(k)
  <2>1. n \in 0..Len(left) /\ 1 \in 1..n /\ left \in Seq(Letters) /\ k = SubSeq(left, 1, n)
    BY <1>2 DEF Words
  <2> HIDE DEF n
  <2>2. /\ Drop(left, n) \in Seq(Letters) /\ Len(Drop(left, n)) = Len(left) - n
        /\ \A i \in 1..n : SubSeq(left, 1, n)[i] = left[i]
        /\ Join(SubSeq(left, 1, n), Drop(left, n)) = left
    BY ONLY <2>1, Parts
  <2>3. k[1] = left[1]
    BY <2>1, <2>2
  <2> QED
    BY <2>1, <2>2, <2>3 DEF n, Words
<1>5. Len(left) \in Nat /\ Len(k) \in Nat /\ Len(rest) < Len(left)
  <2> HIDE DEF k, rest
  <2>1. Len(left) \in Nat
    BY DEF Words
  <2> QED
    BY <1>2, <1>4, <2>1
<1> HIDE DEF k, rest
<1>6. Added(tree, at, k, new)
  BY <1>1, <1>2, AddChildAdds
<1> HIDE DEF new
<1>7. DOMAIN new = DOMAIN tree \cup {N} /\ N \notin DOMAIN tree
  <2>1. new \in Seq(Nodes) /\ Len(new) = Len(tree) + 1
    BY <1>6 DEF Added
  <2>2. DOMAIN new = 1..(Len(tree) + 1)
    BY <1>1, <2>1
  <2> QED
    BY <1>1, <2>2
<1>8. word[at] \in Words /\ Join(word[at], k) \in Words
  BY <1>1, <1>2, Appended
<1>9. /\ next \in [DOMAIN new -> Words] /\ next[N] = Join(word[at], k)
      /\ \A n \in DOMAIN tree : next[n] = word[n]
  BY <1>1, <1>7, <1>8
<1> HIDE DEF next
<1>10. \A c \in Kids(tree, at) : tree[c].key[1] # k[1]
  BY <1>3, <1>4
<1>11. next[Len(tree) + 1] = Join(word[at], k)
  BY <1>9
<1>12. Radix(new, next) /\ SameContent(tree, word, new, next)
  BY <1>2, <1>6, <1>9, <1>10, <1>11, AddedRadix
<1>13. Join(next[N], rest) = Join(word[at], left)
  BY <1>2, <1>4, <1>8, <1>9, JoinJoin
<1>14. Further(tree, word, at, left, new, next, N, rest)
  BY <1>4, <1>5, <1>7, <1>12, <1>13 DEF Further
<1> QED
  BY <1>14 DEF new, k, rest

\* The word goes on below c with the m symbols that its key has in common with
\* what is left.
LEMMA OnBelow ==
  ASSUME NEW tree, NEW word, Radix(tree, word), NEW p \in DOMAIN tree, NEW c \in Kids(tree, p),
         NEW left \in Words, NEW m, m = CommonPrefixLen(tree[c].key, left), m > 0
  PROVE  /\ m \in 1..Len(tree[c].key) /\ m \in 0..Len(left)
         /\ SubSeq(tree[c].key, 1, m) \in Words /\ Drop(left, m) \in Words
         /\ Len(Drop(left, m)) < Len(left)
         /\ Join(Join(word[p], SubSeq(tree[c].key, 1, m)), Drop(left, m)) = Join(word[p], left)
<1> DEFINE key == tree[c].key
           a == SubSeq(key, 1, m)
           b == Drop(left, m)
<1>1. key \in Words /\ word[p] \in Words
  BY ChildWord
<1>2. m \in 0..Len(key) /\ m <= Len(left) /\ \A i \in 1..m : key[i] = left[i]
  BY <1>1, Common
<1> HIDE DEF key
<1>3. Len(left) \in Nat /\ Len(key) \in Nat
  BY <1>1 DEF Words
<1>4. m \in 1..Len(key) /\ m \in 0..Len(left)
  BY <1>2, <1>3
<1>5. a \in Words /\ Len(a) = m /\ \A i \in 1..m : a[i] = key[i]
  BY <1>1, <1>2, Parts DEF Words
<1>6. /\ b \in Words /\ Len(b) = Len(left) - m
      /\ SubSeq(left, 1, m) \in Words /\ Len(SubSeq(left, 1, m)) = m
      /\ \A i \in 1..m : SubSeq(left, 1, m)[i] = left[i]
      /\ Join(SubSeq(left, 1, m), b) = left
  BY <1>4, Parts DEF Words
<1>7. a = SubSeq(left, 1, m)
  <2> DEFINE d == SubSeq(left, 1, m)
  <2>1. d \in Seq(Letters) /\ Len(d) = m /\ \A i \in 1..m : d[i] = left[i]
    BY <1>6 DEF Words
  <2>2. a \in Seq(Letters)
    BY <1>5 DEF Words
  <2> HIDE DEF d, a
  <2>3. Len(a) = Len(d) /\ \A i \in 1..Len(a) : a[i] = d[i]
    BY <1>2, <1>5, <2>1
  <2>4. a = d
    BY ONLY <2>1, <2>2, <2>3, SeqEqual
  <2> QED
    BY <2>4 DEF d
<1> HIDE DEF a, b
<1>8. Join(Join(word[p], a), b) = Join(word[p], Join(a, b))
  BY <1>1, <1>5, <1>6, JoinJoin
<1>9. Join(a, b) = left
  BY <1>6, <1>7
<1>10. Len(b) < Len(left)
  BY <1>3, <1>4, <1>6
<1> QED
  BY <1>4, <1>5, <1>6, <1>8, <1>9, <1>10 DEF a, b, key

LEMMA DescendSplits ==
  ASSUME NEW tree, NEW word, Radix(tree, word), NEW p \in DOMAIN tree, NEW c \in Kids(tree, p),
         NEW left \in Words, NEW m, m = CommonPrefixLen(tree[c].key, left), m > 0,
         m # Len(tree[c].key)
  PROVE  \E next : Further(tree, word, p, left, Split(tree, c, m), next, c, Drop(left, m))
<1> DEFINE N == Len(tree) + 1
           new == Split(tree, c, m)
           u == Join(word[p], SubSeq(tree[c].key, 1, m))
           next == [n \in DOMAIN new |-> IF n = c THEN u ELSE IF n = N THEN word[c] ELSE word[n]]
           rest == Drop(left, m)
<1>1. /\ tree \in Seq(Nodes) /\ word \in [DOMAIN tree -> Words]
      /\ Len(tree) \in Nat /\ DOMAIN tree = 1..Len(tree)
  BY DEF Radix
<1>2. c \in DOMAIN tree /\ word[p] \in Words /\ word[c] \in Words
  BY ChildWord
<1>3. /\ m \in 1..Len(tree[c].key)
      /\ SubSeq(tree[c].key, 1, m) \in Words /\ rest \in Words
      /\ Len(rest) < Len(left)
      /\ Join(u, rest) = Join(word[p], left)
  BY OnBelow
<1>4. u \in Words
  BY <1>2, <1>3, Appended
<1>5. Cut(tree, c, m, new)
  BY <1>1, <1>2, <1>3, SplitCuts
<1> HIDE DEF u, rest, new
<1>6. DOMAIN new = DOMAIN tree \cup {N} /\ N \notin DOMAIN tree
  <2>1. new \in Seq(Nodes) /\ Len(new) = Len(tree) + 1
    BY <1>5 DEF Cut
  <2>2. DOMAIN new = 1..(Len(tree) + 1)
    BY <1>1, <2>1
  <2> QED
    BY <1>1, <2>2
<1>7. /\ next \in [DOMAIN new -> Words] /\ next[c] = u
      /\ \A n \in DOMAIN tree : n # c => next[n] = word[n]
  BY <1>1, <1>2, <1>4, <1>6
<1>8. next[Len(tree) + 1] = word[c]
  BY <1>2, <1>6
<1> HIDE DEF next
<1>9. next[c] = Join(word[p], SubSeq(tree[c].key, 1, m))
  BY <1>7 DEF u
<1>10. Radix(new, next) /\ SameContent(tree, word, new, next)
  BY <1>3, <1>5, <1>7, <1>8, <1>9, CutRadix
<1>11. c \in DOMAIN new
  BY <1>2, <1>6
<1>12. Further(tree, word, p, left, new, next, c, rest)
  BY <1>3, <1>7, <1>10, <1>11 DEF Further
<1> QED
  BY <1>12 DEF new, rest

LEMMA DescendKeeps ==
  ASSUME NEW tree, NEW word, Radix(tree, word), NEW p \in DOMAIN tree, NEW c \in Kids(tree, p),
         NEW left \in Words, NEW m, m = CommonPrefixLen(tree[c].key, left), m > 0,
         m = Len(tree[c].key)
  PROVE  Further(tree, word, p, left, Split(tree, c, m), word, c, Drop(left, m))
<1> DEFINE u == Join(word[p], SubSeq(tree[c].key, 1, m))
           rest == Drop(left, m)
<1>1. c \in DOMAIN tree /\ word[p] \in Words /\ tree[c].key \in Words
      /\ word[c] = Join(word[p], tree[c].key)
  BY ChildWord
<1>2. /\ Radix(tree, word) /\ p \in DOMAIN tree /\ c \in Kids(tree, p)
      /\ left \in Words /\ m = CommonPrefixLen(tree[c].key, left) /\ m > 0
  OBVIOUS
<1>3. /\ rest \in Words /\ Len(rest) < Len(left)
      /\ Join(u, rest) = Join(word[p], left)
  BY ONLY <1>2, OnBelow
<1>4. SubSeq(tree[c].key, 1, m) = tree[c].key
  BY <1>1, SubSeqFull DEF Words
<1>5. Join(word[c], rest) = Join(word[p], left)
  BY <1>1, <1>3, <1>4
<1>6. Split(tree, c, m) = tree
  BY DEF Split
<1>7. SameContent(tree, word, tree, word)
  BY DEF SameContent
<1> QED
  BY <1>1, <1>3, <1>5, <1>6, <1>7 DEF Further

\* Each step of insert keeps the tree and comes nearer to the end of the word.
LEMMA Descends ==
  ASSUME NEW tree, NEW word, Radix(tree, word), NEW at \in DOMAIN tree,
         NEW left \in Words, left # <<>>,
         NEW w, w = Descend([tree |-> tree, at |-> at, left |-> left])
  PROVE  \E next : Further(tree, word, at, left, w.tree, next, w.at, w.left)
<1> DEFINE i == Below(tree, at, left)
           c == tree[at].children[i]
           m == CommonPrefixLen(tree[c].key, left)
           k == Run(left)
<1>1. tree \in Seq(Nodes) /\ NodeOK(tree, at)
  BY DEF Radix
<1>2. \/ i = 0
      \/ i # 0 /\ c \in Kids(tree, at) /\ m > 0
  BY <1>1, BelowOK
<1>3. CASE i = 0
  <2> DEFINE N == Len(tree) + 1
  <2>1. w = [tree |-> AddChild(tree, at, k), at |-> N, left |-> Drop(left, Len(k))]
    BY <1>3 DEF Descend
  <2>2. w.tree = AddChild(tree, at, k) /\ w.at = N /\ w.left = Drop(left, Len(k))
    BY <2>1
  <2>3. \E next : Further(tree, word, at, left, AddChild(tree, at, Run(left)), next,
                          N, Drop(left, Len(Run(left))))
    BY <1>3, DescendAdds
  <2> QED
    BY <2>2, <2>3
<1>4. CASE i # 0 /\ c \in Kids(tree, at) /\ m > 0
  <2>1. w = [tree |-> Split(tree, c, m), at |-> c, left |-> Drop(left, m)]
    BY <1>4 DEF Descend
  <2>2. w.tree = Split(tree, c, m) /\ w.at = c /\ w.left = Drop(left, m)
    BY <2>1
  <2> HIDE DEF c, m
  <2>3. m = CommonPrefixLen(tree[c].key, left)
    BY DEF m
  <2>4. CASE m = Len(tree[c].key)
    <3>1. Further(tree, word, at, left, Split(tree, c, m), word, c, Drop(left, m))
      BY <1>4, <2>3, <2>4, DescendKeeps
    <3> QED
      BY <2>2, <3>1
  <2>5. CASE m # Len(tree[c].key)
    <3>1. \E next : Further(tree, word, at, left, Split(tree, c, m), next, c, Drop(left, m))
      BY <1>4, <2>3, <2>5, DescendSplits
    <3> QED
      BY <2>2, <3>1
  <2> QED
    BY <2>4, <2>5
<1> QED
  BY <1>2, <1>3, <1>4

-----------------------------------------------------------------------------
(* insert's way down *)

\* The states of insert's loop: the tree holds what it held, and the word of the
\* node that is reached and what is left are the word that is inserted.
Way(tree, word, K) ==
  {w \in [tree : Seq(Nodes), at : Nat, left : Words] :
     \E next : /\ Radix(w.tree, next) /\ SameContent(tree, word, w.tree, next)
               /\ w.at \in DOMAIN w.tree /\ Join(next[w.at], w.left) = K}

LEMMA OneDownOK ==
  ASSUME NEW tree, NEW word, NEW K, NEW w \in Way(tree, word, K)
  PROVE  /\ OneDown(w) \in Way(tree, word, K)
         /\ w.left # <<>> => Len(OneDown(w).left) < Len(w.left)
<1>1. w \in [tree : Seq(Nodes), at : Nat, left : Words]
  BY DEF Way
<1>2. PICK word1 : /\ Radix(w.tree, word1) /\ SameContent(tree, word, w.tree, word1)
                   /\ w.at \in DOMAIN w.tree /\ Join(word1[w.at], w.left) = K
  BY DEF Way
<1>3. CASE w.left = <<>>
  BY <1>3 DEF OneDown
<1>4. CASE w.left # <<>>
  <2> DEFINE v == Descend(w)
  <2>1. w = [tree |-> w.tree, at |-> w.at, left |-> w.left] /\ w.left \in Words
    BY <1>1
  <2>2. v = Descend([tree |-> w.tree, at |-> w.at, left |-> w.left])
    BY <2>1
  <2>3. OneDown(w) = v
    BY <1>4 DEF OneDown
  <2>4. v = [tree |-> v.tree, at |-> v.at, left |-> v.left]
    BY DEF Descend
  <2> HIDE DEF v
  <2>5. PICK next : Further(w.tree, word1, w.at, w.left, v.tree, next, v.at, v.left)
    BY <1>2, <1>4, <2>1, <2>2, Descends
  <2>6. /\ Radix(v.tree, next) /\ SameContent(w.tree, word1, v.tree, next)
        /\ v.at \in DOMAIN v.tree /\ v.left \in Words /\ Len(v.left) < Len(w.left)
        /\ Join(next[v.at], v.left) = K
    BY <1>2, <2>5 DEF Further
  <2>7. v.tree \in Seq(Nodes) /\ v.at \in Nat
    BY <2>6 DEF Radix
  <2>8. SameContent(tree, word, v.tree, next)
    BY <1>2, <2>6 DEF SameContent
  <2>9. v \in [tree : Seq(Nodes), at : Nat, left : Words]
    BY <2>4, <2>6, <2>7
  <2>10. v \in Way(tree, word, K)
    BY <2>6, <2>8, <2>9 DEF Way
  <2> QED
    BY <2>3, <2>6, <2>10
<1> QED
  BY <1>3, <1>4

LEMMA InsertWalk ==
  ASSUME NEW tree, NEW word, Radix(tree, word), NEW K \in Words, NEW L, L = Len(K),
         NEW s0, s0 = [tree |-> tree, at |-> 1, left |-> K],
         NEW walk, walk = CHOOSE f : f = [n \in 0..L |-> IF n = 0 THEN s0 ELSE OneDown(f[n - 1])]
  PROVE  walk[L] \in Way(tree, word, K) /\ walk[L].left = <<>>
<1> DEFINE S == Way(tree, word, K)
           G == [n \in 1..L |-> [s \in S |-> OneDown(s)]]
           Is(f) == f = [n \in 0..L |-> IF n = 0 THEN s0 ELSE OneDown(f[n - 1])]
<1>1. L \in Nat
  BY DEF Words
<1>2. s0 \in S
  <2>1. tree \in Seq(Nodes) /\ 1 \in DOMAIN tree /\ word[1] = <<>>
    BY DEF Radix
  <2>2. Join(word[1], K) = K
    BY <2>1, ConcatEmptySeq DEF Join, Words
  <2>3. SameContent(tree, word, tree, word)
    BY DEF SameContent
  <2>4. s0 \in [tree : Seq(Nodes), at : Nat, left : Words]
    BY <2>1
  <2> QED
    BY <2>1, <2>2, <2>3, <2>4 DEF Way
<1>3. \A s \in S : OneDown(s) \in S
  BY OneDownOK
<1>4. walk = CHOOSE f : Is(f)
  OBVIOUS
<1>5. \A s \in S : Len(s.left) \in Nat /\ (s.left = <<>> <=> Len(s.left) = 0)
  <2>1. \A s \in S : s.left \in Words
    BY DEF Way
  <2> QED
    BY <2>1, EmptySeq DEF Words
<1>6. \A s \in S : s.left # <<>> => Len(OneDown(s).left) < Len(s.left)
  BY OneDownOK
<1> HIDE DEF S
<1>7. G \in [1..L -> [S -> S]]
  BY <1>3
<1> HIDE DEF G
<1>8. PICK f \in [0..L -> S] : f[0] = s0 /\ \A n \in 1..L : f[n] = G[n][f[n - 1]]
  BY ONLY <1>1, <1>2, <1>7, Recursion
<1>9. \A n \in 1..L : f[n] = OneDown(f[n - 1])
  <2> SUFFICES ASSUME NEW n \in 1..L PROVE f[n] = OneDown(f[n - 1])
    OBVIOUS
  <2>1. f[n - 1] \in S
    BY <1>1, <1>8
  <2> QED
    BY <1>8, <2>1 DEF G
<1>10. Is(f)
  BY <1>1, <1>8, <1>9
<1>11. Is(walk)
  BY <1>4, <1>10
<1>12. \A n \in 0..L : walk[n] = IF n = 0 THEN s0 ELSE OneDown(walk[n - 1])
  BY <1>11
<1> DEFINE T == {n \in 0..L : walk[n] \in S /\ Len(walk[n].left) <= L - n}
<1>13. 0 \in T
  BY <1>1, <1>2, <1>12
<1>14. ASSUME NEW n \in 1..L, n - 1 \in T PROVE n \in T
  <2> DEFINE a == walk[n - 1]
             b == walk[n]
  <2>1. a \in S /\ Len(a.left) <= L - (n - 1) /\ b = OneDown(a)
    BY <1>1, <1>12, <1>14
  <2> HIDE DEF a, b
  <2>2. b \in S
    BY <1>3, <2>1
  <2>3. Len(a.left) \in Nat /\ Len(b.left) \in Nat
    BY <1>5, <2>1, <2>2
  <2>4. CASE a.left = <<>>
    <3>1. b = a
      BY <2>1, <2>4 DEF OneDown
    <3>2. Len(b.left) = 0
      BY <1>5, <2>1, <2>4, <3>1
    <3> QED
      BY <1>1, <2>2, <3>2 DEF b
  <2>5. CASE a.left # <<>>
    <3>1. Len(b.left) < Len(a.left)
      BY <1>6, <2>1, <2>5
    <3>2. Len(b.left) <= L - n
      BY <1>1, <2>1, <2>3, <3>1
    <3> QED
      BY <2>2, <3>2 DEF b
  <2> QED
    BY <2>4, <2>5
<1> HIDE DEF T
<1>15. L \in T
  <2>1. 0..L \subseteq T
    BY ONLY <1>1, <1>13, <1>14, UpTo
  <2> QED
    BY <1>1, <2>1
<1>16. walk[L] \in S /\ Len(walk[L].left) <= 0
  BY <1>1, <1>15 DEF T
<1>17. walk[L].left = <<>>
  BY <1>5, <1>16
<1> QED
  BY <1>16, <1>17 DEF S

\* A tree that has a new handler for a word and a verb, unless it had one.
PutIfAbsent(tree, word, K, verb, handler, new, next) ==
  \A w, v, h :
    Holds(new, next, w, v, h) <=>
      \/ Holds(tree, word, w, v, h)
      \/ /\ w = K /\ v = verb /\ h = handler
         /\ \A g : ~Holds(tree, word, K, verb, g)

\* A node has a new handler for a verb, unless it had one.
Gains(terminals, verb, handler, new) ==
  \A v, h : (\E i \in DOMAIN new : new[i] = [verb |-> v, handler |-> h])
     <=> \/ \E i \in DOMAIN terminals : terminals[i] = [verb |-> v, handler |-> h]
         \/ /\ v = verb /\ h = handler
            /\ \A g : \A i \in DOMAIN terminals : terminals[i] # [verb |-> verb, handler |-> g]

LEMMA AddTerminalOK ==
  ASSUME NEW terminals \in Terminals, NEW verb \in Element, NEW handler \in Handlers,
         NEW new, new = AddTerminal(terminals, verb, handler)
  PROVE  /\ new \in Terminals
         /\ (\A i, j \in DOMAIN terminals : terminals[i].verb = terminals[j].verb => i = j)
              => \A i, j \in DOMAIN new : new[i].verb = new[j].verb => i = j
         /\ Gains(terminals, verb, handler, new)
<1> DEFINE entry == [verb |-> verb, handler |-> handler]
           L == Len(terminals)
<1>1. L \in Nat /\ DOMAIN terminals = 1..L /\ entry \in [verb : Element, handler : Handlers]
  BY DEF Terminals
<1>2. \A i \in DOMAIN terminals : terminals[i] \in [verb : Element, handler : Handlers]
  <2> DEFINE X == [verb : Element, handler : Handlers]
  <2>1. terminals \in Seq(X)
    BY DEF Terminals
  <2> HIDE DEF X
  <2>2. \A i \in DOMAIN terminals : terminals[i] \in X
    BY <2>1
  <2> QED
    BY <2>2 DEF X
<1>3. CASE \E i \in DOMAIN terminals : terminals[i].verb = verb
  <2>1. new = terminals
    BY <1>3 DEF AddTerminal
  <2>2. PICK i \in DOMAIN terminals : terminals[i].verb = verb
    BY <1>3
  <2>3. terminals[i] = [verb |-> verb, handler |-> terminals[i].handler]
    BY <1>2, <2>2
  <2>4. ~(\A g : \A j \in DOMAIN terminals : terminals[j] # [verb |-> verb, handler |-> g])
    BY <2>3
  <2>5. Gains(terminals, verb, handler, new)
    BY <2>1, <2>4 DEF Gains
  <2> QED
    BY <2>1, <2>5
<1>4. CASE ~(\E i \in DOMAIN terminals : terminals[i].verb = verb)
  <2>1. new = Append(terminals, entry)
    BY <1>4 DEF AddTerminal
  <2>2. terminals \in Seq([verb : Element, handler : Handlers])
    BY DEF Terminals
  <2> HIDE DEF entry
  <2>3. /\ new \in Terminals /\ Len(new) = L + 1
        /\ \A i \in 1..L : new[i] = terminals[i]
        /\ new[L + 1] = entry
    BY <1>1, <2>1, <2>2, AppendProperties DEF Terminals
  <2>4. DOMAIN new = 1..(L + 1)
    BY <1>1, <2>3 DEF Terminals
  <2>5. DOMAIN new = DOMAIN terminals \cup {L + 1} /\ L + 1 \notin DOMAIN terminals
    BY <1>1, <2>4
  <2> HIDE DEF L
  <2>6. \A i \in DOMAIN terminals : new[i] = terminals[i]
    BY <1>1, <2>3
  <2>7. entry.verb = verb
    BY DEF entry
  <2>8. ASSUME \A i, j \in DOMAIN terminals : terminals[i].verb = terminals[j].verb => i = j
        PROVE  \A i, j \in DOMAIN new : new[i].verb = new[j].verb => i = j
    BY <1>4, <2>3, <2>5, <2>6, <2>7, <2>8
  <2>9. \A g : \A i \in DOMAIN terminals : terminals[i] # [verb |-> verb, handler |-> g]
    BY <1>4
  <2>10. \A v, h : entry = [verb |-> v, handler |-> h] <=> v = verb /\ h = handler
    BY DEF entry
  <2>11. ASSUME NEW v, NEW h
         PROVE  (\E i \in DOMAIN new : new[i] = [verb |-> v, handler |-> h])
                  <=> \/ \E i \in DOMAIN terminals : terminals[i] = [verb |-> v, handler |-> h]
                      \/ v = verb /\ h = handler
    BY <2>3, <2>5, <2>6, <2>10
  <2>12. Gains(terminals, verb, handler, new)
    BY <2>9, <2>11 DEF Gains
  <2> QED
    BY <2>3, <2>8, <2>12
<1> QED
  BY <1>3, <1>4

LEMMA PutOK ==
  ASSUME NEW tree, NEW word, Radix(tree, word), NEW at \in DOMAIN tree,
         NEW verb \in Element, NEW handler \in Handlers,
         NEW new, new = [tree EXCEPT ![at].terminals = AddTerminal(@, verb, handler)]
  PROVE  Radix(new, word) /\ PutIfAbsent(tree, word, word[at], verb, handler, new, word)
<1> DEFINE t == AddTerminal(tree[at].terminals, verb, handler)
           node == [tree[at] EXCEPT !.terminals = t]
<1>1. /\ tree \in Seq(Nodes) /\ 1 \in DOMAIN tree /\ tree[1].key = <<>>
      /\ word \in [DOMAIN tree -> Words] /\ word[1] = <<>>
      /\ \A n \in DOMAIN tree : NodeOK(tree, n)
      /\ Len(tree) \in Nat /\ DOMAIN tree = 1..Len(tree)
  BY DEF Radix
<1>2. tree[at] \in Nodes /\ tree[at].terminals \in Terminals
  BY <1>1, NodeTypes
<1> HIDE DEF t
<1>3. t = AddTerminal(tree[at].terminals, verb, handler)
  BY DEF t
<1>4. /\ t \in Terminals
      /\ Gains(tree[at].terminals, verb, handler, t)
  BY <1>2, <1>3, AddTerminalOK
<1>5. \A i, j \in DOMAIN t : t[i].verb = t[j].verb => i = j
  <2>1. \A i, j \in DOMAIN tree[at].terminals :
          tree[at].terminals[i].verb = tree[at].terminals[j].verb => i = j
    BY <1>1 DEF NodeOK
  <2> QED
    BY <1>2, <1>3, <2>1, AddTerminalOK
<1>6. new = [tree EXCEPT ![at] = node]
  BY <1>3
<1>7. node \in Nodes /\ node.terminals = t /\ node.key = tree[at].key
      /\ node.children = tree[at].children
  BY <1>2, <1>4 DEF Nodes
<1> HIDE DEF node
<1>8. /\ new \in Seq(Nodes) /\ Len(new) = Len(tree) /\ DOMAIN new = DOMAIN tree
      /\ \A n \in DOMAIN tree : new[n] = IF n = at THEN node ELSE tree[n]
  <2>1. /\ new \in Seq(Nodes) /\ Len(new) = Len(tree)
        /\ \A n \in 1..Len(tree) : new[n] = IF n = at THEN node ELSE tree[n]
    BY <1>1, <1>6, <1>7, ExceptSeq
  <2> QED
    BY <1>1, <2>1
<1>9. \A n \in DOMAIN tree :
        /\ new[n].key = tree[n].key /\ new[n].children = tree[n].children
        /\ new[n].terminals = IF n = at THEN t ELSE tree[n].terminals
  BY <1>7, <1>8
<1>10. \A n \in DOMAIN tree : Kids(new, n) = Kids(tree, n)
  BY <1>9 DEF Kids
<1>11. ASSUME NEW n \in DOMAIN new PROVE NodeOK(new, n)
  <2> DEFINE kids == tree[n].children
             K(i) == tree[kids[i]].key
             A(i) == new[kids[i]].key
  <2>1. n \in DOMAIN tree /\ NodeOK(tree, n)
    BY <1>1, <1>8
  <2>2. kids \in Seq(2..Len(new))
    BY <1>8, <2>1 DEF NodeOK
  <2>3. \A i \in DOMAIN kids :
          /\ K(i) # <<>>
          /\ Len(K(i)) = 1 \/ \A j \in DOMAIN K(i) : K(i)[j].kind = "literal"
          /\ \A j \in DOMAIN kids : i < j =>
               /\ K(i)[1] # K(j)[1]
               /\ K(j)[1].kind = "literal" => K(i)[1].kind = "literal"
    BY <2>1 DEF NodeOK
  <2>4. \A i \in DOMAIN kids : A(i) = K(i)
    <3> SUFFICES ASSUME NEW i \in DOMAIN kids PROVE A(i) = K(i)
      OBVIOUS
    <3>1. kids[i] \in DOMAIN tree
      BY <1>8, <2>2
    <3> QED
      BY <1>9, <3>1
  <2>5. \A i, j \in DOMAIN tree[n].terminals :
          tree[n].terminals[i].verb = tree[n].terminals[j].verb => i = j
    BY <2>1 DEF NodeOK
  <2>6. new[n].terminals = IF n = at THEN t ELSE tree[n].terminals
    BY <1>9, <2>1
  <2>7. \A i, j \in DOMAIN new[n].terminals :
          new[n].terminals[i].verb = new[n].terminals[j].verb => i = j
    BY <1>5, <2>5, <2>6
  <2>8. new[n].children = kids
    BY <1>9, <2>1
  <2> HIDE DEF kids, K, A
  <2>9. \A i \in DOMAIN kids :
          /\ A(i) # <<>>
          /\ Len(A(i)) = 1 \/ \A j \in DOMAIN A(i) : A(i)[j].kind = "literal"
          /\ \A j \in DOMAIN kids : i < j =>
               /\ A(i)[1] # A(j)[1]
               /\ A(j)[1].kind = "literal" => A(i)[1].kind = "literal"
    BY <2>3, <2>4
  <2>10. new[n].children \in Seq(2..Len(new))
    BY <2>2, <2>8
  <2> DEFINE B(i) == new[new[n].children[i]].key
  <2>11. \A i : B(i) = A(i)
    BY <2>8 DEF A
  <2> HIDE DEF A, B
  <2>12. \A i \in DOMAIN new[n].children :
           /\ B(i) # <<>>
           /\ Len(B(i)) = 1 \/ \A j \in DOMAIN B(i) : B(i)[j].kind = "literal"
           /\ \A j \in DOMAIN new[n].children : i < j =>
                /\ B(i)[1] # B(j)[1]
                /\ B(j)[1].kind = "literal" => B(i)[1].kind = "literal"
    BY <2>8, <2>9, <2>11
  <2> USE DEF B
  <2> QED
    BY <2>7, <2>10, <2>12 DEF NodeOK
<1>12. Spelled(new, word) /\ Distinct(word) /\ Parented(new) /\ Complete(new, word)
  <2>1. Spelled(tree, word) /\ Distinct(word) /\ Parented(tree) /\ Complete(tree, word)
    BY DEF Radix
  <2>2. \A p \in DOMAIN tree : \A c \in Kids(tree, p) : c \in DOMAIN tree
    BY ChildWord
  <2>3. Spelled(new, word)
    BY <1>8, <1>9, <1>10, <2>1, <2>2 DEF Spelled
  <2>4. Parented(new)
    BY <1>8, <1>10, <2>1 DEF Parented
  <2>5. Complete(new, word)
    BY <1>8, <1>10, <2>1 DEF Complete
  <2> QED
    BY <2>1, <2>3, <2>4, <2>5
<1>13. Radix(new, word)
  <2>1. 1 \in DOMAIN new /\ new[1].key = <<>> /\ word \in [DOMAIN new -> Words]
    BY <1>1, <1>8, <1>9
  <2> QED
    BY <1>1, <1>8, <1>11, <1>12, <2>1 DEF Radix
<1>14. \A n \in DOMAIN tree : word[n] = word[at] => n = at
  <2>1. DOMAIN word = DOMAIN tree
    BY <1>1
  <2> QED
    BY <2>1 DEF Radix, Distinct
<1>15. ASSUME NEW w, NEW v, NEW h
       PROVE  Holds(new, word, w, v, h) <=>
                \/ Holds(tree, word, w, v, h)
                \/ /\ w = word[at] /\ v = verb /\ h = handler
                   /\ \A g : ~Holds(tree, word, word[at], verb, g)
  <2> DEFINE terminals == tree[at].terminals
             e == [verb |-> v, handler |-> h]
             New == \A g : \A i \in DOMAIN terminals : terminals[i] # [verb |-> verb, handler |-> g]
  <2>1. New <=> \A g : ~Holds(tree, word, word[at], verb, g)
    BY <1>14 DEF Holds
  <2>2. (\E i \in DOMAIN t : t[i] = e) <=>
          (\E i \in DOMAIN terminals : terminals[i] = e) \/ (v = verb /\ h = handler /\ New)
    BY <1>4 DEF Gains
  <2>3. Holds(new, word, w, v, h) <=>
          \/ \E n \in DOMAIN tree \ {at} : word[n] = w /\ \E i \in DOMAIN tree[n].terminals :
               tree[n].terminals[i] = e
          \/ word[at] = w /\ \E i \in DOMAIN t : t[i] = e
    BY <1>8, <1>9 DEF Holds
  <2>4. Holds(tree, word, w, v, h) <=>
          \/ \E n \in DOMAIN tree \ {at} : word[n] = w /\ \E i \in DOMAIN tree[n].terminals :
               tree[n].terminals[i] = e
          \/ word[at] = w /\ \E i \in DOMAIN terminals : terminals[i] = e
    BY DEF Holds
  <2> HIDE DEF New, terminals, e
  <2> QED
    BY <2>1, <2>2, <2>3, <2>4
<1> QED
  BY <1>13, <1>15 DEF PutIfAbsent

-----------------------------------------------------------------------------
(* Templates as words *)

LEMMA SymbolsOfType ==
  ASSUME NEW seg \in Segment
  PROVE  SymbolsOf(seg) \in Words
<1>1. seg.kind \in Kinds /\ seg.literal \in Seq(STRING) /\ seg.name \in STRING
      /\ seg.expr \in Seq(Element)
  BY DEF Segment, Element
<1>2. CASE seg.kind = "literal"
  <2> DEFINE L == Len(seg.literal) + 1
             name(i) == IF i = 1 THEN Slash ELSE seg.literal[i - 1]
             s == [i \in 1..L |-> Symbol("literal", name(i), <<>>)]
  <2>1. L \in Nat
    BY <1>1
  <2>2. \A i \in 1..L : name(i) \in STRING \cup {Slash}
    <3> SUFFICES ASSUME NEW i \in 1..L PROVE name(i) \in STRING \cup {Slash}
      OBVIOUS
    <3>1. CASE i = 1
      BY <3>1
    <3>2. CASE i # 1
      <4>1. i - 1 \in 1..Len(seg.literal)
        BY <1>1, <3>2
      <4> QED
        BY <1>1, <3>2, <4>1
    <3> QED
      BY <3>1, <3>2
  <2> HIDE DEF L, name
  <2>3. \A i \in 1..L : Symbol("literal", name(i), <<>>) \in Letters
    BY <2>2 DEF Symbol, Letters, Kinds
  <2>4. s \in [1..L -> Letters]
    BY <2>3
  <2>5. s \in Seq(Letters)
    BY <2>1, <2>4
  <2>6. SymbolsOf(seg) = s
    BY <1>2 DEF SymbolsOf, name, L
  <2> QED
    BY <2>5, <2>6 DEF Words
<1>3. CASE seg.kind # "literal"
  <2>1. SymbolsOf(seg) = <<Symbol(seg.kind, seg.name, seg.expr)>>
    BY <1>3 DEF SymbolsOf
  <2>2. Symbol(seg.kind, seg.name, seg.expr) \in Letters
    BY <1>1 DEF Symbol, Letters
  <2> QED
    BY <2>1, <2>2 DEF Words
<1> QED
  BY <1>2, <1>3

LEMMA SymbolsType ==
  ASSUME NEW segments \in Seq(Segment)
  PROVE  Symbols(segments) \in Words
<1> DEFINE L == Len(segments)
           none == <<>>
           S == Words
           Longer(s, i) == s \o SymbolsOf(segments[i])
           Is(f) == f = [i \in 0..L |-> IF i = 0 THEN none ELSE Longer(f[i - 1], i)]
           upTo == CHOOSE f : Is(f)
           G == [n \in 1..L |-> [s \in S |-> Longer(s, n)]]
<1>1. L \in Nat /\ \A n \in 1..L : segments[n] \in Segment
  OBVIOUS
<1>2. \A n \in 1..L : SymbolsOf(segments[n]) \in Words
  BY <1>1, SymbolsOfType
<1>3. Symbols(segments) = upTo[L]
  BY DEF Symbols
<1> HIDE DEF L
<1>4. \A s \in S, n \in 1..L : Longer(s, n) \in S
  BY <1>2, ConcatProperties DEF Words
<1>5. none \in S
  BY DEF Words
<1> HIDE DEF none, S, Longer
<1>6. G \in [1..L -> [S -> S]]
  BY <1>4
<1> HIDE DEF G
<1>7. PICK f \in [0..L -> S] : f[0] = none /\ \A n \in 1..L : f[n] = G[n][f[n - 1]]
  <2>1. L \in Nat
    BY <1>1
  <2>2. \E f \in [0..L -> S] : f[0] = none /\ \A n \in 1..L : f[n] = G[n][f[n - 1]]
    BY ONLY <2>1, <1>5, <1>6, Recursion
  <2> QED
    BY <2>2
<1>8. \A n \in 1..L : f[n] = Longer(f[n - 1], n)
  <2> SUFFICES ASSUME NEW n \in 1..L PROVE f[n] = Longer(f[n - 1], n)
    OBVIOUS
  <2>1. f[n - 1] \in S
    BY <1>1, <1>7
  <2> QED
    BY <1>7, <2>1 DEF G
<1>9. Is(f)
  BY <1>1, <1>7, <1>8
<1>10. Is(upTo)
  BY <1>9
<1> HIDE DEF upTo
<1>11. \A i \in 0..L : upTo[i] = IF i = 0 THEN none ELSE Longer(upTo[i - 1], i)
  BY <1>10
<1>12. upTo[0] = none
  BY <1>1, <1>11
<1>13. \A n \in 1..L : upTo[n - 1] \in S => upTo[n] = G[n][upTo[n - 1]]
  BY <1>1, <1>11 DEF G
<1>14. \A n \in 0..L : upTo[n] \in S
  BY ONLY <1>1, <1>5, <1>6, <1>12, <1>13, Recursive
<1> QED
  BY <1>1, <1>3, <1>14 DEF S

Patterns == [segments : Seq(Segment), verb : Element]

\* Insert keeps a radix tree, and puts the handler at its template, where no
\* other was registered before.
THEOREM InsertPuts ==
  ASSUME NEW tree, NEW word, Radix(tree, word), NEW pattern \in Patterns,
         NEW handler \in Handlers
  PROVE  \E next :
           /\ Radix(Insert(tree, pattern, handler), next)
           /\ PutIfAbsent(tree, word, Symbols(pattern.segments), pattern.verb, handler,
                          Insert(tree, pattern, handler), next)
<1> DEFINE K == Symbols(pattern.segments)
           L == Len(K)
           s0 == [tree |-> tree, at |-> 1, left |-> K]
           walk == CHOOSE f : f = [n \in 0..L |-> IF n = 0 THEN s0 ELSE OneDown(f[n - 1])]
           end == walk[L]
           new == [end.tree EXCEPT ![end.at].terminals = AddTerminal(@, pattern.verb, handler)]
<1>1. pattern.segments \in Seq(Segment) /\ pattern.verb \in Element
  BY DEF Patterns
<1>2. K \in Words
  BY <1>1, SymbolsType
<1>3. Insert(tree, pattern, handler) = new
  BY DEF Insert
<1> HIDE DEF K, L, s0, walk
<1>4. /\ L = Len(K) /\ s0 = [tree |-> tree, at |-> 1, left |-> K]
      /\ walk = CHOOSE f : f = [n \in 0..L |-> IF n = 0 THEN s0 ELSE OneDown(f[n - 1])]
  BY DEF L, s0, walk
<1>5. end \in Way(tree, word, K) /\ end.left = <<>>
  BY <1>2, <1>4, InsertWalk
<1> HIDE DEF end
<1>6. PICK next : /\ Radix(end.tree, next) /\ SameContent(tree, word, end.tree, next)
                  /\ end.at \in DOMAIN end.tree /\ Join(next[end.at], end.left) = K
  BY <1>5 DEF Way
<1>7. next[end.at] = K
  <2>1. next[end.at] \in Words
    BY <1>6 DEF Radix
  <2> QED
    BY <1>5, <1>6, <2>1, ConcatEmptySeq DEF Join, Words
<1>8. /\ Radix(new, next)
      /\ PutIfAbsent(end.tree, next, next[end.at], pattern.verb, handler, new, next)
  BY <1>1, <1>6, PutOK
<1>9. PutIfAbsent(tree, word, K, pattern.verb, handler, new, next)
  <2> HIDE DEF new
  <2> QED
    BY <1>6, <1>7, <1>8 DEF PutIfAbsent, SameContent
<1> QED
  BY <1>3, <1>8, <1>9 DEF K

\* The tree of a new mux.
LEMMA EmptyTree == Radix(NewRouteTree, [n \in {1} |-> <<>>])
<1> DEFINE tree == NewRouteTree
           word == [n \in {1} |-> <<>>]
<1>1. tree = <<[key |-> <<>>, terminals |-> <<>>, children |-> <<>>]>>
  BY DEF NewRouteTree, NewNode
<1>2. [key |-> <<>>, terminals |-> <<>>, children |-> <<>>] \in Nodes
  BY DEF Nodes, Words, Terminals
<1>3. tree \in Seq(Nodes) /\ Len(tree) = 1 /\ DOMAIN tree = {1}
  BY <1>1, <1>2
<1>4. tree[1].key = <<>> /\ tree[1].children = <<>> /\ tree[1].terminals = <<>>
  BY <1>1
<1>5. word \in [DOMAIN tree -> Words] /\ word[1] = <<>> /\ DOMAIN word = {1}
  BY <1>3 DEF Words
<1> HIDE DEF tree, word
<1>6. Kids(tree, 1) = {}
  BY <1>4 DEF Kids, Range
<1>7. NodeOK(tree, 1)
  BY <1>4 DEF NodeOK
<1>8. Spelled(tree, word) /\ Distinct(word) /\ Parented(tree) /\ Complete(tree, word)
  BY <1>3, <1>5, <1>6 DEF Spelled, Distinct, Parented, Complete
<1>9. Radix(tree, word)
  BY <1>3, <1>4, <1>5, <1>7, <1>8 DEF Radix
<1> QED
  BY <1>9 DEF tree, word

\* A radix tree is well formed in the sense of RouteTree.
LEMMA RadixIsTree ==
  ASSUME NEW tree, NEW word, Radix(tree, word)
  PROVE  TreeOK(tree)
<1>1. \A c \in 2..Len(tree) : \E p \in DOMAIN tree : c \in Range(tree[p].children)
  BY DEF Radix, Parented, Kids
<1>2. \A p, q \in DOMAIN tree :
        p # q => Range(tree[p].children) \cap Range(tree[q].children) = {}
  <2> SUFFICES ASSUME NEW p \in DOMAIN tree, NEW q \in DOMAIN tree,
                      NEW c \in Kids(tree, p), c \in Kids(tree, q)
               PROVE  p = q
    BY DEF Kids
  <2> QED
    BY OneParent
<1> QED
  BY <1>1, <1>2 DEF Radix, TreeOK

-----------------------------------------------------------------------------
(* lookup finds what was put *)

\* A handler of the tree.
Has(tree, handler) ==
  \E n \in DOMAIN tree : \E i \in DOMAIN tree[n].terminals : tree[n].terminals[i].handler = handler

\* The calls that are still to be made are of nodes of the tree.
Visits(tree, calls_) ==
  \E X : calls_ \in Seq(X) /\ \A x \in X : x.call # "delete" => x.node \in DOMAIN tree

\* The states of lookup.
Looking(tree, w) ==
  /\ w = [calls |-> w.calls, handler |-> w.handler, params |-> w.params]
  /\ Visits(tree, w.calls)
  /\ w.handler = None \/ Has(tree, w.handler)

LEMMA VisitsBoth ==
  ASSUME NEW tree, NEW s, NEW t, Visits(tree, s), Visits(tree, t)
  PROVE  Visits(tree, s \o t)
<1>1. PICK X : s \in Seq(X) /\ \A x \in X : x.call # "delete" => x.node \in DOMAIN tree
  BY DEF Visits
<1>2. PICK Y : t \in Seq(Y) /\ \A y \in Y : y.call # "delete" => y.node \in DOMAIN tree
  BY DEF Visits
<1> DEFINE Z == X \cup Y
<1>3. \A z \in Z : z.call # "delete" => z.node \in DOMAIN tree
  BY <1>1, <1>2
<1>4. X \subseteq Z /\ Y \subseteq Z
  OBVIOUS
<1> HIDE DEF Z
<1>5. s \in Seq(Z) /\ t \in Seq(Z)
  BY ONLY <1>1, <1>2, <1>4, SeqMonotonic
<1>6. s \o t \in Seq(Z)
  BY ONLY <1>5, ConcatProperties
<1> QED
  BY <1>3, <1>6 DEF Visits

LEMMA VisitsBelow ==
  ASSUME NEW tree \in Seq(Nodes), NEW n \in DOMAIN tree, NodeOK(tree, n), NEW path
  PROVE  Visits(tree, VisitChildren(tree[n], path))
<1> DEFINE kids == tree[n].children
           X == {Visit(c, path) : c \in DOMAIN tree}
           s == [i \in DOMAIN kids |-> Visit(kids[i], path)]
<1>1. kids \in Seq(2..Len(tree)) /\ Len(tree) \in Nat /\ DOMAIN tree = 1..Len(tree)
  BY DEF NodeOK
<1>2. Len(kids) \in Nat /\ DOMAIN kids = 1..Len(kids)
  BY <1>1
<1>3. \A i \in DOMAIN kids : kids[i] \in DOMAIN tree
  BY <1>1
<1> HIDE DEF kids
<1>4. s \in [1..Len(kids) -> X]
  BY <1>2, <1>3
<1>5. \A x \in X : x.node \in DOMAIN tree
  <2>1. \A c : Visit(c, path).node = c
    BY DEF Visit
  <2> QED
    BY <2>1
<1> HIDE DEF X, s
<1>6. s \in Seq(X)
  BY <1>2, <1>4
<1>7. Visits(tree, s)
  BY <1>5, <1>6 DEF Visits
<1> QED
  BY <1>7 DEF VisitChildren, s, kids

LEMMA VisitsOne ==
  ASSUME NEW tree, NEW x, x.call # "delete" => x.node \in DOMAIN tree
  PROVE  Visits(tree, <<x>>)
<1> DEFINE X == {x}
<1>1. <<x>> \in Seq(X) /\ \A y \in X : y.call # "delete" => y.node \in DOMAIN tree
  OBVIOUS
<1> HIDE DEF X
<1> QED
  BY <1>1 DEF Visits

LEMMA VisitsNone ==
  ASSUME NEW tree
  PROVE  Visits(tree, <<>>)
<1> DEFINE X == {}
<1>1. <<>> \in Seq(X) /\ \A y \in X : y.call # "delete" => y.node \in DOMAIN tree
  OBVIOUS
<1> HIDE DEF X
<1> QED
  BY <1>1 DEF Visits

\* A terminal that is found is one of the node's.
LEMMA FoundHere ==
  ASSUME NEW tree \in Seq(Nodes), NEW n \in DOMAIN tree,
         NEW places \in SUBSET DOMAIN tree[n].terminals, First(places) > 0
  PROVE  Has(tree, tree[n].terminals[First(places)].handler)
<1>1. tree[n].terminals \in Terminals
  BY NodeTypes
<1>2. Len(tree[n].terminals) \in Nat /\ DOMAIN tree[n].terminals = 1..Len(tree[n].terminals)
  BY <1>1 DEF Terminals
<1>3. First(places) \in places
  <2>1. places \in SUBSET (1..Len(tree[n].terminals))
    BY <1>2
  <2>2. ~(First(places) = 0)
    OBVIOUS
  <2> QED
    BY ONLY <1>2, <2>1, <2>2, FirstPlace
<1> QED
  BY <1>3 DEF Has

LEMMA LookupLiteralOK ==
  ASSUME NEW tree \in Seq(Nodes), NEW n \in DOMAIN tree, NodeOK(tree, n), NEW path, NEW later,
         Visits(tree, later), NEW params
  PROVE  Looking(tree, LookupLiteral(tree[n], path, later, params))
<1> DEFINE node == tree[n]
           prefix == [i \in DOMAIN node.key |-> node.key[i].name]
           rest == Drop(path, Len(prefix))
           places == {j \in DOMAIN node.terminals :
                        StripTrailingSlashes(rest) = node.terminals[j].verb}
           i == First(places)
           go(c) == [calls |-> c \o later, handler |-> None, params |-> params]
           w == LookupLiteral(node, path, later, params)
<1>1. w = IF ~IsPrefix(prefix, path) THEN go(<<>>)
          ELSE IF i > 0 THEN Found(node.terminals[i], params) ELSE go(VisitChildren(node, rest))
  BY DEF LookupLiteral
<1>2. ASSUME NEW c, Visits(tree, c) PROVE Looking(tree, go(c))
  BY <1>2, VisitsBoth DEF Looking
<1>3. Visits(tree, <<>>)
  BY VisitsNone
<1>4. Visits(tree, VisitChildren(node, rest))
  BY VisitsBelow
<1>5. i > 0 => Looking(tree, Found(node.terminals[i], params))
  <2> SUFFICES ASSUME i > 0 PROVE Looking(tree, Found(node.terminals[i], params))
    OBVIOUS
  <2>1. places \in SUBSET DOMAIN node.terminals
    OBVIOUS
  <2> HIDE DEF places
  <2>2. Has(tree, node.terminals[i].handler)
    BY <2>1, FoundHere
  <2> QED
    BY <1>3, <2>2 DEF Looking, Found
<1> HIDE DEF w, go, i, node, prefix, rest
<1>6. Looking(tree, w)
  BY <1>1, <1>2, <1>3, <1>4, <1>5
<1> QED
  BY <1>6 DEF w, node

LEMMA LookupCaptureOK ==
  ASSUME NEW tree \in Seq(Nodes), NEW n \in DOMAIN tree, NodeOK(tree, n), NEW path, NEW taken,
         NEW later, Visits(tree, later), NEW params
  PROVE  Looking(tree, LookupCapture(tree[n], path, taken, later, params))
<1> DEFINE node == tree[n]
           name == node.key[1].name
           value == SubSeq(path, 1, taken)
           rest == Drop(path, taken)
           places == {j \in DOMAIN node.terminals :
                        StripTrailingSlashes(rest) = <<>> /\ IsSuffix(node.terminals[j].verb, value)}
           i == First(places)
           verb == node.terminals[i].verb
           bound == Bind(params, name, SubSeq(value, 1, Len(value) - Len(verb)))
           below == VisitChildren(node, rest)
           all == below \o <<Delete(name)>> \o later
           on == [calls |-> all, handler |-> None, params |-> Bind(params, name, value)]
           w == LookupCapture(node, path, taken, later, params)
<1>1. w = IF i > 0 THEN Found(node.terminals[i], bound) ELSE on
  BY DEF LookupCapture
<1>2. Visits(tree, all)
  <2>1. Visits(tree, below)
    BY VisitsBelow
  <2>2. Visits(tree, <<Delete(name)>>)
    BY VisitsOne DEF Delete
  <2> HIDE DEF below
  <2>3. Visits(tree, below \o <<Delete(name)>>)
    BY <2>1, <2>2, VisitsBoth
  <2> QED
    BY <2>3, VisitsBoth
<1>3. i > 0 => Looking(tree, Found(node.terminals[i], bound))
  <2> SUFFICES ASSUME i > 0 PROVE Looking(tree, Found(node.terminals[i], bound))
    OBVIOUS
  <2>1. places \in SUBSET DOMAIN node.terminals
    OBVIOUS
  <2> HIDE DEF places, bound
  <2>2. Has(tree, node.terminals[i].handler)
    BY <2>1, FoundHere
  <2>3. Visits(tree, <<>>)
    BY VisitsNone
  <2> QED
    BY <2>2, <2>3 DEF Looking, Found
<1> HIDE DEF all
<1>4. Looking(tree, on)
  BY <1>2 DEF Looking
<1> HIDE DEF w, i, node, on, bound
<1>5. Looking(tree, w)
  BY <1>1, <1>3, <1>4
<1> QED
  BY <1>5 DEF w, node

LEMMA NextCallOK ==
  ASSUME NEW tree \in Seq(Nodes), \A n \in DOMAIN tree : NodeOK(tree, n),
         NEW w, Looking(tree, w)
  PROVE  Looking(tree, NextCall(tree, w))
<1> DEFINE call == Head(w.calls)
           later == Tail(w.calls)
<1>1. PICK X : w.calls \in Seq(X) /\ \A x \in X : x.call # "delete" => x.node \in DOMAIN tree
  BY DEF Looking, Visits
<1>2. CASE w.calls = <<>>
  BY <1>2 DEF NextCall
<1>3. CASE w.calls # <<>>
  <2>1. call \in X /\ later \in Seq(X)
    BY <1>1, <1>3, HeadTailProperties
  <2>2. Visits(tree, later)
    BY <1>1, <2>1 DEF Visits
  <2>3. NextCall(tree, w) = LookupStep(tree, w)
    BY <1>3 DEF NextCall
  <2> DEFINE node == tree[call.node]
             rest == SkipSlashes(call.path)
             taken == IF Kind(node) = "param" THEN Len(FirstSegment(rest))
                      ELSE MatchResourceExpr(node.key[1].expr, rest, 0)
  <2>4. LookupStep(tree, w) =
          IF call.call = "delete" THEN [w EXCEPT !.calls = later, !.params = Unbind(@, call.name)]
          ELSE IF Kind(node) = "literal" THEN LookupLiteral(node, call.path, later, w.params)
          ELSE IF taken = NoMatch \/ (Kind(node) = "param" /\ taken = 0)
          THEN [w EXCEPT !.calls = later]
          ELSE LookupCapture(node, rest, taken, later, w.params)
    BY DEF LookupStep
  <2> HIDE DEF call, later, taken, rest
  <2>5. Looking(tree, [w EXCEPT !.calls = later])
    BY <2>2 DEF Looking
  <2>6. Looking(tree, [w EXCEPT !.calls = later, !.params = Unbind(@, call.name)])
    <3> DEFINE v == [w EXCEPT !.calls = later, !.params = Unbind(@, call.name)]
               left == Unbind(w.params, call.name)
    <3> DEFINE u == [w EXCEPT !.calls = later]
    <3>0. u = [calls |-> later, handler |-> w.handler, params |-> w.params]
      BY DEF Looking
    <3>1. v = [u EXCEPT !.params = left]
      BY <3>0
    <3> HIDE DEF u
    <3>3. v = [calls |-> later, handler |-> w.handler, params |-> left]
      BY <3>0, <3>1
    <3> HIDE DEF v, left
    <3>2. Looking(tree, v)
      BY <2>2, <3>3 DEF Looking
    <3> QED
      BY <3>2 DEF v
  <2>7. CASE call.call = "delete"
    BY <2>3, <2>4, <2>6, <2>7
  <2>8. CASE call.call # "delete"
    <3>1. call.node \in DOMAIN tree /\ NodeOK(tree, call.node)
      BY <1>1, <2>1, <2>8
    <3>2. Looking(tree, LookupLiteral(node, call.path, later, w.params))
      BY <2>2, <3>1, LookupLiteralOK
    <3>3. Looking(tree, LookupCapture(node, rest, taken, later, w.params))
      BY <2>2, <3>1, LookupCaptureOK
    <3> HIDE DEF node
    <3> QED
      BY <2>3, <2>4, <2>5, <2>8, <3>2, <3>3
  <2> QED
    BY <2>7, <2>8
<1> QED
  BY <1>2, <1>3

\* lookup returns a handler of the tree, or none.
THEOREM LookupFinds ==
  ASSUME NEW tree \in Seq(Nodes), 1 \in DOMAIN tree, \A n \in DOMAIN tree : NodeOK(tree, n),
         NEW path
  PROVE  Lookup(tree, path).handler = None \/ Has(tree, Lookup(tree, path).handler)
<1> DEFINE L == 2 * Len(tree)
           s0 == [calls |-> <<Visit(1, path)>>, handler |-> None, params |-> NoParams]
           Go(w) == NextCall(tree, w)
           Is(n, f) == f = [i \in 0..n |-> IF i = 0 THEN s0 ELSE Go(f[i - 1])]
           walk == CHOOSE f : Is(L, f)
           end == walk[L]
           T == {n \in 0..L : \E f : Is(n, f)}
           U == {n \in 0..L : Looking(tree, walk[n])}
<1>1. L \in Nat
  OBVIOUS
<1>2. Lookup(tree, path) = [handler |-> end.handler, params |-> end.params]
  BY DEF Lookup
<1>3. Looking(tree, s0)
  <2>1. Visits(tree, <<Visit(1, path)>>)
    BY VisitsOne DEF Visit
  <2> QED
    BY <2>1 DEF Looking
<1>4. \A w : Looking(tree, w) => Looking(tree, Go(w))
  BY NextCallOK
<1> HIDE DEF L, s0, Go
<1>5. 0 \in T
  <2> DEFINE f == [i \in 0..0 |-> s0]
  <2>1. Is(0, f)
    OBVIOUS
  <2> HIDE DEF Is
  <2> QED
    BY <1>1, <2>1
<1>6. ASSUME NEW n \in 1..L, n - 1 \in T PROVE n \in T
  <2>1. PICK f : Is(n - 1, f)
    BY <1>6
  <2>2. n \in Nat /\ n - 1 \in Nat /\ n # 0
    BY <1>1
  <2> DEFINE m == n - 1
             e == Go(f[m])
             g == [i \in 0..n |-> IF i = n THEN e ELSE f[i]]
  <2>3. \A i \in 0..m : f[i] = IF i = 0 THEN s0 ELSE Go(f[i - 1])
    BY <2>1
  <2> HIDE DEF e
  <2>4. \A i \in 0..m : g[i] = f[i]
    BY <2>2
  <2>5. \A i \in 1..n : i - 1 \in 0..m /\ g[i - 1] = f[i - 1]
    BY <2>2, <2>4
  <2>6. \A i \in 0..n : g[i] = IF i = 0 THEN s0 ELSE Go(g[i - 1])
    <3> SUFFICES ASSUME NEW i \in 0..n PROVE g[i] = IF i = 0 THEN s0 ELSE Go(g[i - 1])
      OBVIOUS
    <3>1. CASE i = n
      <4>1. g[i] = e /\ g[i - 1] = f[m]
        BY <2>2, <2>5, <3>1
      <4> QED
        BY <2>2, <3>1, <4>1 DEF e
    <3>2. CASE i # n
      <4>1. i \in 0..m
        BY <2>2, <3>2
      <4>2. g[i] = f[i]
        BY <2>4, <4>1
      <4>3. i # 0 => g[i - 1] = f[i - 1]
        BY <2>2, <2>5
      <4> QED
        BY <2>3, <4>1, <4>2, <4>3
    <3> QED
      BY <3>1, <3>2
  <2>7. Is(n, g)
    <3>1. g = [i \in 0..n |-> g[i]]
      OBVIOUS
    <3> HIDE DEF g
    <3> QED
      BY <2>6, <3>1
  <2> HIDE DEF Is
  <2> QED
    BY <2>7
<1>7. Is(L, walk)
  <2> HIDE DEF T
  <2>1. 0..L \subseteq T
    BY ONLY <1>1, <1>5, <1>6, UpTo
  <2>2. L \in T
    BY <1>1, <2>1
  <2> HIDE DEF Is
  <2> QED
    BY <2>2 DEF T
<1> HIDE DEF walk
<1>8. walk[0] = s0 /\ \A n \in 1..L : walk[n] = Go(walk[n - 1])
  BY <1>1, <1>7
<1>9. 0 \in U
  BY <1>1, <1>3, <1>8
<1>10. ASSUME NEW n \in 1..L, n - 1 \in U PROVE n \in U
  BY <1>1, <1>4, <1>8, <1>10
<1> HIDE DEF U
<1>11. 0..L \subseteq U
  BY ONLY <1>1, <1>9, <1>10, UpTo
<1>12. Looking(tree, end)
  <2>1. L \in U
    BY <1>1, <1>11
  <2> QED
    BY <2>1 DEF U
<1> QED
  BY <1>2, <1>12 DEF Looking

-----------------------------------------------------------------------------
(* Operations as Register prepares them *)

Prepared ==
  [method : Methods, bidi : BOOLEAN, segments : Seq(Segment), verb : Element,
   interceptors : Seq(STRING)]

\* The interceptors are right wherever the template is the declared one.
RightInterceptors(h) ==
  h.pattern \in Declared(h.operation) =>
    h.interceptors = Interceptors \o Operations[h.operation].interceptors

\* There is a route for an operation's template.
Entered(trees, byPath, words, op) ==
  LET m == RouteMethod(op) IN
  IF HasParams(op)
  THEN \E h : Holds(trees[m], words[m], Symbols(op.segments), op.verb, h)
  ELSE PlainPath(op) \in DOMAIN byPath[m]

\* What Register has made of an operation of a service: it is as it was
\* declared, or its path has got longer, or if the service has no prefix then
\* there is a route for it.
OperationOK(trees, byPath, words, op, s, o) ==
  LET own == Operations[o]
      prefix == Services[s].prefix
  IN
  \/ op = own
  \/ /\ op.method = own.method /\ op.bidi = own.bidi /\ op.verb = own.verb
     /\ Len(op.segments) >= Len(prefix) + Len(own.segments)
     /\ prefix = <<>> =>
          /\ op.segments = own.segments
          /\ o \notin Unparsable => Entered(trees, byPath, words, own)

Serves(s, o) == s \in DOMAIN Services /\ o \in Range(Services[s].operations)

OperationsOK(ops, trees, byPath, words) ==
  /\ ops \in [Ids -> Prepared]
  /\ \A s, o : Serves(s, o) => OperationOK(trees, byPath, words, ops[o], s, o)

LEMMA ServedTypes ==
  ASSUME NEW s, NEW o, Serves(s, o)
  PROVE  /\ o \in Ids /\ Services[s].prefix \in Seq(Segment)
         /\ \A t : Serves(t, o) => t = s
<1>1. s \in DOMAIN Services /\ Services[s].prefix \in Seq(Segment)
      /\ Services[s].operations \in Seq(Ids)
  BY MuxAssumption DEF Serves
<1>2. o \in Ids
  <2>1. PICK i \in DOMAIN Services[s].operations : o = Services[s].operations[i]
    BY DEF Serves, Range
  <2> QED
    BY <1>1, <2>1
<1>3. ASSUME NEW t, Serves(t, o), t # s PROVE FALSE
  <2>1. Range(Services[s].operations) \cap Range(Services[t].operations) = {}
    BY <1>1, <1>3, MuxAssumption DEF Serves
  <2> QED
    BY <1>3, <2>1 DEF Serves
<1> QED
  BY <1>1, <1>2, <1>3

\* Two sequences of segments, one after another.
After(s, t) == s \o t

LEMMA AfterOK ==
  ASSUME NEW X, NEW s \in Seq(X), NEW t \in Seq(X)
  PROVE  /\ After(s, t) \in Seq(X) /\ Len(After(s, t)) = Len(s) + Len(t)
         /\ s = <<>> => After(s, t) = t
<1>1. s \o t \in Seq(X) /\ Len(s \o t) = Len(s) + Len(t)
  BY ConcatProperties
<1>2. <<>> \o t = t
  BY ConcatEmptySeq
<1> QED
  BY <1>1, <1>2 DEF After

LEMMA PreparedOK ==
  ASSUME NEW was \in Prepared, NEW prefix \in Seq(Segment),
         NEW op, op = PrepareOperation(was, prefix)
  PROVE  /\ op \in Prepared
         /\ op.method = was.method /\ op.bidi = was.bidi /\ op.verb = was.verb
         /\ op.segments = After(prefix, was.segments)
         /\ op.interceptors = Interceptors \o was.interceptors
<1> DEFINE segs == After(prefix, was.segments)
           ics == Interceptors \o was.interceptors
           one == [was EXCEPT !.segments = segs]
<1>1. /\ was.method \in Methods /\ was.bidi \in BOOLEAN /\ was.segments \in Seq(Segment)
      /\ was.verb \in Element /\ was.interceptors \in Seq(STRING)
      /\ was = [method |-> was.method, bidi |-> was.bidi, segments |-> was.segments,
                verb |-> was.verb, interceptors |-> was.interceptors]
  BY DEF Prepared
<1>2. segs \in Seq(Segment)
  BY <1>1, AfterOK
<1>3. ics \in Seq(STRING)
  BY <1>1, MuxAssumption, ConcatProperties
<1>4. op = [was EXCEPT !.segments = segs, !.interceptors = Interceptors \o @]
  BY DEF PrepareOperation, After
<1>5. one = [method |-> was.method, bidi |-> was.bidi, segments |-> segs,
             verb |-> was.verb, interceptors |-> was.interceptors]
  BY <1>1
<1>6. op = [one EXCEPT !.interceptors = ics]
  BY <1>4, <1>5
<1> HIDE DEF one, segs, ics
<1>7. op = [method |-> was.method, bidi |-> was.bidi, segments |-> segs,
            verb |-> was.verb, interceptors |-> ics]
  BY <1>5, <1>6
<1>8. op \in Prepared
  BY <1>1, <1>2, <1>3, <1>7 DEF Prepared
<1> QED
  BY <1>7, <1>8 DEF segs, ics

\* Where a template is the same, so is the route.
LEMMA SameEntered ==
  ASSUME NEW trees, NEW byPath, NEW words, NEW p, NEW q,
         p.segments = q.segments, p.verb = q.verb, p.method = q.method, p.bidi = q.bidi
  PROVE  Entered(trees, byPath, words, p) <=> Entered(trees, byPath, words, q)
<1>1. RouteMethod(p) = RouteMethod(q) /\ (HasParams(p) <=> HasParams(q))
      /\ PlainPath(p) = PlainPath(q)
  BY DEF RouteMethod, HasParams, PlainPath
<1> QED
  BY <1>1 DEF Entered

\* A handler that Register builds has the right interceptors, or there is a
\* route for its template already.
LEMMA BuiltOK ==
  ASSUME NEW ops, NEW trees, NEW byPath, NEW words, OperationsOK(ops, trees, byPath, words),
         NEW s, NEW o, Serves(s, o), o \notin Unparsable,
         NEW op, op = PrepareOperation(ops[o], Services[s].prefix),
         NEW h, h = [operation |-> o, pattern |-> Pattern(op), interceptors |-> op.interceptors]
  PROVE  /\ h \in Handlers /\ Pattern(op) \in Patterns
         /\ RightInterceptors(h) \/ Entered(trees, byPath, words, op)
<1> DEFINE own == Operations[o]
           prefix == Services[s].prefix
           was == ops[o]
<1>1. o \in Ids /\ prefix \in Seq(Segment) /\ \A t : Serves(t, o) => t = s
  BY ServedTypes
<1>2. was \in Prepared /\ own \in Prepared /\ OperationOK(trees, byPath, words, was, s, o)
  BY <1>1, MuxAssumption DEF OperationsOK, Prepared
<1> HIDE DEF own, prefix, was
<1>3. op = PrepareOperation(was, prefix)
  BY DEF was, prefix
<1>4. /\ op \in Prepared
      /\ op.method = was.method /\ op.bidi = was.bidi /\ op.verb = was.verb
      /\ op.segments = After(prefix, was.segments)
      /\ op.interceptors = Interceptors \o was.interceptors
  BY <1>1, <1>2, <1>3, PreparedOK
<1>5. op.segments \in Seq(Segment) /\ op.verb \in Element /\ op.interceptors \in Seq(STRING)
  BY <1>4 DEF Prepared
<1>6. Pattern(op) = [segments |-> op.segments, verb |-> op.verb] /\ Pattern(op) \in Patterns
  BY <1>5 DEF Pattern, Patterns
<1>7. h \in Handlers
  BY <1>1, <1>5, <1>6 DEF Handlers, Patterns
<1>8. h.operation = o /\ h.pattern.segments = op.segments /\ h.interceptors = op.interceptors
      /\ h.pattern = Pattern(op)
  BY <1>6
<1>9. CASE was = own
  <2>1. h.interceptors = Interceptors \o own.interceptors
    BY <1>4, <1>8, <1>9
  <2>2. RightInterceptors(h)
    BY <1>8, <2>1 DEF RightInterceptors, own
  <2> QED
    BY <1>6, <1>7, <2>2
<1>10. CASE was # own /\ prefix = <<>>
  <2>1. /\ was.method = own.method /\ was.bidi = own.bidi /\ was.verb = own.verb
        /\ was.segments = own.segments /\ Entered(trees, byPath, words, own)
    BY <1>2, <1>10 DEF OperationOK, own, prefix
  <2>2. was.segments \in Seq(Segment)
    BY <1>2 DEF Prepared
  <2>3. op.segments = was.segments
    BY <1>1, <1>4, <1>10, <2>2, AfterOK
  <2>4. Entered(trees, byPath, words, op)
    BY <1>4, <2>1, <2>3, SameEntered
  <2> QED
    BY <1>6, <1>7, <2>4
<1>11. CASE was # own /\ prefix # <<>>
  <2>1. Len(was.segments) >= Len(prefix) + Len(own.segments)
    BY <1>2, <1>11 DEF OperationOK, own, prefix
  <2>2. was.segments \in Seq(Segment) /\ own.segments \in Seq(Segment)
    BY <1>2 DEF Prepared
  <2>3. Len(op.segments) = Len(prefix) + Len(was.segments)
    BY <1>1, <1>4, <2>2, AfterOK
  <2>4. Len(prefix) \in Nat \ {0} /\ Len(was.segments) \in Nat /\ Len(own.segments) \in Nat
    BY <1>1, <1>11, <2>2, EmptySeq
  <2>5. ASSUME h.pattern \in Declared(o) PROVE FALSE
    <3>1. PICK t \in DOMAIN Services : /\ o \in Range(Services[t].operations)
                                       /\ h.pattern = [segments |-> Services[t].prefix \o own.segments,
                                                       verb |-> own.verb]
      BY <2>5 DEF Declared, own
    <3>2. t = s
      BY <1>1, <3>1 DEF Serves
    <3>3. Pattern(op) = [segments |-> After(prefix, own.segments), verb |-> own.verb]
      BY <1>8, <3>1, <3>2 DEF After, prefix
    <3>4. op.segments = After(prefix, own.segments)
      BY <1>6, <3>3
    <3>5. Len(op.segments) = Len(prefix) + Len(own.segments)
      BY <1>1, <2>2, <3>4, AfterOK
    <3> QED
      BY <2>1, <2>3, <2>4, <3>5
  <2>6. RightInterceptors(h)
    BY <1>8, <2>5 DEF RightInterceptors
  <2> QED
    BY <1>6, <1>7, <2>6
<1> QED
  BY <1>6, <1>7, <1>9, <1>10, <1>11

\* What Register makes of one operation leaves them all as they should be, when
\* the routes have only become more and it has one or does not parse.
LEMMA OperationsKept ==
  ASSUME NEW ops, NEW trees, NEW byPath, NEW words, OperationsOK(ops, trees, byPath, words),
         NEW s, NEW o, Serves(s, o),
         NEW op, op = PrepareOperation(ops[o], Services[s].prefix),
         NEW trees2, NEW byPath2, NEW words2,
         \A p \in Prepared :
           Entered(trees, byPath, words, p) => Entered(trees2, byPath2, words2, p),
         o \in Unparsable \/ Entered(trees2, byPath2, words2, op)
  PROVE  OperationsOK([ops EXCEPT ![o] = op], trees2, byPath2, words2)
<1> DEFINE own == Operations[o]
           prefix == Services[s].prefix
           was == ops[o]
           new == [ops EXCEPT ![o] = op]
           OK(p, t, x) == OperationOK(trees2, byPath2, words2, p, t, x)
<1>1. o \in Ids /\ prefix \in Seq(Segment) /\ \A t : Serves(t, o) => t = s
  BY ServedTypes
<1>2. /\ was \in Prepared /\ own \in Prepared /\ ops \in [Ids -> Prepared]
      /\ OperationOK(trees, byPath, words, was, s, o)
  BY <1>1, MuxAssumption DEF OperationsOK, Prepared
<1> HIDE DEF own, prefix, was
<1>3. op = PrepareOperation(was, prefix)
  BY DEF was, prefix
<1>4. /\ op \in Prepared
      /\ op.method = was.method /\ op.bidi = was.bidi /\ op.verb = was.verb
      /\ op.segments = After(prefix, was.segments)
  BY <1>1, <1>2, <1>3, PreparedOK
<1>5. new \in [Ids -> Prepared] /\ new[o] = op /\ \A x \in Ids : x # o => new[x] = ops[x]
  BY <1>1, <1>2, <1>4
<1> HIDE DEF new
<1>6. was.segments \in Seq(Segment) /\ own.segments \in Seq(Segment)
  BY <1>2 DEF Prepared
<1>7. /\ Len(op.segments) = Len(prefix) + Len(was.segments)
      /\ prefix = <<>> => op.segments = was.segments
  BY <1>1, <1>4, <1>6, AfterOK
<1>8. Len(prefix) \in Nat /\ Len(was.segments) \in Nat /\ Len(own.segments) \in Nat
  BY <1>1, <1>6
<1>9. /\ was.method = own.method /\ was.bidi = own.bidi /\ was.verb = own.verb
      /\ Len(was.segments) >= Len(own.segments)
      /\ prefix = <<>> => was.segments = own.segments
  <2>1. CASE was = own
    BY <1>8, <2>1
  <2>2. CASE was # own
    <3>1. /\ was.method = own.method /\ was.bidi = own.bidi /\ was.verb = own.verb
          /\ Len(was.segments) >= Len(prefix) + Len(own.segments)
          /\ prefix = <<>> => was.segments = own.segments
      BY <1>2, <2>2 DEF OperationOK, own, prefix
    <3> QED
      BY <1>8, <3>1
  <2> QED
    BY <2>1, <2>2
<1>10. OK(op, s, o)
  <2>1. op.method = own.method /\ op.bidi = own.bidi /\ op.verb = own.verb
    BY <1>4, <1>9
  <2>2. Len(op.segments) >= Len(prefix) + Len(own.segments)
    BY <1>7, <1>8, <1>9
  <2>3. prefix = <<>> => op.segments = own.segments
    BY <1>7, <1>9
  <2>4. prefix = <<>> /\ o \notin Unparsable => Entered(trees2, byPath2, words2, own)
    BY <2>1, <2>3, SameEntered
  <2> QED
    BY <2>1, <2>2, <2>3, <2>4 DEF OperationOK, own, prefix
<1>11. ASSUME NEW t, NEW x, Serves(t, x), x # o PROVE OK(new[x], t, x)
  <2>1. x \in Ids /\ Operations[x] \in Prepared
    BY <1>11, ServedTypes, MuxAssumption DEF Prepared
  <2>2. new[x] = ops[x] /\ OperationOK(trees, byPath, words, ops[x], t, x)
    BY <1>5, <1>11, <2>1 DEF OperationsOK
  <2>3. Entered(trees, byPath, words, Operations[x])
          => Entered(trees2, byPath2, words2, Operations[x])
    BY <2>1
  <2> QED
    BY <2>2, <2>3 DEF OperationOK
<1>12. ASSUME NEW t, NEW x, Serves(t, x) PROVE OK(new[x], t, x)
  <2>1. CASE x = o
    <3>1. t = s
      BY <1>1, <1>12, <2>1
    <3> QED
      BY <1>5, <1>10, <2>1, <3>1
  <2>2. CASE x # o
    BY <1>11, <1>12, <2>2
  <2> QED
    BY <2>1, <2>2
<1>13. OperationsOK(new, trees2, byPath2, words2)
  BY <1>5, <1>12 DEF OperationsOK
<1> QED
  BY <1>13 DEF new

-----------------------------------------------------------------------------
(* The first route of a template *)

Routes == [method : Methods, handler : Handlers]

\* The handler of the first route in a set.
Earliest(rs, D, h) ==
  \E i \in DOMAIN rs : rs[i] \in D /\ rs[i].handler = h /\ \A j \in 1..(i - 1) : rs[j] \notin D

LEMMA SomeEarliest ==
  ASSUME NEW rs \in Seq(Routes), NEW D
  PROVE  (\A h : ~Earliest(rs, D, h)) <=> \A i \in DOMAIN rs : rs[i] \notin D
<1>1. Len(rs) \in Nat /\ DOMAIN rs = 1..Len(rs)
  OBVIOUS
<1>2. ASSUME NEW k \in DOMAIN rs, rs[k] \in D PROVE \E h : Earliest(rs, D, h)
  <2> DEFINE T == {i \in DOMAIN rs : rs[i] \in D}
  <2>1. T \in SUBSET Nat /\ T # {}
    BY <1>1, <1>2
  <2>2. PICK i \in T : \A y \in T : i <= y
    BY <2>1, LeastElement
  <2>3. i \in DOMAIN rs /\ rs[i] \in D
    BY <2>2
  <2>4. \A j \in 1..(i - 1) : j \in DOMAIN rs /\ ~(i <= j)
    BY <1>1, <2>3
  <2>5. \A j \in 1..(i - 1) : rs[j] \notin D
    BY <2>2, <2>4
  <2>6. Earliest(rs, D, rs[i].handler)
    BY <2>3, <2>5 DEF Earliest
  <2> QED
    BY <2>6
<1> QED
  BY <1>2 DEF Earliest

\* A route that is appended is the first only where there was none.
LEMMA EarliestAppend ==
  ASSUME NEW rs \in Seq(Routes), NEW r \in Routes, NEW D, NEW h
  PROVE  Earliest(Append(rs, r), D, h) <=>
           \/ Earliest(rs, D, h)
           \/ r \in D /\ r.handler = h /\ \A g : ~Earliest(rs, D, g)
<1> DEFINE L == Len(rs)
           new == Append(rs, r)
<1>1. L \in Nat /\ DOMAIN rs = 1..L
  OBVIOUS
<1>2. new \in Seq(Routes) /\ Len(new) = L + 1 /\ new[L + 1] = r
      /\ \A i \in 1..L : new[i] = rs[i]
  BY AppendProperties
<1>3. DOMAIN new = 1..(L + 1)
  BY <1>1, <1>2
<1>4. (\A g : ~Earliest(rs, D, g)) <=> \A i \in 1..L : rs[i] \notin D
  BY <1>1, SomeEarliest
<1> HIDE DEF new, L
<1>5. ASSUME Earliest(rs, D, h) PROVE Earliest(new, D, h)
  <2>1. PICK i \in 1..L : /\ rs[i] \in D /\ rs[i].handler = h
                          /\ \A j \in 1..(i - 1) : rs[j] \notin D
    BY <1>1, <1>5 DEF Earliest
  <2>2. i \in DOMAIN new /\ new[i] = rs[i] /\ \A j \in 1..(i - 1) : new[j] = rs[j]
    BY <1>1, <1>2, <1>3
  <2> QED
    BY <2>1, <2>2 DEF Earliest
<1>6. ASSUME r \in D, r.handler = h, \A i \in 1..L : rs[i] \notin D PROVE Earliest(new, D, h)
  <2>1. /\ L + 1 \in DOMAIN new /\ new[L + 1] = r
        /\ \A j \in 1..((L + 1) - 1) : new[j] = rs[j]
        /\ \A j \in 1..((L + 1) - 1) : j \in 1..L
    BY <1>1, <1>2, <1>3
  <2> QED
    BY <1>6, <2>1 DEF Earliest
<1>7. ASSUME Earliest(new, D, h)
      PROVE  \/ Earliest(rs, D, h)
             \/ r \in D /\ r.handler = h /\ \A i \in 1..L : rs[i] \notin D
  <2>1. PICK i \in 1..(L + 1) : /\ new[i] \in D /\ new[i].handler = h
                                /\ \A j \in 1..(i - 1) : new[j] \notin D
    BY <1>3, <1>7 DEF Earliest
  <2>2. CASE i = L + 1
    <3>1. \A j \in 1..L : j \in 1..(i - 1)
      BY <1>1, <2>2
    <3> QED
      BY <1>2, <2>1, <2>2, <3>1
  <2>3. CASE i # L + 1
    <3>1. i \in 1..L /\ \A j \in 1..(i - 1) : j \in 1..L
      BY <1>1, <2>3
    <3>2. rs[i] \in D /\ rs[i].handler = h /\ \A j \in 1..(i - 1) : rs[j] \notin D
      BY <1>2, <2>1, <3>1
    <3>3. Earliest(rs, D, h)
      BY <1>1, <3>1, <3>2 DEF Earliest
    <3> QED
      BY <3>3
  <2> QED
    BY <2>2, <2>3
<1>8. Earliest(new, D, h) <=>
        \/ Earliest(rs, D, h)
        \/ r \in D /\ r.handler = h /\ \A g : ~Earliest(rs, D, g)
  BY <1>4, <1>5, <1>6, <1>7
<1> QED
  BY <1>8 DEF new

\* The routes of a template with parameters, and those of a path without.
TreeTemplate(m, w, v) ==
  {r \in Routes : /\ r.method = m /\ HasParams(r.handler.pattern)
                  /\ Symbols(r.handler.pattern.segments) = w /\ r.handler.pattern.verb = v}
ExactPath(m, p) ==
  {r \in Routes : /\ r.method = m /\ ~HasParams(r.handler.pattern)
                  /\ PlainPath(r.handler.pattern) = p}

\* A method's tree holds the first route of each template, and its map that of
\* each path.
TreeFirst(rs, m, tree, word) ==
  \A w, v, h : Holds(tree, word, w, v, h) <=> Earliest(rs, TreeTemplate(m, w, v), h)
MapFirst(rs, m, byPath) ==
  \A p, h : (p \in DOMAIN byPath /\ byPath[p] = h) <=> Earliest(rs, ExactPath(m, p), h)

LEMMA TreeUnchanged ==
  ASSUME NEW rs \in Seq(Routes), NEW r \in Routes, NEW m, NEW tree, NEW word,
         TreeFirst(rs, m, tree, word), r.method # m \/ ~HasParams(r.handler.pattern)
  PROVE  TreeFirst(Append(rs, r), m, tree, word)
<1>1. \A w, v : r \notin TreeTemplate(m, w, v)
  BY DEF TreeTemplate
<1>2. \A w, v, h : Earliest(Append(rs, r), TreeTemplate(m, w, v), h)
                     <=> Earliest(rs, TreeTemplate(m, w, v), h)
  BY <1>1, EarliestAppend
<1> QED
  BY <1>2 DEF TreeFirst

LEMMA MapUnchanged ==
  ASSUME NEW rs \in Seq(Routes), NEW r \in Routes, NEW m, NEW byPath,
         MapFirst(rs, m, byPath), r.method # m \/ HasParams(r.handler.pattern)
  PROVE  MapFirst(Append(rs, r), m, byPath)
<1>1. \A p : r \notin ExactPath(m, p)
  BY DEF ExactPath
<1>2. \A p, h : Earliest(Append(rs, r), ExactPath(m, p), h) <=> Earliest(rs, ExactPath(m, p), h)
  BY <1>1, EarliestAppend
<1> QED
  BY <1>2 DEF MapFirst

LEMMA TreePut ==
  ASSUME NEW rs \in Seq(Routes), NEW r \in Routes, NEW m, m = r.method,
         NEW pattern, pattern = r.handler.pattern, HasParams(pattern),
         NEW tree, NEW word, TreeFirst(rs, m, tree, word), NEW new, NEW next,
         PutIfAbsent(tree, word, Symbols(pattern.segments), pattern.verb, r.handler, new, next)
  PROVE  TreeFirst(Append(rs, r), m, new, next)
<1> SUFFICES ASSUME NEW w, NEW v, NEW h
             PROVE  Holds(new, next, w, v, h)
                      <=> Earliest(Append(rs, r), TreeTemplate(m, w, v), h)
  BY DEF TreeFirst
<1> DEFINE D == TreeTemplate(m, w, v)
           K == Symbols(pattern.segments)
<1>1. r \in D <=> w = K /\ v = pattern.verb
  BY DEF TreeTemplate
<1>2. \A g : Holds(tree, word, w, v, g) <=> Earliest(rs, D, g)
  BY DEF TreeFirst
<1>3. Holds(new, next, w, v, h) <=>
        \/ Holds(tree, word, w, v, h)
        \/ /\ w = K /\ v = pattern.verb /\ h = r.handler
           /\ \A g : ~Holds(tree, word, K, pattern.verb, g)
  BY DEF PutIfAbsent
<1> HIDE DEF D, K
<1>4. Earliest(Append(rs, r), D, h) <=>
        \/ Earliest(rs, D, h)
        \/ r \in D /\ r.handler = h /\ \A g : ~Earliest(rs, D, g)
  BY EarliestAppend
<1>5. Holds(new, next, w, v, h) <=> Earliest(Append(rs, r), D, h)
  BY ONLY <1>1, <1>2, <1>3, <1>4
<1> QED
  BY <1>5 DEF D

LEMMA MapPut ==
  ASSUME NEW rs \in Seq(Routes), NEW r \in Routes, NEW m, m = r.method,
         NEW pattern, pattern = r.handler.pattern, ~HasParams(pattern),
         NEW byPath, MapFirst(rs, m, byPath),
         NEW new, new = AddExact(byPath, PlainPath(pattern), r.handler)
  PROVE  MapFirst(Append(rs, r), m, new)
<1> SUFFICES ASSUME NEW p, NEW h
             PROVE  (p \in DOMAIN new /\ new[p] = h)
                      <=> Earliest(Append(rs, r), ExactPath(m, p), h)
  BY DEF MapFirst
<1> DEFINE D == ExactPath(m, p)
           path == PlainPath(pattern)
<1>1. r \in D <=> p = path
  BY DEF ExactPath
<1>2. \A g : (p \in DOMAIN byPath /\ byPath[p] = g) <=> Earliest(rs, D, g)
  BY DEF MapFirst
<1>3. /\ DOMAIN new = DOMAIN byPath \cup {path}
      /\ \A x \in DOMAIN byPath : new[x] = byPath[x]
      /\ path \notin DOMAIN byPath => new[path] = r.handler
  BY DEF AddExact, Bind
<1> HIDE DEF D, path
<1>4. Earliest(Append(rs, r), D, h) <=>
        \/ Earliest(rs, D, h)
        \/ r \in D /\ r.handler = h /\ \A g : ~Earliest(rs, D, g)
  BY EarliestAppend
<1>5. (p \in DOMAIN new /\ new[p] = h) <=> Earliest(Append(rs, r), D, h)
  BY ONLY <1>1, <1>2, <1>3, <1>4
<1> QED
  BY <1>5 DEF D

-----------------------------------------------------------------------------
(* Register *)

\* The trees with the words that their keys spell, and the maps of exact paths.
TreesOK(trees, words) ==
  /\ trees = [m \in Methods |-> trees[m]] /\ words = [m \in Methods |-> words[m]]
  /\ \A m \in Methods :
       /\ Radix(trees[m], words[m])
       /\ \A w, v, h : Holds(trees[m], words[m], w, v, h) => RightInterceptors(h)
MapsOK(byPath) ==
  /\ byPath = [m \in Methods |-> byPath[m]]
  /\ \A m \in Methods : \A p \in DOMAIN byPath[m] : RightInterceptors(byPath[m][p])
RoutesOK(rs, trees, byPath, words) ==
  /\ rs \in Seq(Routes)
  /\ \A m \in Methods : TreeFirst(rs, m, trees[m], words[m]) /\ MapFirst(rs, m, byPath[m])

MuxOK(mux, words) ==
  /\ mux = [operations |-> mux.operations, exact |-> mux.exact, wildcard |-> mux.wildcard,
            routes |-> mux.routes, err |-> mux.err]
  /\ OperationsOK(mux.operations, mux.wildcard, mux.exact, words)
  /\ TreesOK(mux.wildcard, words)
  /\ MapsOK(mux.exact)
  /\ RoutesOK(mux.routes, mux.wildcard, mux.exact, words)

LEMMA RouteMethodOK ==
  ASSUME NEW op \in Prepared
  PROVE  RouteMethod(op) \in Methods
BY DEF RouteMethod, Prepared, Methods

LEMMA PatternParams ==
  ASSUME NEW op
  PROVE  /\ HasParams(Pattern(op)) <=> HasParams(op)
         /\ PlainPath(Pattern(op)) = PlainPath(op)
         /\ Pattern(op).segments = op.segments /\ Pattern(op).verb = op.verb
<1>1. Pattern(op).segments = op.segments /\ Pattern(op).verb = op.verb
  BY DEF Pattern
<1> QED
  BY <1>1 DEF HasParams, PlainPath

\* A route into a tree.
LEMMA TreesPut ==
  ASSUME NEW trees, NEW words, TreesOK(trees, words), NEW byPath, MapsOK(byPath),
         NEW rs, RoutesOK(rs, trees, byPath, words),
         NEW op \in Prepared, NEW h \in Handlers, Pattern(op) \in Patterns,
         h.pattern = Pattern(op), HasParams(op),
         RightInterceptors(h) \/ Entered(trees, byPath, words, op),
         NEW m, m = RouteMethod(op),
         NEW new, new = [trees EXCEPT ![m] = Insert(@, Pattern(op), h)]
  PROVE  \E next :
           /\ TreesOK(new, next)
           /\ RoutesOK(Append(rs, [method |-> m, handler |-> h]), new, byPath, next)
           /\ Entered(new, byPath, next, op)
           /\ \A p \in Prepared :
                Entered(trees, byPath, words, p) => Entered(new, byPath, next, p)
<1> DEFINE pattern == Pattern(op)
           K == Symbols(op.segments)
           tree == trees[m]
           word == words[m]
           inserted == Insert(tree, pattern, h)
           r == [method |-> m, handler |-> h]
<1>1. m \in Methods
  BY RouteMethodOK
<1>2. HasParams(pattern) /\ pattern.segments = op.segments /\ pattern.verb = op.verb
  BY PatternParams
<1>3. Radix(tree, word) /\ \A w, v, g : Holds(tree, word, w, v, g) => RightInterceptors(g)
  BY <1>1 DEF TreesOK
<1> HIDE DEF pattern, tree, word
<1>4. pattern \in Patterns /\ h.pattern = pattern
  BY DEF pattern
<1>5. PICK word2 :
        /\ Radix(inserted, word2)
        /\ PutIfAbsent(tree, word, Symbols(pattern.segments), pattern.verb, h, inserted, word2)
  BY <1>3, <1>4, InsertPuts
<1> DEFINE next == [words EXCEPT ![m] = word2]
<1> HIDE DEF inserted
<1>6. /\ new = [n \in Methods |-> new[n]] /\ new[m] = inserted
      /\ \A n \in Methods : n # m => new[n] = trees[n]
  <2>1. trees = [n \in Methods |-> trees[n]]
    BY DEF TreesOK
  <2>2. new = [trees EXCEPT ![m] = inserted]
    BY DEF inserted, tree, pattern
  <2> QED
    BY <1>1, <2>1, <2>2
<1>7. /\ next = [n \in Methods |-> next[n]] /\ next[m] = word2
      /\ \A n \in Methods : n # m => next[n] = words[n]
  <2>1. words = [n \in Methods |-> words[n]]
    BY DEF TreesOK
  <2> QED
    BY <1>1, <2>1
<1> HIDE DEF next
<1>8. PutIfAbsent(tree, word, K, op.verb, h, inserted, word2)
  BY <1>2, <1>5
<1> HIDE DEF K
<1>9. ASSUME NEW w, NEW v, NEW g, Holds(inserted, word2, w, v, g) PROVE RightInterceptors(g)
  <2>1. CASE Holds(tree, word, w, v, g)
    BY <1>3, <2>1
  <2>2. CASE g = h /\ \A f : ~Holds(tree, word, K, op.verb, f)
    <3>1. ~Entered(trees, byPath, words, op)
      BY <2>2 DEF Entered, tree, word, K
    <3> QED
      BY <2>2, <3>1
  <2> QED
    BY <1>8, <1>9, <2>1, <2>2 DEF PutIfAbsent
<1>10. TreesOK(new, next)
  <2>1. ASSUME NEW n \in Methods
        PROVE  /\ Radix(new[n], next[n])
               /\ \A w, v, g : Holds(new[n], next[n], w, v, g) => RightInterceptors(g)
    <3>1. CASE n = m
      BY <1>5, <1>6, <1>7, <1>9, <3>1
    <3>2. CASE n # m
      BY <1>6, <1>7, <3>2 DEF TreesOK
    <3> QED
      BY <3>1, <3>2
  <2> QED
    BY <1>6, <1>7, <2>1 DEF TreesOK
<1>11. \E g : Holds(inserted, word2, K, op.verb, g)
  BY <1>8 DEF PutIfAbsent
<1>12. Entered(new, byPath, next, op)
  BY <1>6, <1>7, <1>11 DEF Entered, K
<1>13. ASSUME NEW p \in Prepared, Entered(trees, byPath, words, p)
       PROVE  Entered(new, byPath, next, p)
  <2> DEFINE n == RouteMethod(p)
  <2>1. n \in Methods
    BY RouteMethodOK
  <2>2. \A w, v, g : Holds(trees[n], words[n], w, v, g) => Holds(new[n], next[n], w, v, g)
    <3>1. CASE n = m
      BY <1>6, <1>7, <1>8, <3>1 DEF PutIfAbsent, tree, word
    <3>2. CASE n # m
      BY <1>6, <1>7, <2>1, <3>2
    <3> QED
      BY <3>1, <3>2
  <2> QED
    BY <1>13, <2>2 DEF Entered
<1>14. r \in Routes /\ r.method = m /\ r.handler = h
  BY <1>1 DEF Routes
<1> HIDE DEF r
<1>15. rs \in Seq(Routes) /\ Append(rs, r) \in Seq(Routes)
  <2>1. rs \in Seq(Routes)
    BY DEF RoutesOK
  <2> QED
    BY <1>14, <2>1, AppendProperties
<1>16. ASSUME NEW n \in Methods
       PROVE  TreeFirst(Append(rs, r), n, new[n], next[n]) /\ MapFirst(Append(rs, r), n, byPath[n])
  <2>1. TreeFirst(rs, n, trees[n], words[n]) /\ MapFirst(rs, n, byPath[n])
    BY DEF RoutesOK
  <2>2. HasParams(r.handler.pattern)
    BY <1>2, <1>4, <1>14
  <2>3. MapFirst(Append(rs, r), n, byPath[n])
    BY <1>14, <1>15, <2>1, <2>2, MapUnchanged
  <2>4. CASE n = m
    <3>1. TreeFirst(rs, m, tree, word)
      BY <2>1, <2>4 DEF tree, word
    <3>2. m = r.method /\ pattern = r.handler.pattern /\ HasParams(pattern)
          /\ PutIfAbsent(tree, word, Symbols(pattern.segments), pattern.verb, r.handler,
                         inserted, word2)
      BY <1>2, <1>4, <1>5, <1>14
    <3>3. TreeFirst(Append(rs, r), m, inserted, word2)
      BY <1>14, <1>15, <3>1, <3>2, TreePut
    <3> QED
      BY <1>6, <1>7, <2>3, <2>4, <3>3
  <2>5. CASE n # m
    <3>1. TreeFirst(Append(rs, r), n, trees[n], words[n])
      BY <1>14, <1>15, <2>1, <2>5, TreeUnchanged
    <3> QED
      BY <1>6, <1>7, <2>3, <2>5, <3>1
  <2> QED
    BY <2>4, <2>5
<1>17. RoutesOK(Append(rs, r), new, byPath, next)
  BY <1>15, <1>16 DEF RoutesOK
<1> QED
  BY <1>10, <1>12, <1>13, <1>17 DEF r

\* A route into the map of exact paths.
LEMMA MapsPut ==
  ASSUME NEW trees, NEW words, TreesOK(trees, words), NEW byPath, MapsOK(byPath),
         NEW rs, RoutesOK(rs, trees, byPath, words),
         NEW op \in Prepared, NEW h \in Handlers,
         h.pattern = Pattern(op), ~HasParams(op),
         RightInterceptors(h) \/ Entered(trees, byPath, words, op),
         NEW m, m = RouteMethod(op),
         NEW new, new = [byPath EXCEPT ![m] = AddExact(@, PlainPath(op), h)]
  PROVE  /\ MapsOK(new)
         /\ RoutesOK(Append(rs, [method |-> m, handler |-> h]), trees, new, words)
         /\ Entered(trees, new, words, op)
         /\ \A p \in Prepared :
              Entered(trees, byPath, words, p) => Entered(trees, new, words, p)
<1> DEFINE path == PlainPath(op)
           added == AddExact(byPath[m], path, h)
           r == [method |-> m, handler |-> h]
<1>1. m \in Methods
  BY RouteMethodOK
<1>2. ~HasParams(Pattern(op)) /\ PlainPath(Pattern(op)) = path
  BY PatternParams
<1>3. new = [byPath EXCEPT ![m] = added]
  OBVIOUS
<1>4. /\ DOMAIN added = DOMAIN byPath[m] \cup {path}
      /\ \A x \in DOMAIN byPath[m] : added[x] = byPath[m][x]
      /\ path \notin DOMAIN byPath[m] => added[path] = h
  BY DEF AddExact, Bind
<1>5. added = AddExact(byPath[m], PlainPath(Pattern(op)), h)
  BY <1>2
<1> HIDE DEF added, path
<1>6. /\ new = [n \in Methods |-> new[n]] /\ new[m] = added
      /\ \A n \in Methods : n # m => new[n] = byPath[n]
  <2>1. byPath = [n \in Methods |-> byPath[n]]
    BY DEF MapsOK
  <2> QED
    BY <1>1, <1>3, <2>1
<1>7. \A p \in DOMAIN byPath[m] : RightInterceptors(byPath[m][p])
  BY <1>1 DEF MapsOK
<1>8. path \notin DOMAIN byPath[m] => RightInterceptors(h)
  BY DEF Entered, path
<1>9. \A p \in DOMAIN added : RightInterceptors(added[p])
  BY <1>4, <1>7, <1>8
<1>10. MapsOK(new)
  BY <1>6, <1>9 DEF MapsOK
<1>11. Entered(trees, new, words, op)
  BY <1>4, <1>6 DEF Entered, path
<1>12. \A p \in Prepared : Entered(trees, byPath, words, p) => Entered(trees, new, words, p)
  <2> SUFFICES ASSUME NEW p \in Prepared, Entered(trees, byPath, words, p)
               PROVE  Entered(trees, new, words, p)
    OBVIOUS
  <2>1. RouteMethod(p) \in Methods
    BY RouteMethodOK
  <2>2. DOMAIN byPath[RouteMethod(p)] \subseteq DOMAIN new[RouteMethod(p)]
    BY <1>4, <1>6, <2>1
  <2> QED
    BY <2>2 DEF Entered
<1>13. r \in Routes /\ r.method = m /\ r.handler = h
  BY <1>1 DEF Routes
<1> HIDE DEF r
<1>14. rs \in Seq(Routes) /\ Append(rs, r) \in Seq(Routes)
  <2>1. rs \in Seq(Routes)
    BY DEF RoutesOK
  <2> QED
    BY <1>13, <2>1, AppendProperties
<1>15. ASSUME NEW n \in Methods
       PROVE  TreeFirst(Append(rs, r), n, trees[n], words[n]) /\ MapFirst(Append(rs, r), n, new[n])
  <2>1. TreeFirst(rs, n, trees[n], words[n]) /\ MapFirst(rs, n, byPath[n])
    BY DEF RoutesOK
  <2> DEFINE pattern == Pattern(op)
  <2>2. pattern = r.handler.pattern /\ ~HasParams(pattern) /\ m = r.method
        /\ added = AddExact(byPath[m], PlainPath(pattern), r.handler)
    BY <1>2, <1>5, <1>13
  <2> HIDE DEF pattern
  <2>3. TreeFirst(Append(rs, r), n, trees[n], words[n])
    BY <1>13, <1>14, <2>1, <2>2, TreeUnchanged
  <2>4. CASE n = m
    <3>1. MapFirst(Append(rs, r), m, added)
      BY <1>13, <1>14, <2>1, <2>2, <2>4, MapPut
    <3> QED
      BY <1>6, <2>3, <2>4, <3>1
  <2>5. CASE n # m
    <3>1. MapFirst(Append(rs, r), n, byPath[n])
      BY <1>13, <1>14, <2>1, <2>5, MapUnchanged
    <3> QED
      BY <1>6, <2>3, <2>5, <3>1
  <2> QED
    BY <2>4, <2>5
<1>16. RoutesOK(Append(rs, r), trees, new, words)
  BY <1>14, <1>15 DEF RoutesOK
<1> QED
  BY <1>10, <1>11, <1>12, <1>16 DEF r

LEMMA RegisterOperationOK ==
  ASSUME NEW mux, NEW words, MuxOK(mux, words), NEW s, NEW o, Serves(s, o)
  PROVE  \E next : MuxOK(RegisterOperation(mux, Services[s].prefix, o), next)
<1> DEFINE prefix == Services[s].prefix
           ops == mux.operations
           op == PrepareOperation(ops[o], prefix)
           ops2 == [ops EXCEPT ![o] = op]
           m == RouteMethod(op)
           h == [operation |-> o, pattern |-> Pattern(op), interceptors |-> op.interceptors]
           r == [method |-> m, handler |-> h]
           prepared == [mux EXCEPT !.operations[o] = op]
           built == [prepared EXCEPT !.routes = Append(@, [method |-> m, handler |-> h])]
           new == RegisterOperation(mux, prefix, o)
<1>1. new =
        IF mux.err THEN mux
        ELSE IF o \in Unparsable THEN [prepared EXCEPT !.err = TRUE]
        ELSE IF HasParams(op)
        THEN [built EXCEPT !.wildcard[m] = Insert(@, Pattern(op), h)]
        ELSE [built EXCEPT !.exact[m] = AddExact(@, PlainPath(op), h)]
  BY DEF RegisterOperation
<1>2. /\ mux = [operations |-> ops, exact |-> mux.exact, wildcard |-> mux.wildcard,
                routes |-> mux.routes, err |-> mux.err]
      /\ OperationsOK(ops, mux.wildcard, mux.exact, words)
      /\ TreesOK(mux.wildcard, words)
      /\ MapsOK(mux.exact)
      /\ RoutesOK(mux.routes, mux.wildcard, mux.exact, words)
  BY DEF MuxOK
<1>3. o \in Ids /\ prefix \in Seq(Segment) /\ ops \in [Ids -> Prepared]
  BY <1>2, ServedTypes DEF OperationsOK
<1>4. op \in Prepared
  BY <1>3, PreparedOK
<1>5. prepared = [operations |-> ops2, exact |-> mux.exact, wildcard |-> mux.wildcard,
                  routes |-> mux.routes, err |-> mux.err]
  <2>1. prepared = [mux EXCEPT !.operations = ops2]
    BY <1>2
  <2> HIDE DEF prepared, ops2
  <2> QED
    BY <1>2, <2>1
<1>6. op = PrepareOperation(mux.operations[o], Services[s].prefix)
  OBVIOUS
<1>7. h = [operation |-> o, pattern |-> Pattern(op), interceptors |-> op.interceptors]
  OBVIOUS
<1>8. h.pattern = Pattern(op)
  OBVIOUS
<1> HIDE DEF ops2, op, h, prepared
<1>9. built = [operations |-> ops2, exact |-> mux.exact, wildcard |-> mux.wildcard,
               routes |-> Append(mux.routes, r), err |-> mux.err]
  <2>1. prepared.routes = mux.routes
    BY <1>5
  <2> HIDE DEF r
  <2>2. built = [prepared EXCEPT !.routes = Append(prepared.routes, r)]
    BY DEF r
  <2> HIDE DEF built
  <2>3. built = [prepared EXCEPT !.routes = Append(mux.routes, r)]
    BY <2>1, <2>2
  <2> QED
    BY <1>5, <2>3
<1> HIDE DEF built
<1>10. ASSUME NEW trees, NEW byPath, NEW next,
              \A p \in Prepared : Entered(mux.wildcard, mux.exact, words, p)
                                    => Entered(trees, byPath, next, p),
              o \in Unparsable \/ Entered(trees, byPath, next, op)
       PROVE  OperationsOK(ops2, trees, byPath, next)
  <2>1. OperationsOK([mux.operations EXCEPT ![o] = op], trees, byPath, next)
    BY <1>2, <1>6, <1>10, OperationsKept
  <2> QED
    BY <2>1 DEF ops2, ops
<1>11. CASE mux.err
  BY <1>1, <1>11 DEF prefix
<1>12. CASE ~mux.err /\ o \in Unparsable
  <2>1. new = [operations |-> ops2, exact |-> mux.exact, wildcard |-> mux.wildcard,
               routes |-> mux.routes, err |-> TRUE]
    BY <1>1, <1>5, <1>12
  <2>2. OperationsOK(ops2, mux.wildcard, mux.exact, words)
    BY <1>10, <1>12
  <2> HIDE DEF new
  <2>3. MuxOK(new, words)
    BY <1>2, <2>1, <2>2 DEF MuxOK
  <2> QED
    BY <2>3 DEF new, prefix
<1>13. ASSUME o \notin Unparsable
       PROVE  /\ h \in Handlers /\ Pattern(op) \in Patterns
              /\ RightInterceptors(h) \/ Entered(mux.wildcard, mux.exact, words, op)
  BY <1>2, <1>6, <1>7, <1>13, BuiltOK
<1>14. CASE ~mux.err /\ o \notin Unparsable /\ HasParams(op)
  <2> DEFINE trees == [mux.wildcard EXCEPT ![m] = Insert(@, Pattern(op), h)]
  <2>1. new = [built EXCEPT !.wildcard[m] = Insert(@, Pattern(op), h)]
    BY <1>1, <1>14
  <2>2. new = [operations |-> ops2, exact |-> mux.exact, wildcard |-> trees,
               routes |-> Append(mux.routes, r), err |-> mux.err]
    BY <1>9, <2>1
  <2> HIDE DEF new
  <2>3. m = RouteMethod(op) /\ r = [method |-> m, handler |-> h]
        /\ trees = [mux.wildcard EXCEPT ![m] = Insert(@, Pattern(op), h)]
    OBVIOUS
  <2> HIDE DEF m, r, trees
  <2>4. \E next :
          /\ TreesOK(trees, next)
          /\ RoutesOK(Append(mux.routes, [method |-> m, handler |-> h]), trees, mux.exact, next)
          /\ Entered(trees, mux.exact, next, op)
          /\ \A p \in Prepared : Entered(mux.wildcard, mux.exact, words, p)
                                   => Entered(trees, mux.exact, next, p)
    BY <1>2, <1>4, <1>8, <1>13, <1>14, <2>3, TreesPut
  <2>5. PICK next :
          /\ TreesOK(trees, next)
          /\ RoutesOK(Append(mux.routes, [method |-> m, handler |-> h]), trees, mux.exact, next)
          /\ Entered(trees, mux.exact, next, op)
          /\ \A p \in Prepared : Entered(mux.wildcard, mux.exact, words, p)
                                   => Entered(trees, mux.exact, next, p)
    BY <2>4
  <2>6. OperationsOK(ops2, trees, mux.exact, next)
    BY <1>10, <2>5
  <2>7. MuxOK(new, next)
    BY <1>2, <2>2, <2>3, <2>5, <2>6 DEF MuxOK
  <2> QED
    BY <2>7 DEF new, prefix
<1>15. CASE ~mux.err /\ o \notin Unparsable /\ ~HasParams(op)
  <2> DEFINE byPath == [mux.exact EXCEPT ![m] = AddExact(@, PlainPath(op), h)]
  <2>1. new = [built EXCEPT !.exact[m] = AddExact(@, PlainPath(op), h)]
    BY <1>1, <1>15
  <2>2. new = [operations |-> ops2, exact |-> byPath, wildcard |-> mux.wildcard,
               routes |-> Append(mux.routes, r), err |-> mux.err]
    BY <1>9, <2>1
  <2> HIDE DEF new
  <2>3. m = RouteMethod(op) /\ r = [method |-> m, handler |-> h]
        /\ byPath = [mux.exact EXCEPT ![m] = AddExact(@, PlainPath(op), h)]
    OBVIOUS
  <2> HIDE DEF m, r, byPath
  <2>4. /\ MapsOK(byPath)
        /\ RoutesOK(Append(mux.routes, [method |-> m, handler |-> h]), mux.wildcard, byPath, words)
        /\ Entered(mux.wildcard, byPath, words, op)
        /\ \A p \in Prepared : Entered(mux.wildcard, mux.exact, words, p)
                                 => Entered(mux.wildcard, byPath, words, p)
    BY <1>2, <1>4, <1>8, <1>13, <1>15, <2>3, MapsPut
  <2>5. OperationsOK(ops2, mux.wildcard, byPath, words)
    BY <1>10, <2>4
  <2>6. MuxOK(new, words)
    BY <1>2, <2>2, <2>3, <2>4, <2>5 DEF MuxOK
  <2> QED
    BY <2>6 DEF new, prefix
<1> QED
  BY <1>11, <1>12, <1>14, <1>15

\* The mux as Register finds it.
Now == [operations |-> operations, exact |-> exact, wildcard |-> wildcard, routes |-> routes,
        err |-> FALSE]

IInv == \E words : MuxOK(Now, words)

LEMMA InitIInv == Init => IInv
<1> DEFINE e == [n \in {1} |-> <<>>]
           words == [m \in Methods |-> e]
<1> SUFFICES ASSUME Init PROVE IInv
  OBVIOUS
<1>1. /\ operations = Operations /\ exact = [m \in Methods |-> <<>>]
      /\ wildcard = [m \in Methods |-> NewRouteTree] /\ routes = <<>>
  BY DEF Init
<1>2. Radix(NewRouteTree, e)
  BY EmptyTree
<1>3. \A w, v, h : ~Holds(NewRouteTree, e, w, v, h)
  BY DEF Holds, NewRouteTree, NewNode
<1> HIDE DEF e
<1>4. OperationsOK(operations, wildcard, exact, words)
  <2>1. \A o \in Ids : Operations[o] \in Prepared
    BY MuxAssumption DEF Prepared
  <2>2. \A s, o : Serves(s, o) => OperationOK(wildcard, exact, words, operations[o], s, o)
    BY <1>1 DEF OperationOK
  <2>3. operations \in [Ids -> Prepared]
    <3>1. DOMAIN operations = Ids /\ operations = [o \in Ids |-> operations[o]]
      <4>1. Operations = [o \in Ids |-> Operations[o]]
        BY MuxAssumption DEF Ids
      <4> QED
        BY <1>1, <4>1
    <3> QED
      BY <1>1, <2>1, <3>1
  <2> QED
    BY <2>2, <2>3 DEF OperationsOK
<1>5. TreesOK(wildcard, words)
  BY <1>1, <1>2, <1>3 DEF TreesOK
<1>6. MapsOK(exact)
  BY <1>1 DEF MapsOK
<1>7. RoutesOK(routes, wildcard, exact, words)
  <2>1. routes \in Seq(Routes) /\ \A D, h : ~Earliest(routes, D, h)
    BY <1>1 DEF Earliest
  <2>2. ASSUME NEW m \in Methods
        PROVE  TreeFirst(routes, m, wildcard[m], words[m]) /\ MapFirst(routes, m, exact[m])
    <3>1. wildcard[m] = NewRouteTree /\ words[m] = e /\ exact[m] = <<>>
      BY <1>1
    <3> QED
      BY <1>3, <2>1, <3>1 DEF TreeFirst, MapFirst
  <2> QED
    BY <2>1, <2>2 DEF RoutesOK
<1> HIDE DEF words
<1>8. MuxOK(Now, words)
  BY <1>4, <1>5, <1>6, <1>7 DEF MuxOK, Now
<1> QED
  BY <1>8 DEF IInv

LEMMA HasHolds ==
  ASSUME NEW tree \in Seq(Nodes), NEW word, NEW h
  PROVE  Has(tree, h) <=> \E w, v : Holds(tree, word, w, v, h)
<1>1. ASSUME NEW n \in DOMAIN tree, NEW i \in DOMAIN tree[n].terminals
      PROVE  tree[n].terminals[i]
               = [verb |-> tree[n].terminals[i].verb, handler |-> tree[n].terminals[i].handler]
  <2> DEFINE X == [verb : Element, handler : Handlers]
             terminals == tree[n].terminals
  <2>1. terminals \in Seq(X)
    BY NodeTypes DEF Terminals
  <2> HIDE DEF X
  <2>2. terminals[i] \in X
    BY <2>1
  <2> QED
    BY <2>2 DEF X
<1>2. ASSUME Has(tree, h) PROVE \E w, v : Holds(tree, word, w, v, h)
  <2>1. PICK n \in DOMAIN tree : \E i \in DOMAIN tree[n].terminals : tree[n].terminals[i].handler = h
    BY <1>2 DEF Has
  <2>2. PICK i \in DOMAIN tree[n].terminals : tree[n].terminals[i].handler = h
    BY <2>1
  <2>3. Holds(tree, word, word[n], tree[n].terminals[i].verb, h)
    BY <1>1, <2>2 DEF Holds
  <2> QED
    BY <2>3
<1>3. ASSUME NEW w, NEW v, Holds(tree, word, w, v, h) PROVE Has(tree, h)
  BY <1>3 DEF Has, Holds
<1> QED
  BY <1>2, <1>3

\* The first routes by their handlers, as the trees and the maps have them.
LEMMA FirstInTree ==
  ASSUME routes \in Seq(Routes), NEW m \in Methods, NEW h
  PROVE  (h \in FirstRoutes(m) /\ HasParams(h.pattern))
           <=> \E w, v : Earliest(routes, TreeTemplate(m, w, v), h)
<1>1. Len(routes) \in Nat /\ DOMAIN routes = 1..Len(routes)
      /\ \A i \in DOMAIN routes : routes[i] \in Routes
  OBVIOUS
<1>2. \A i \in DOMAIN routes : \A j \in 1..(i - 1) : j \in DOMAIN routes
  BY <1>1
<1>3. ASSUME h \in FirstRoutes(m), HasParams(h.pattern)
      PROVE  \E w, v : Earliest(routes, TreeTemplate(m, w, v), h)
  <2>1. PICK k \in DOMAIN routes : /\ routes[k].method = m /\ routes[k].handler = h
                                   /\ \A j \in 1..(k - 1) : ~SameRoute(routes[j], routes[k])
    BY <1>3 DEF FirstRoutes
  <2> DEFINE D == TreeTemplate(m, Symbols(h.pattern.segments), h.pattern.verb)
  <2>2. routes[k] \in D
    BY <1>1, <1>3, <2>1 DEF TreeTemplate
  <2>3. \A j \in 1..(k - 1) : routes[j] \notin D
    BY <1>3, <2>1 DEF TreeTemplate, SameRoute
  <2>4. Earliest(routes, D, h)
    BY <2>1, <2>2, <2>3 DEF Earliest
  <2> QED
    BY <2>4
<1>4. ASSUME NEW w, NEW v, Earliest(routes, TreeTemplate(m, w, v), h)
      PROVE  h \in FirstRoutes(m) /\ HasParams(h.pattern)
  <2> DEFINE D == TreeTemplate(m, w, v)
  <2>1. PICK k \in DOMAIN routes : /\ routes[k] \in D /\ routes[k].handler = h
                                   /\ \A j \in 1..(k - 1) : routes[j] \notin D
    BY <1>4 DEF Earliest
  <2>2. /\ routes[k].method = m /\ HasParams(h.pattern)
        /\ Symbols(h.pattern.segments) = w /\ h.pattern.verb = v
    BY <2>1 DEF TreeTemplate
  <2>3. ASSUME NEW j \in 1..(k - 1), SameRoute(routes[j], routes[k]) PROVE FALSE
    <3>1. routes[j] \in Routes
      BY <1>1, <1>2
    <3>2. routes[j] \in D
      BY <2>1, <2>2, <2>3, <3>1 DEF TreeTemplate, SameRoute
    <3> QED
      BY <2>1, <3>2
  <2> QED
    BY <2>1, <2>2, <2>3 DEF FirstRoutes
<1> QED
  BY <1>3, <1>4

LEMMA FirstInMap ==
  ASSUME routes \in Seq(Routes), NEW m \in Methods, NEW h
  PROVE  (h \in FirstRoutes(m) /\ ~HasParams(h.pattern))
           <=> \E p : Earliest(routes, ExactPath(m, p), h)
<1>1. Len(routes) \in Nat /\ DOMAIN routes = 1..Len(routes)
      /\ \A i \in DOMAIN routes : routes[i] \in Routes
  OBVIOUS
<1>2. \A i \in DOMAIN routes : \A j \in 1..(i - 1) : j \in DOMAIN routes
  BY <1>1
<1>3. ASSUME h \in FirstRoutes(m), ~HasParams(h.pattern)
      PROVE  \E p : Earliest(routes, ExactPath(m, p), h)
  <2>1. PICK k \in DOMAIN routes : /\ routes[k].method = m /\ routes[k].handler = h
                                   /\ \A j \in 1..(k - 1) : ~SameRoute(routes[j], routes[k])
    BY <1>3 DEF FirstRoutes
  <2> DEFINE D == ExactPath(m, PlainPath(h.pattern))
  <2>2. routes[k] \in D
    BY <1>1, <1>3, <2>1 DEF ExactPath
  <2>3. \A j \in 1..(k - 1) : routes[j] \notin D
    BY <1>3, <2>1 DEF ExactPath, SameRoute
  <2>4. Earliest(routes, D, h)
    BY <2>1, <2>2, <2>3 DEF Earliest
  <2> QED
    BY <2>4
<1>4. ASSUME NEW p, Earliest(routes, ExactPath(m, p), h)
      PROVE  h \in FirstRoutes(m) /\ ~HasParams(h.pattern)
  <2> DEFINE D == ExactPath(m, p)
  <2>1. PICK k \in DOMAIN routes : /\ routes[k] \in D /\ routes[k].handler = h
                                   /\ \A j \in 1..(k - 1) : routes[j] \notin D
    BY <1>4 DEF Earliest
  <2>2. routes[k].method = m /\ ~HasParams(h.pattern) /\ PlainPath(h.pattern) = p
    BY <2>1 DEF ExactPath
  <2>3. ASSUME NEW j \in 1..(k - 1), SameRoute(routes[j], routes[k]) PROVE FALSE
    <3>1. routes[j] \in Routes
      BY <1>1, <1>2
    <3>2. routes[j] \in D
      BY <2>1, <2>2, <2>3, <3>1 DEF ExactPath, SameRoute
    <3> QED
      BY <2>1, <3>2
  <2> QED
    BY <2>1, <2>2, <2>3 DEF FirstRoutes
<1> QED
  BY <1>3, <1>4

\* What Register's loop leaves of a mux.
Turns(mux, s) ==
  LET ids == Services[s].operations
      turn[n \in 0..Len(ids)] ==
        IF n = 0 THEN mux ELSE RegisterOperation(turn[n - 1], Services[s].prefix, ids[n])
  IN turn[Len(ids)]

LEMMA TurnsOK ==
  ASSUME NEW mux, NEW words, MuxOK(mux, words), NEW s \in DOMAIN Services
  PROVE  \E next : MuxOK(Turns(mux, s), next)
<1> DEFINE ids == Services[s].operations
           L == Len(ids)
           turn == CHOOSE f : f = [n \in 0..L |->
                     IF n = 0 THEN mux
                     ELSE RegisterOperation(f[n - 1], Services[s].prefix, ids[n])]
           Go(w, n) == RegisterOperation(w, Services[s].prefix, ids[n])
           OK(w) == \E next : MuxOK(w, next)
           Is(n, f) == f = [i \in 0..n |-> IF i = 0 THEN mux ELSE Go(f[i - 1], i)]
           T == {n \in 0..L : \E f : Is(n, f)}
           U == {n \in 0..L : OK(turn[n])}
<1>1. L \in Nat
  <2>1. ids \in Seq(Ids)
    BY MuxAssumption
  <2> QED
    BY <2>1
<1>2. turn = CHOOSE f : Is(L, f)
  OBVIOUS
<1>3. Turns(mux, s) = turn[L]
  BY DEF Turns
<1> HIDE DEF turn, L
<1>4. \A n \in 1..L : Serves(s, ids[n])
  <2>1. ids \in Seq(Ids)
    BY MuxAssumption
  <2>2. DOMAIN ids = 1..L
    BY <2>1 DEF L
  <2>3. \A n \in DOMAIN ids : ids[n] \in Range(ids)
    BY DEF Range
  <2> QED
    BY <2>2, <2>3 DEF Serves
<1>5. \A w, n : n \in 1..L /\ OK(w) => OK(Go(w, n))
  BY <1>4, RegisterOperationOK
<1>6. OK(mux)
  OBVIOUS
<1> HIDE DEF Go, OK, ids
<1>7. 0 \in T
  <2> DEFINE f == [i \in 0..0 |-> mux]
  <2>1. Is(0, f)
    OBVIOUS
  <2> HIDE DEF Is
  <2> QED
    BY <1>1, <2>1
<1>8. ASSUME NEW n \in 1..L, n - 1 \in T PROVE n \in T
  <2>1. PICK f : Is(n - 1, f)
    BY <1>8
  <2>2. n \in Nat /\ n - 1 \in Nat /\ n # 0
    BY <1>1
  <2> DEFINE k == n - 1
             e == Go(f[k], n)
             g == [i \in 0..n |-> IF i = n THEN e ELSE f[i]]
  <2>3. \A i \in 0..k : f[i] = IF i = 0 THEN mux ELSE Go(f[i - 1], i)
    BY <2>1
  <2> HIDE DEF e
  <2>4. \A i \in 0..k : g[i] = f[i]
    BY <2>2
  <2>5. \A i \in 1..n : i - 1 \in 0..k /\ g[i - 1] = f[i - 1]
    BY <2>2, <2>4
  <2>6. \A i \in 0..n : g[i] = IF i = 0 THEN mux ELSE Go(g[i - 1], i)
    <3> SUFFICES ASSUME NEW i \in 0..n PROVE g[i] = IF i = 0 THEN mux ELSE Go(g[i - 1], i)
      OBVIOUS
    <3>1. CASE i = n
      <4>1. g[i] = e /\ g[i - 1] = f[k]
        BY <2>2, <2>5, <3>1
      <4> QED
        BY <2>2, <3>1, <4>1 DEF e
    <3>2. CASE i # n
      <4>1. i \in 0..k
        BY <2>2, <3>2
      <4>2. g[i] = f[i]
        BY <2>4, <4>1
      <4>3. i # 0 => g[i - 1] = f[i - 1]
        BY <2>2, <2>5
      <4> QED
        BY <2>3, <4>1, <4>2, <4>3
    <3> QED
      BY <3>1, <3>2
  <2>7. Is(n, g)
    <3>1. g = [i \in 0..n |-> g[i]]
      OBVIOUS
    <3> HIDE DEF g
    <3> QED
      BY <2>6, <3>1
  <2> HIDE DEF Is
  <2> QED
    BY <2>7
<1>9. Is(L, turn)
  <2> HIDE DEF T
  <2>1. 0..L \subseteq T
    BY ONLY <1>1, <1>7, <1>8, UpTo
  <2>2. L \in T
    BY <1>1, <2>1
  <2> HIDE DEF Is
  <2> QED
    BY <1>2, <2>2 DEF T
<1>10. turn[0] = mux /\ \A n \in 1..L : turn[n] = Go(turn[n - 1], n)
  <2>1. \A i \in 0..L : turn[i] = IF i = 0 THEN mux ELSE Go(turn[i - 1], i)
    BY <1>9
  <2>2. 0 \in 0..L /\ \A n \in 1..L : n \in 0..L /\ n # 0
    BY <1>1
  <2> QED
    BY <2>1, <2>2
<1>11. 0 \in U
  BY <1>1, <1>6, <1>10
<1>12. ASSUME NEW n \in 1..L, n - 1 \in U PROVE n \in U
  BY <1>1, <1>5, <1>10, <1>12
<1> HIDE DEF U
<1>13. 0..L \subseteq U
  BY ONLY <1>1, <1>11, <1>12, UpTo
<1>14. OK(turn[L])
  <2>1. L \in U
    BY <1>1, <1>13
  <2> QED
    BY <2>1 DEF U
<1> QED
  BY <1>14, <1>3 DEF OK

LEMMA RegisterKeeps ==
  ASSUME IInv, NEW s \in DOMAIN Services, Register(s)
  PROVE  IInv'
<1> DEFINE after == Turns(Now, s)
<1>1. /\ operations' = after.operations /\ exact' = after.exact
      /\ wildcard' = after.wildcard /\ routes' = after.routes
  BY DEF Register, Now, Turns
<1>2. PICK words : MuxOK(Now, words)
  BY DEF IInv
<1>3. PICK next : MuxOK(after, next)
  BY <1>2, TurnsOK
<1> HIDE DEF after
<1>4. /\ OperationsOK(operations', wildcard', exact', next)
      /\ TreesOK(wildcard', next) /\ MapsOK(exact')
      /\ RoutesOK(routes', wildcard', exact', next)
  BY <1>1, <1>3 DEF MuxOK
<1> DEFINE new == [operations |-> operations', exact |-> exact', wildcard |-> wildcard',
                   routes |-> routes', err |-> FALSE]
<1>5. MuxOK(new, next)
  BY <1>4 DEF MuxOK
<1>6. Now' = new
  BY DEF Now
<1>7. \E w : MuxOK(Now', w)
  BY <1>5, <1>6
<1> QED
  BY <1>7 DEF IInv

LEMMA Inductive == Spec => []IInv
<1>1. IInv /\ [Next]_vars => IInv'
  <2> SUFFICES ASSUME IInv, [Next]_vars PROVE IInv'
    OBVIOUS
  <2>1. CASE Next
    BY <2>1, RegisterKeeps DEF Next
  <2>2. CASE UNCHANGED vars
    BY <2>2 DEF vars, IInv, Now
  <2> QED
    BY <2>1, <2>2
<1> QED
  BY InitIInv, <1>1, PTL DEF Spec

\* The route trees stay radix trees: each node has one parent, no two children
\* of a node begin alike, literals come before parameters, and a node has a verb
\* once, whatever is registered in whatever order.
THEOREM TypeCorrect == Spec => []TypeOK
<1>1. IInv => TypeOK
  <2> SUFFICES ASSUME IInv PROVE TypeOK
    OBVIOUS
  <2>1. PICK words : MuxOK(Now, words)
    BY DEF IInv
  <2>2. OperationsOK(operations, wildcard, exact, words) /\ TreesOK(wildcard, words)
    BY <2>1 DEF MuxOK, Now
  <2>3. DOMAIN operations = Ids
    BY <2>2 DEF OperationsOK
  <2>4. \A m \in Methods : TreeOK(wildcard[m])
    BY <2>2, RadixIsTree DEF TreesOK
  <2> QED
    BY <2>3, <2>4 DEF TypeOK
<1> QED
  BY Inductive, <1>1, PTL

\* A request is served with the mux's interceptors and then the operation's own,
\* each once, also after a failed Register was called again: the operations that
\* Register prepared twice have routes already, or another path.
THEOREM RegisteredOnce == Spec => []InterceptorsOnce
<1>1. IInv => InterceptorsOnce
  <2> SUFFICES ASSUME IInv, NEW m \in Methods, NEW p \in Paths,
                      NEW h, h = ServedBy(m, p).handler, h # None
               PROVE  RightInterceptors(h)
    BY DEF InterceptorsOnce, RightInterceptors
  <2>1. PICK words : MuxOK(Now, words)
    BY DEF IInv
  <2>2. TreesOK(wildcard, words) /\ MapsOK(exact)
    BY <2>1 DEF MuxOK, Now
  <2>3. CASE p \in DOMAIN exact[m]
    <3>1. h = exact[m][p]
      BY <2>3 DEF ServedBy
    <3> QED
      BY <2>2, <2>3, <3>1 DEF MapsOK
  <2>4. CASE p \notin DOMAIN exact[m]
    <3> DEFINE tree == wildcard[m]
               word == words[m]
    <3>1. h = Lookup(tree, p).handler
      BY <2>4 DEF ServedBy
    <3>2. Radix(tree, word) /\ \A w, v, g : Holds(tree, word, w, v, g) => RightInterceptors(g)
      BY <2>2 DEF TreesOK
    <3> HIDE DEF tree, word
    <3>3. tree \in Seq(Nodes) /\ 1 \in DOMAIN tree /\ \A n \in DOMAIN tree : NodeOK(tree, n)
      BY <3>2 DEF Radix
    <3>4. Has(tree, h)
      BY <3>1, <3>3, LookupFinds
    <3>5. \E w, v : Holds(tree, word, w, v, h)
      BY <3>3, <3>4, HasHolds
    <3> QED
      BY <3>2, <3>5
  <2> QED
    BY <2>3, <2>4
<1> QED
  BY Inductive, <1>1, PTL

\* First registration wins: of the routes that were built, a method's tree and
\* its exact map have the first of each template and no other, so a later route
\* neither replaces nor adds to one that a request could not tell from it.
THEOREM FirstRegistrationWins == Spec => []FirstRouteWins
<1>1. IInv => FirstRouteWins
  <2> SUFFICES ASSUME IInv, NEW m \in Methods
               PROVE  /\ TreeHandlers(wildcard[m]) = {h \in FirstRoutes(m) : HasParams(h.pattern)}
                      /\ {exact[m][p] : p \in DOMAIN exact[m]}
                           = {h \in FirstRoutes(m) : ~HasParams(h.pattern)}
                      /\ \A p \in DOMAIN exact[m] : PlainPath(exact[m][p].pattern) = p
    BY DEF FirstRouteWins
  <2>1. PICK words : MuxOK(Now, words)
    BY DEF IInv
  <2> DEFINE tree == wildcard[m]
             word == words[m]
             byPath == exact[m]
  <2>2. TreesOK(wildcard, words) /\ RoutesOK(routes, wildcard, exact, words)
    BY <2>1 DEF MuxOK, Now
  <2>3. Radix(tree, word) /\ TreeFirst(routes, m, tree, word) /\ MapFirst(routes, m, byPath)
        /\ routes \in Seq(Routes)
    BY <2>2 DEF TreesOK, RoutesOK
  <2>4. /\ tree \in Seq(Nodes)
        /\ \A h : h \in TreeHandlers(tree) <=> \E w, v : Holds(tree, word, w, v, h)
    <3>1. tree \in Seq(Nodes)
      BY <2>3 DEF Radix
    <3> HIDE DEF tree, word
    <3>2. \A h : h \in TreeHandlers(tree) <=> Has(tree, h)
      BY DEF TreeHandlers, Has
    <3>3. \A h : Has(tree, h) <=> \E w, v : Holds(tree, word, w, v, h)
      BY <3>1, HasHolds
    <3> QED
      BY <3>1, <3>2, <3>3
  <2>5. \A h : (h \in FirstRoutes(m) /\ HasParams(h.pattern))
                 <=> \E w, v : Earliest(routes, TreeTemplate(m, w, v), h)
    BY <2>3, FirstInTree
  <2>6. \A h : (h \in FirstRoutes(m) /\ ~HasParams(h.pattern))
                 <=> \E p : Earliest(routes, ExactPath(m, p), h)
    BY <2>3, FirstInMap
  <2> HIDE DEF tree, word, byPath
  <2>7. \A h : h \in TreeHandlers(tree) <=> h \in FirstRoutes(m) /\ HasParams(h.pattern)
    BY <2>3, <2>4, <2>5 DEF TreeFirst
  <2>8. \A h : h \in {byPath[p] : p \in DOMAIN byPath}
                 <=> h \in FirstRoutes(m) /\ ~HasParams(h.pattern)
    <3>1. \A h : h \in {byPath[p] : p \in DOMAIN byPath}
                   <=> \E p : p \in DOMAIN byPath /\ byPath[p] = h
      OBVIOUS
    <3> QED
      BY <2>3, <2>6, <3>1 DEF MapFirst
  <2>9. \A p \in DOMAIN byPath : PlainPath(byPath[p].pattern) = p
    <3> SUFFICES ASSUME NEW p \in DOMAIN byPath PROVE PlainPath(byPath[p].pattern) = p
      OBVIOUS
    <3>1. Earliest(routes, ExactPath(m, p), byPath[p])
      BY <2>3 DEF MapFirst
    <3> QED
      BY <3>1 DEF Earliest, ExactPath
  <2> QED
    BY <2>7, <2>8, <2>9 DEF tree, byPath
<1> QED
  BY Inductive, <1>1, PTL

===============================================================================
