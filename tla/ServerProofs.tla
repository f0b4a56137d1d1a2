----------------------------- MODULE ServerProofs -----------------------------
(***************************************************************************)
(* Proofs about Server, whatever the calls, the operations, the policies   *)
(* and the authorizer are: its types; that it implements Admission, so     *)
(* that a handler runs only on a request that the policy in force at its   *)
(* decision admits; that deadlines and the codes of errors reach the other *)
(* side; that 405 names what is served; that the chains decide alike when  *)
(* the interceptors of a stream are in the order that works; and that a    *)
(* handler is given the message that was sent, if binding is faithful.     *)
(***************************************************************************)
EXTENDS Server, Induction, SequenceTheorems

-----------------------------------------------------------------------------
(* Deadlines and their headers *)

LEMMA Euclid ==
  ASSUME NEW n \in Nat, NEW m \in Nat, m > 0
  PROVE  /\ n \div m \in Nat /\ n % m \in 0..(m - 1)
         /\ n = m * (n \div m) + (n % m)
<1>1. n % m = n - m * (n \div m)
  OBVIOUS
<1>2. n \div m \in Nat /\ n % m \in 0..(m - 1)
  OBVIOUS
<1>3. \A a, b, c \in Int : c = a - b => a = b + c
  OBVIOUS
<1>4. n \in Int /\ m * (n \div m) \in Int /\ n % m \in Int
  BY <1>2
<1>5. n = m * (n \div m) + (n % m)
  BY <1>1, <1>3, <1>4, Zenon
<1> QED
  BY <1>2, <1>5

\* Rounding up gives the smallest multiple that is not below d.
LEMMA DivBounds ==
  ASSUME NEW d \in Nat, NEW unit \in Nat, unit > 0
  PROVE  /\ Div(d, unit) \in Nat
         /\ d <= unit * Div(d, unit) /\ unit * Div(d, unit) < d + unit
<1> DEFINE q == d \div unit
           s == d % unit
<1>1. q \in Nat /\ s \in 0..(unit - 1) /\ d = unit * q + s
  BY Euclid
<1> HIDE DEF q, s
<1>2. unit * (q + 1) = unit * q + unit
  BY <1>1
<1>3. Div(d, unit) = IF s > 0 THEN q + 1 ELSE q
  BY DEF Div, q, s
<1> QED
  BY <1>1, <1>2, <1>3

LEMMA UnitTypes ==
  /\ Hour \in 1..6 /\ \A u \in 1..Hour : Units[u] \in Nat /\ Units[u] > 0
  /\ Second \in Nat /\ Second > 0 /\ MaxTimeoutValue \in Nat /\ MaxDuration \in Nat
  /\ \A u \in 1..(Hour - 1) : MaxTimeoutValue * Units[u] <= MaxDuration
  /\ MaxDuration <= MaxTimeoutValue * Units[Hour]
BY DeadlineAssumption DEF DeadlineAssumption, Hour

LEMMA HourFits ==
  ASSUME NEW d \in 1..MaxDuration
  PROVE  Fits(d, Hour)
<1> DEFINE h == Units[Hour]
           v == Div(d, h)
<1>1. h \in Nat /\ h > 0 /\ MaxDuration \in Nat /\ MaxTimeoutValue \in Nat
      /\ MaxDuration <= MaxTimeoutValue * h
  BY UnitTypes
<1>2. d \in Nat /\ v \in Nat /\ h * v < d + h
  <2>1. d \in Nat
    BY <1>1
  <2> QED
    BY <1>1, <2>1, DivBounds, Zenon
<1> HIDE DEF h, v
<1>3. \A a, b, c \in Nat : c * a < c * (b + 1) => a <= b
  OBVIOUS
<1>4. h * v < h * (MaxTimeoutValue + 1)
  <2>1. h * (MaxTimeoutValue + 1) = MaxTimeoutValue * h + h
    BY <1>1
  <2> QED
    BY <1>1, <1>2, <2>1
<1>5. v <= MaxTimeoutValue
  BY <1>1, <1>2, <1>3, <1>4
<1> QED
  BY <1>5 DEF Fits, h, v

\* There is a smallest unit in which a duration has at most eight digits.
LEMMA SmallestFits ==
  ASSUME NEW d \in 1..MaxDuration
  PROVE  SmallestUnit(d) \in 1..Hour /\ Fits(d, SmallestUnit(d))
<1> DEFINE Least(u) == Fits(d, u) /\ \A v \in 1..(u - 1) : ~Fits(d, v)
<1>1. Hour \in 1..6 /\ Fits(d, Hour)
  BY UnitTypes, HourFits
<1>2. \E u \in 1..Hour : Least(u)
  <2>1. CASE Fits(d, 1)
    BY <1>1, <2>1
  <2>2. CASE ~Fits(d, 1) /\ 2 <= Hour /\ Fits(d, 2)
    BY <1>1, <2>2
  <2>3. CASE ~Fits(d, 1) /\ ~Fits(d, 2) /\ 3 <= Hour /\ Fits(d, 3)
    BY <1>1, <2>3
  <2>4. CASE ~Fits(d, 1) /\ ~Fits(d, 2) /\ ~Fits(d, 3) /\ 4 <= Hour /\ Fits(d, 4)
    BY <1>1, <2>4
  <2>5. CASE ~Fits(d, 1) /\ ~Fits(d, 2) /\ ~Fits(d, 3) /\ ~Fits(d, 4) /\ 5 <= Hour /\ Fits(d, 5)
    BY <1>1, <2>5
  <2>6. CASE ~Fits(d, 1) /\ ~Fits(d, 2) /\ ~Fits(d, 3) /\ ~Fits(d, 4) /\ ~Fits(d, 5) /\ Hour = 6
    BY <1>1, <2>6
  <2> QED
    BY <1>1, <2>1, <2>2, <2>3, <2>4, <2>5, <2>6
<1>3. SmallestUnit(d) = CHOOSE u \in 1..Hour : Least(u)
  BY <1>1 DEF SmallestUnit
<1> QED
  BY <1>2, <1>3

LEMMA NoWrap ==
  ASSUME NEW n \in 0..MaxDuration
  PROVE  Wrap(n) = n
<1>1. \A a, m \in Nat : a < m => a % m = a
  OBVIOUS
<1>2. MaxDuration \in Nat
  BY UnitTypes
<1> DEFINE a == n + MaxDuration + 1
           m == 2 * MaxDuration + 2
<1>3. a \in Nat /\ m \in Nat /\ a < m
  BY <1>2
<1>4. a % m = a
  BY <1>1, <1>3, Zenon
<1>5. Wrap(n) = (a % m) - MaxDuration - 1
  BY DEF Wrap
<1>6. a - MaxDuration - 1 = n
  BY <1>2
<1> QED
  BY <1>4, <1>5, <1>6, Zenon

\* A timeout arrives whole, at most a unit longer, or as the largest duration
\* there is (FormatGrpcTimeout, ParseGrpcTimeout).
THEOREM TimeoutRoundTrip ==
  ASSUME NEW d \in 1..MaxDuration
  PROVE  \E s \in d..MaxDuration :
           /\ ParseGrpcTimeout({FormatGrpcTimeout(d)}) = {s}
           /\ s < d + Units[SmallestUnit(d)] \/ s = MaxDuration
<1> DEFINE u == SmallestUnit(d)
           unit == Units[u]
           v == Div(d, unit)
           n == unit * v
<1>1. u \in 1..Hour /\ Fits(d, u)
  BY SmallestFits
<1>2. /\ d \in Nat /\ unit \in Nat /\ unit > 0 /\ v <= MaxTimeoutValue
      /\ MaxDuration \in Nat /\ MaxTimeoutValue \in Nat
  <2>1. d \in Nat /\ MaxDuration \in Nat /\ MaxTimeoutValue \in Nat
    BY UnitTypes
  <2> QED
    BY <1>1, <2>1, UnitTypes, Zenon DEF Fits
<1>3. v \in Nat /\ d <= n /\ n < d + unit
  BY <1>2, DivBounds, Zenon
<1> HIDE DEF u, unit, v
<1>8. n \in Nat
  BY <1>2, <1>3
<1>4. FormatGrpcTimeout(d) = [value |-> v, unit |-> u]
  BY <1>2 DEF FormatGrpcTimeout, v, unit, u
<1>5. ParseGrpcTimeout({FormatGrpcTimeout(d)}) =
        {IF u = Hour /\ v > MaxDuration \div Units[Hour] THEN MaxDuration ELSE Wrap(n)}
  BY <1>1, <1>2, <1>3, <1>4 DEF ParseGrpcTimeout, unit
<1> HIDE DEF n
<1>6. CASE u = Hour /\ v > MaxDuration \div Units[Hour]
  <2>1. MaxDuration \in d..MaxDuration
    BY <1>2
  <2>2. ParseGrpcTimeout({FormatGrpcTimeout(d)}) = {MaxDuration}
    BY <1>5, <1>6, Zenon
  <2> QED
    BY <2>1, <2>2
<1>7. CASE ~(u = Hour /\ v > MaxDuration \div Units[Hour])
  <2>1. \A a, b, c \in Nat : a <= b => c * a <= c * b
    OBVIOUS
  <2>2. ASSUME u # Hour PROVE n <= MaxDuration
    <3>1. MaxTimeoutValue * unit <= MaxDuration
      <4>1. u \in 1..(Hour - 1)
        BY <1>1, <2>2, UnitTypes
      <4> QED
        BY <4>1, UnitTypes DEF unit
    <3>2. unit * v <= unit * MaxTimeoutValue
      BY <1>2, <1>3, <2>1, Zenon
    <3> QED
      BY <1>2, <1>3, <3>1, <3>2, unit * MaxTimeoutValue = MaxTimeoutValue * unit DEF n
  <2>3. ASSUME u = Hour PROVE n <= MaxDuration
    <3> DEFINE max == MaxDuration \div unit
    <3>1. max \in Nat /\ unit * max <= MaxDuration
      <4>1. /\ max \in Nat /\ MaxDuration % unit \in Nat
            /\ MaxDuration = unit * max + (MaxDuration % unit)
        BY <1>2, Euclid
      <4> HIDE DEF max
      <4> QED
        BY <1>2, <4>1
    <3>2. v <= max
      <4>1. ~(v > max)
        BY <1>7, <2>3 DEF unit
      <4> HIDE DEF max
      <4> QED
        BY <1>3, <3>1, <4>1
    <3> HIDE DEF max
    <3>3. unit * v <= unit * max
      BY <1>2, <1>3, <2>1, <3>1, <3>2, Zenon
    <3> QED
      BY <1>2, <1>3, <3>1, <3>3 DEF n
  <2>4. n <= MaxDuration
    BY <2>2, <2>3
  <2>5. Wrap(n) = n
    <3>1. n \in 0..MaxDuration
      BY <1>2, <1>8, <2>4
    <3> QED
      BY <3>1, NoWrap, Zenon
  <2>6. ParseGrpcTimeout({FormatGrpcTimeout(d)}) = {n}
    BY <1>5, <1>7, <2>5, Zenon
  <2>7. n \in d..MaxDuration
    BY <1>2, <1>3, <1>8, <2>4
  <2> QED
    BY <1>3, <2>6, <2>7 DEF unit, u
<1> QED
  BY <1>6, <1>7

\* Of a point in time less than a second is lost, and nothing is added
\* (applyDeadline's RFC 3339, ParseGrpcDeadline).
THEOREM DeadlineRoundTrip ==
  ASSUME NEW t \in Nat
  PROVE  \E s \in 0..t : ParseGrpcDeadline({FormatDeadline(t)}) = {s} /\ t < s + Second
<1> DEFINE q == t \div Second
           s == q * Second
<1>1. Second \in Nat /\ Second > 0
  BY UnitTypes
<1>2. s \in 0..t /\ t < s + Second
  <2>1. q \in Nat /\ t % Second \in 0..(Second - 1) /\ t = Second * q + (t % Second)
    BY <1>1, Euclid
  <2> HIDE DEF q
  <2> QED
    BY <1>1, <2>1
<1>3. ParseGrpcDeadline({FormatDeadline(t)}) = {s}
  BY DEF ParseGrpcDeadline, FormatDeadline
<1> QED
  BY <1>2, <1>3

-----------------------------------------------------------------------------
(* Codes and their names *)

Names == {CodeNames[i] : i \in 1..17}

LEMMA NamesDiffer == \A i, j \in 1..17 : CodeNames[i] = CodeNames[j] => i = j
BY DEF CodeNames

LEMMA CodeOfName ==
  ASSUME NEW i \in 1..17
  PROVE  CodeOf(CodeNames[i]) = i - 1
<1> DEFINE At(k) == k \in 1..17 /\ CodeNames[k] = CodeNames[i]
<1>1. At(CHOOSE k : At(k))
  BY DEF CodeNames
<1>2. (CHOOSE k \in 1..17 : CodeNames[k] = CodeNames[i]) \in 1..17
      /\ CodeNames[CHOOSE k \in 1..17 : CodeNames[k] = CodeNames[i]] = CodeNames[i]
  OBVIOUS
<1>3. (CHOOSE k \in 1..17 : CodeNames[k] = CodeNames[i]) = i
  BY <1>2, NamesDiffer
<1> QED
  BY <1>3 DEF CodeOf

LEMMA UnknownCode == CodeOf("unknown") = 2 /\ CodeName(2) = "unknown" /\ 2 \in KnownCodes
<1>1. CodeNames[3] = "unknown"
  BY DEF CodeNames
<1> QED
  BY <1>1, CodeOfName, 3 \in 1..17 DEF CodeName, KnownCodes

\* A name stands for one code.
LEMMA NameOfCode ==
  ASSUME NEW c \in KnownCodes
  PROVE  CodeName(c) \in Names /\ CodeOf(CodeName(c)) = c /\ CodeFromString(CodeName(c)) = {c}
<1>1. c + 1 \in 1..17 /\ CodeName(c) = CodeNames[c + 1]
  BY DEF KnownCodes, CodeName
<1>2. CodeOf(CodeName(c)) = c
  BY <1>1, CodeOfName DEF KnownCodes
<1>3. ASSUME NEW d \in KnownCodes, CodeName(d) = CodeName(c) PROVE d = c
  <2>1. d + 1 \in 1..17 /\ CodeName(d) = CodeNames[d + 1]
    BY DEF KnownCodes, CodeName
  <2>2. d + 1 = c + 1
    BY <1>1, <1>3, <2>1, NamesDiffer
  <2> QED
    BY <2>2 DEF KnownCodes
<1>4. CodeFromString(CodeName(c)) = {c}
  BY <1>3 DEF CodeFromString
<1> QED
  BY <1>1, <1>2, <1>4 DEF Names

LEMMA CodeOfNames ==
  ASSUME NEW name \in Names
  PROVE  CodeOf(name) \in KnownCodes /\ CodeName(CodeOf(name)) = name
<1>1. PICK i \in 1..17 : name = CodeNames[i]
  BY DEF Names
<1>2. CodeOf(name) = i - 1
  BY <1>1, CodeOfName
<1> QED
  BY <1>1, <1>2 DEF KnownCodes, CodeName

\* The status that a code is sent as has a code that is sent as that status.
LEMMA StatusOfStatus ==
  ASSUME NEW c \in KnownCodes
  PROVE  HTTPStatus(CodeFromHTTPStatus(HTTPStatus(c))) = HTTPStatus(c)
<1> DEFINE status == HTTPStatus(c)
           some == CHOOSE d \in KnownCodes : HTTPStatus(d) = status
<1> HIDE DEF status
<1>1. some \in KnownCodes /\ HTTPStatus(some) = status
  BY DEF status
<1>2. /\ CodeNames[11] = "aborted" /\ CodeNames[4] = "invalid_argument"
      /\ CodeNames[14] = "internal"
  BY DEF CodeNames
<1>3. CodeOf("aborted") = 10 /\ CodeOf("invalid_argument") = 3 /\ CodeOf("internal") = 13
  <2>1. CodeOf(CodeNames[11]) = 10 /\ CodeOf(CodeNames[4]) = 3 /\ CodeOf(CodeNames[14]) = 13
    BY CodeOfName, 11 \in 1..17, 4 \in 1..17, 14 \in 1..17
  <2> QED
    BY <1>2, <2>1
<1>4. CodeName(10) = "aborted" /\ CodeName(3) = "invalid_argument" /\ CodeName(13) = "internal"
  BY <1>2 DEF CodeName, KnownCodes
<1>5. HTTPStatus(10) = 409 /\ HTTPStatus(3) = 400 /\ HTTPStatus(13) = 500
  BY <1>4 DEF HTTPStatus
<1>6. CodeOf(CodeNames[1 + some]) = some
  BY <1>1, CodeOfName DEF KnownCodes
<1>7. CASE status \in {409, 400, 500}
  BY <1>3, <1>5, <1>7 DEF CodeFromHTTPStatus, status
<1>8. CASE status \notin {409, 400, 500}
  <2>1. \E d \in KnownCodes : HTTPStatus(d) = status
    BY <1>1
  <2>2. CodeFromHTTPStatus(status) = CodeOf(CodeNames[1 + some])
    BY <1>8, <2>1 DEF CodeFromHTTPStatus
  <2> QED
    BY <1>1, <1>6, <2>2 DEF status
<1> QED
  BY <1>7, <1>8

-----------------------------------------------------------------------------
(* google.rpc.Status *)

\* What of an error its way through an answer depends on.
IsError(err) ==
  /\ err.kind \in {"rpc", "raw"}
  /\ Code(err) \in KnownCodes
  /\ err.details \in Seq(Texts)
  /\ err.kind = "raw" => err.details = <<>>

LEMMA ErrorsAreErrors ==
  ASSUME NEW err \in Errors
  PROVE  IsError(err)
<1>1. CASE err \in [kind : {"rpc"}, code : KnownCodes \ {CodeOf("ok")}, message : Texts,
                    details : Seq(Texts)]
  BY <1>1 DEF IsError, Code
<1>2. CASE err \in [kind : {"raw"}, code : {0}, message : Texts, details : {<<>>}]
  <2>1. <<>> \in Seq(Texts)
    OBVIOUS
  <2> QED
    BY <1>2, <2>1, UnknownCode DEF IsError, Code
<1> QED
  BY <1>1, <1>2 DEF Errors

LEMMA NewErrorIsError ==
  ASSUME NEW name \in Names, NEW message
  PROVE  IsError(NewError(name, message))
BY CodeOfNames DEF NewError, IsError, Code

LEMMA RawErrorIsError ==
  ASSUME NEW message
  PROVE  IsError(RawError(message))
BY UnknownCode DEF RawError, IsError, Code

LEMMA MessageIsText ==
  ASSUME NEW err
  PROVE  Message(err) # NoText
<1>1. <<CodeName(Code(err))>> # <<>>
  OBVIOUS
<1> QED
  BY <1>1 DEF Message, NoText

Status(c, m, d) == [code |-> c, message |-> m, details |-> d]

\* What is read after the first n fields of what MarshalStatus wrote.
ReadSoFar(err, n) ==
  IF n = 0 THEN NoStatus
  ELSE IF n = 1 THEN Status(err.code, NoText, <<>>)
  ELSE Status(err.code, Message(err),
              IF n = 2 THEN <<>> ELSE SubSeq(err.details, 1, n - 2))

LEMMA MarshalledFields ==
  ASSUME NEW err, err.details \in Seq(Texts)
  PROVE  LET wire == MarshalStatus(err) IN
         /\ Len(wire) = Len(err.details) + 2
         /\ wire[1] = <<1, err.code>> /\ wire[2] = <<2, Message(err)>>
         /\ \A i \in 3..Len(wire) : wire[i] = <<3, err.details[i - 2]>>
<1> DEFINE S == Nat \X (Texts \cup {err.code, Message(err)})
           head == <<<<1, err.code>>, <<2, Message(err)>>>>
           tail == [i \in DOMAIN err.details |-> <<3, err.details[i]>>]
           wire == head \o tail
<1>1. head \in Seq(S) /\ Len(head) = 2
      /\ head[1] = <<1, err.code>> /\ head[2] = <<2, Message(err)>>
  OBVIOUS
<1>2. tail \in Seq(S) /\ Len(tail) = Len(err.details)
      /\ \A i \in 1..Len(err.details) : tail[i] = <<3, err.details[i]>>
  OBVIOUS
<1> HIDE DEF S, head, tail
<1>3. /\ Len(wire) = Len(head) + Len(tail)
      /\ \A i \in 1..Len(head) + Len(tail) :
           wire[i] = IF i <= Len(head) THEN head[i] ELSE tail[i - Len(head)]
  <2>1. head \in Seq(S) /\ tail \in Seq(S)
    BY <1>1, <1>2
  <2> QED
    BY <2>1, ConcatProperties, Zenon
<1>4. MarshalStatus(err) = wire
  BY DEF MarshalStatus, head, tail
<1>5. Len(err.details) \in Nat
  OBVIOUS
<1> HIDE DEF wire
<1>6. wire[1] = <<1, err.code>> /\ wire[2] = <<2, Message(err)>>
  BY <1>1, <1>3
<1>7. ASSUME NEW i \in 3..Len(wire) PROVE wire[i] = <<3, err.details[i - 2]>>
  <2>1. i - 2 \in 1..Len(err.details) /\ i \in Len(head) + 1..Len(head) + Len(tail)
    BY <1>1, <1>2, <1>3, <1>5
  <2>2. wire[i] = tail[i - 2]
    BY <1>1, <1>3, <2>1
  <2> QED
    BY <1>2, <2>1, <2>2
<1> QED
  BY <1>1, <1>2, <1>3, <1>4, <1>5, <1>6, <1>7

LEMMA OneMore ==
  ASSUME NEW S, NEW s \in Seq(S), NEW n \in 1..Len(s)
  PROVE  Append(SubSeq(s, 1, n - 1), s[n]) = SubSeq(s, 1, n)
<1>1. \A i \in 1..n : s[i] \in S
  OBVIOUS
<1>2. /\ SubSeq(s, 1, n) \in Seq(S) /\ Len(SubSeq(s, 1, n)) = n
      /\ \A i \in 1..n : SubSeq(s, 1, n)[i] = s[i]
  BY <1>1, SubSeqProperties
<1>3. /\ SubSeq(s, 1, n - 1) \in Seq(S) /\ Len(SubSeq(s, 1, n - 1)) = n - 1
      /\ \A i \in 1..n - 1 : SubSeq(s, 1, n - 1)[i] = s[i]
  BY <1>1, SubSeqProperties
<1>4. s[n] \in S
  BY <1>1
<1> DEFINE t == Append(SubSeq(s, 1, n - 1), s[n])
<1>5. /\ t \in Seq(S) /\ Len(t) = n
      /\ \A i \in 1..n - 1 : t[i] = s[i]
      /\ t[n] = s[n]
  BY <1>3, <1>4, AppendProperties
<1> HIDE DEF t
<1>6. \A i \in 1..n : t[i] = SubSeq(s, 1, n)[i]
  BY <1>2, <1>5
<1>7. t = SubSeq(s, 1, n)
  BY <1>2, <1>5, <1>6, SeqEqual
<1> QED
  BY <1>7 DEF t

LEMMA CodeIsRead ==
  \A c, m, d, v : ReadField(Status(c, m, d), <<1, v>>) = Status(v, m, d)
BY DEF ReadField, Status

LEMMA MessageIsRead ==
  \A c, m, d, v : ReadField(Status(c, m, d), <<2, v>>) = Status(c, v, d)
BY DEF ReadField, Status

LEMMA DetailIsRead ==
  \A c, m, d, v : ReadField(Status(c, m, d), <<3, v>>) = Status(c, m, Append(d, v))
BY DEF ReadField, Status

LEMMA ReadStep ==
  ASSUME NEW err, err.details \in Seq(Texts), NEW n \in 1..Len(MarshalStatus(err))
  PROVE  ReadField(ReadSoFar(err, n - 1), MarshalStatus(err)[n]) = ReadSoFar(err, n)
<1> DEFINE wire == MarshalStatus(err)
<1>1. /\ Len(wire) = Len(err.details) + 2
      /\ wire[1] = <<1, err.code>> /\ wire[2] = <<2, Message(err)>>
      /\ \A i \in 3..Len(wire) : wire[i] = <<3, err.details[i - 2]>>
  BY MarshalledFields
<1> HIDE DEF wire
<1>2. n \in Nat /\ n >= 1 /\ n <= Len(wire) /\ Len(err.details) \in Nat
  BY DEF wire
<1>3. CASE n = 1
  <2>1. ReadSoFar(err, n - 1) = Status(0, NoText, <<>>) /\ wire[n] = <<1, err.code>>
    BY <1>1, <1>3 DEF ReadSoFar, NoStatus, Status
  <2>2. ReadSoFar(err, n) = Status(err.code, NoText, <<>>)
    BY <1>3 DEF ReadSoFar
  <2> QED
    <3>1. ReadField(Status(0, NoText, <<>>), <<1, err.code>>) = Status(err.code, NoText, <<>>)
      BY CodeIsRead
    <3>2. ReadField(ReadSoFar(err, n - 1), wire[n]) = ReadSoFar(err, n)
      BY <2>1, <2>2, <3>1, Zenon
    <3> QED
      BY <3>2 DEF wire
<1>4. CASE n = 2
  <2>1. ReadSoFar(err, n - 1) = Status(err.code, NoText, <<>>) /\ wire[n] = <<2, Message(err)>>
    BY <1>1, <1>4 DEF ReadSoFar
  <2>2. ReadSoFar(err, n) = Status(err.code, Message(err), <<>>)
    BY <1>4 DEF ReadSoFar
  <2> QED
    <3>1. ReadField(Status(err.code, NoText, <<>>), <<2, Message(err)>>) =
            Status(err.code, Message(err), <<>>)
      BY MessageIsRead
    <3>2. ReadField(ReadSoFar(err, n - 1), wire[n]) = ReadSoFar(err, n)
      BY <2>1, <2>2, <3>1, Zenon
    <3> QED
      BY <3>2 DEF wire
<1>5. CASE n > 2
  <2> DEFINE d == SubSeq(err.details, 1, n - 3)
  <2>1. wire[n] = <<3, err.details[n - 2]>> /\ n - 2 \in 1..Len(err.details)
    BY <1>1, <1>2, <1>5
  <2>2. Append(d, err.details[n - 2]) = SubSeq(err.details, 1, n - 2)
    <3>1. (n - 2) - 1 = n - 3
      BY <1>2
    <3> QED
      BY <2>1, <3>1, OneMore
  <2>3. ReadSoFar(err, n - 1) = Status(err.code, Message(err), d)
    <3>1. CASE n = 3
      <4>1. d = <<>>
        BY <3>1, SubSeqEmpty
      <4>2. ReadSoFar(err, 2) = Status(err.code, Message(err), <<>>)
        BY DEF ReadSoFar
      <4>3. n - 1 = 2
        BY <3>1
      <4> QED
        BY <4>1, <4>2, <4>3, Zenon
    <3>2. CASE n > 3
      <4>1. n - 1 \notin {0, 1, 2} /\ (n - 1) - 2 = n - 3
        BY <1>2, <3>2
      <4> QED
        BY <4>1 DEF ReadSoFar
    <3> QED
      BY <1>2, <1>5, <3>1, <3>2
  <2>4. ReadSoFar(err, n) = Status(err.code, Message(err), SubSeq(err.details, 1, n - 2))
    BY <1>2, <1>5 DEF ReadSoFar
  <2> HIDE DEF d
  <2> QED
    <3>1. ReadField(Status(err.code, Message(err), d), <<3, err.details[n - 2]>>) =
            Status(err.code, Message(err), Append(d, err.details[n - 2]))
      BY DetailIsRead
    <3>2. ReadField(ReadSoFar(err, n - 1), wire[n]) = ReadSoFar(err, n)
      BY <2>1, <2>2, <2>3, <2>4, <3>1, Zenon
    <3> QED
      BY <3>2 DEF wire
<1> QED
  BY <1>2, <1>3, <1>4, <1>5 DEF wire

\* What is marshalled is read back (Error.MarshalStatus, unmarshalStatus):
\* by induction over the fields of the message, as many details as there are.
THEOREM StatusRoundTrip ==
  ASSUME NEW err, err.details \in Seq(Texts)
  PROVE  UnmarshalStatus(MarshalStatus(err)) =
           Status(err.code, Message(err), err.details)
<1> DEFINE wire == MarshalStatus(err)
           n == Len(err.details) + 2
           Is(f) == f = [i \in 0..Len(wire) |->
                           IF i = 0 THEN NoStatus ELSE ReadField(f[i - 1], wire[i])]
           read == CHOOSE f : Is(f)
           closed == [i \in 0..Len(wire) |-> ReadSoFar(err, i)]
<1>1. Len(wire) = n /\ n \in Nat /\ n >= 2
  BY MarshalledFields
<1>2. \A i \in 1..Len(wire) : ReadField(ReadSoFar(err, i - 1), wire[i]) = ReadSoFar(err, i)
  BY ReadStep
<1>3. ReadSoFar(err, 0) = NoStatus
  BY DEF ReadSoFar
<1> HIDE DEF wire
<1>4. Is(closed)
  <2>1. \A i \in 1..Len(wire) : closed[i - 1] = ReadSoFar(err, i - 1)
    BY <1>1
  <2> QED
    BY <1>1, <1>2, <1>3, <2>1
<1>5. Is(read)
  BY <1>4
<1>6. UnmarshalStatus(wire) = read[Len(wire)]
  BY DEF UnmarshalStatus
<1> HIDE DEF read
<1>7. \A i \in 0..Len(wire) : read[i] = IF i = 0 THEN NoStatus ELSE ReadField(read[i - 1], wire[i])
  BY <1>5
<1>8. \A i \in 0..Len(wire) : read[i] = ReadSoFar(err, i)
  <2> DEFINE T == {i \in 0..Len(wire) : read[i] # ReadSoFar(err, i)}
  <2>1. SUFFICES ASSUME T # {} PROVE FALSE
    OBVIOUS
  <2>2. T \in SUBSET Nat
    BY <1>1
  <2>3. PICK x \in T : \A y \in T : x <= y
    BY <2>1, <2>2, LeastElement
  <2>4. x \in 1..Len(wire)
    BY <1>1, <1>3, <1>7, <2>3
  <2>5. x - 1 \in 0..Len(wire) /\ x - 1 \notin T
    BY <1>1, <2>3, <2>4
  <2>6. read[x] = ReadField(ReadSoFar(err, x - 1), wire[x])
    BY <1>1, <1>7, <2>4, <2>5
  <2> QED
    BY <1>2, <2>3, <2>4, <2>6
<1>9. SubSeq(err.details, 1, n - 2) = err.details
  BY n - 2 = Len(err.details), SubSeqFull
<1>10. UnmarshalStatus(wire) = ReadSoFar(err, n)
  BY <1>1, <1>6, <1>8
<1>11. CASE n = 2
  <2>1. err.details = <<>>
    BY <1>9, <1>11, SubSeqEmpty
  <2> QED
    BY <1>10, <1>11, <2>1 DEF wire, ReadSoFar
<1>12. CASE n > 2
  <2>1. ReadSoFar(err, n) = Status(err.code, Message(err), SubSeq(err.details, 1, n - 2))
    BY <1>1, <1>12 DEF ReadSoFar
  <2> QED
    BY <1>9, <1>10, <2>1, Zenon DEF wire
<1> QED
  BY <1>1, <1>11, <1>12

LEMMA NothingToRead == UnmarshalStatus(<<>>) = NoStatus
<1> DEFINE Is(f) == f = [i \in 0..Len(<<>>) |->
                           IF i = 0 THEN NoStatus ELSE ReadField(f[i - 1], <<>>[i])]
           read == CHOOSE f : Is(f)
           closed == [i \in {0} |-> NoStatus]
<1>1. 0..Len(<<>>) = {0}
  OBVIOUS
<1>2. Is(closed)
  BY <1>1
<1>3. Is(read)
  BY <1>2
<1>4. UnmarshalStatus(<<>>) = read[Len(<<>>)]
  BY DEF UnmarshalStatus
<1> HIDE DEF read
<1>5. read[0] = NoStatus /\ Len(<<>>) = 0
  BY <1>1, <1>3
<1> QED
  BY <1>4, <1>5

-----------------------------------------------------------------------------
(* What the caller sees *)

\* Over HTTP: the code, also where its status is that of several codes, the
\* details, and the message (writeError, FromHTTP).
THEOREM HTTPRoundTrip ==
  ASSUME NEW err, IsError(err)
  PROVE  LET seen == FromHTTP(WriteError(err)) IN
         /\ seen.code = Code(err) /\ seen.message = Message(err) /\ seen.details = err.details
<1> DEFINE rpcErr == IF err.kind = "rpc" THEN err ELSE NewError("unknown", err.message)
           resp == WriteError(err)
           st == UnmarshalStatus(resp.header)
<1>1. /\ Code(err) \in KnownCodes /\ err.details \in Seq(Texts) /\ err.kind \in {"rpc", "raw"}
      /\ err.kind = "raw" => err.details = <<>>
      /\ Message(err) # NoText
  BY MessageIsText DEF IsError
<1>2. /\ Message(rpcErr) = Message(err) /\ rpcErr.details = err.details
      /\ rpcErr.code = Code(err)
  <2>1. CASE err.kind = "rpc"
    BY <2>1 DEF Code
  <2>2. CASE err.kind = "raw"
    <3>1. /\ rpcErr.kind = "rpc" /\ rpcErr.code = CodeOf("unknown")
          /\ rpcErr.message = err.message /\ rpcErr.details = <<>>
      BY <2>2 DEF NewError
    <3>2. Code(rpcErr) = Code(err) /\ Code(err) = CodeOf("unknown")
      BY <2>2, <3>1 DEF Code
    <3>3. Message(rpcErr) = Message(err)
      BY <3>1, <3>2 DEF Message
    <3> QED
      BY <1>1, <2>2, <3>1, <3>2, <3>3
  <2> QED
    BY <1>1, <2>1, <2>2
<1> HIDE DEF rpcErr
<1>3. /\ resp.body = "json" /\ resp.code = CodeName(Code(err)) /\ resp.message = Message(err)
      /\ resp.header = IF err.details # <<>> THEN MarshalStatus(rpcErr) ELSE <<>>
  BY <1>2 DEF WriteError, rpcErr
<1> HIDE DEF resp
<1>4. st = IF err.details # <<>> THEN Status(Code(err), Message(err), err.details) ELSE NoStatus
  <2>1. UnmarshalStatus(MarshalStatus(rpcErr)) = Status(rpcErr.code, Message(rpcErr), rpcErr.details)
    BY <1>1, <1>2, StatusRoundTrip
  <2> QED
    BY <1>2, <1>3, <2>1, NothingToRead
<1> HIDE DEF st
<1>5. CodeFromString(resp.code) = {Code(err)}
  BY <1>1, <1>3, NameOfCode
<1>6. /\ FromHTTP(resp).code =
           IF st.code # 0 THEN st.code ELSE CHOOSE c \in {Code(err)} : TRUE
      /\ FromHTTP(resp).message = IF st.message # NoText THEN st.message ELSE Message(err)
      /\ FromHTTP(resp).details = st.details
  BY <1>1, <1>3, <1>5 DEF FromHTTP, st
<1>7. (CHOOSE c \in {Code(err)} : TRUE) = Code(err)
  OBVIOUS
<1>8. CASE err.details # <<>>
  BY <1>4, <1>6, <1>7, <1>8 DEF Status, resp
<1>9. CASE err.details = <<>>
  BY <1>4, <1>6, <1>7, <1>9 DEF NoStatus, resp
<1> QED
  BY <1>8, <1>9

\* Over gRPC the code and the details, and the message with the error's text
\* around it (ToGRPC, FromGRPCStatus); what comes out is an *Error.
THEOREM GRPCRoundTrip ==
  ASSUME NEW err, IsError(err)
  PROVE  LET seen == FromGRPCStatus(ToGRPC(err)) IN
         /\ seen.kind = "rpc" /\ seen.code = Code(err) /\ seen.details = err.details
         /\ seen.message = ErrorText(err)
         /\ ToGRPC(ToGRPC(err)) = ToGRPC(err)
         /\ IsError(seen)
<1>1. err.kind \in {"rpc", "raw"} /\ (err.kind = "raw" => err.details = <<>>)
  BY DEF IsError
<1>2. /\ ToGRPC(err).kind = "grpc" /\ ToGRPC(err).code = Code(err)
      /\ ToGRPC(err).message = ErrorText(err) /\ ToGRPC(err).details = err.details
  BY <1>1 DEF ToGRPC
<1>3. ToGRPC(ToGRPC(err)) = ToGRPC(err)
  BY <1>2 DEF ToGRPC
<1>4. DOMAIN ToGRPC(err) = {"kind", "code", "message", "details"}
  BY <1>1 DEF ToGRPC
<1>5. LET seen == FromGRPCStatus(ToGRPC(err)) IN
      /\ seen.kind = "rpc" /\ seen.code = Code(err) /\ seen.details = err.details
      /\ seen.message = ErrorText(err)
  BY <1>2, <1>4 DEF FromGRPCStatus
<1>6. IsError(FromGRPCStatus(ToGRPC(err)))
  BY <1>5 DEF IsError, Code
<1> QED
  BY <1>3, <1>5, <1>6

-----------------------------------------------------------------------------
(* Types *)

USE ServerAssumption DEF ServerAssumption

LEMMA TypeInit == Init => TypeOK
<1> SUFFICES ASSUME Init PROVE TypeOK
  OBVIOUS
<1> USE DEF Init
<1>1. \A r \in Requests : /\ phase[r] = "idle" /\ answer[r] = None
                          /\ outcome[r].err = None
  BY DEF NoOutcome
<1>2. /\ DOMAIN call = Requests /\ DOMAIN request = Requests /\ DOMAIN claims = Requests
      /\ DOMAIN payload = Requests /\ DOMAIN stream = Requests /\ DOMAIN outcome = Requests
      /\ DOMAIN answer = Requests
  OBVIOUS
<1>3. /\ policy \in Policies /\ swaps \in 0..MaxSwaps
      /\ phase \in [Requests -> Phases] /\ public \in [Requests -> {"yes", "no"}]
      /\ verdict \in [Requests -> Verdicts] /\ expired \in [Requests -> {"yes", "no"}]
  BY DEF Phases, Verdicts
<1>4. under \in [Requests -> Policies \cup {None}]
  OBVIOUS
<1> QED
  BY <1>1, <1>2, <1>3, <1>4 DEF TypeOK

LEMMA TypeNext == TypeOK /\ [Next]_vars => TypeOK'
<1> SUFFICES ASSUME TypeOK, [Next]_vars PROVE TypeOK'
  OBVIOUS
<1> USE DEF TypeOK, Go, Phases, Verdicts
<1>1. CASE Swap
  BY <1>1 DEF Swap
<1>2. ASSUME NEW r \in Requests, Send(r) PROVE TypeOK'
  BY <1>2 DEF Send
<1>3. ASSUME NEW r \in Requests, DispatchGRPC(r) PROVE TypeOK'
  BY <1>3 DEF DispatchGRPC
<1>4. ASSUME NEW r \in Requests, Dispatch(r) PROVE TypeOK'
  <2>1. ASSUME NEW p \in {"bind", "public"}, Go(r, p), phase[r] = "sent",
               UNCHANGED <<policy, swaps, call, request, public, claims, payload, stream, outcome,
                           answer, expired, verdict, under>>
        PROVE  TypeOK'
    BY <2>1
  <2>2. CASE Fail(r, NewError("invalid_argument", <<"read body">>))
    BY <1>4, <2>2 DEF Dispatch, Fail
  <2>3. (IF Op(request[r]).form = "unary" THEN "bind" ELSE "public") \in {"bind", "public"}
    OBVIOUS
  <2> QED
    BY <1>4, <2>1, <2>2, <2>3 DEF Dispatch
<1>5. ASSUME NEW r \in Requests, NotRouted(r) PROVE TypeOK'
  BY <1>5 DEF NotRouted, Respond
<1>6. ASSUME NEW r \in Requests, Bind(r) PROVE TypeOK'
  BY <1>6 DEF Bind, Fail
<1>7. ASSUME NEW r \in Requests, Public(r) PROVE TypeOK'
  BY <1>7 DEF Public, IsPublic
<1>8. ASSUME NEW r \in Requests, JWT(r) PROVE TypeOK'
  BY <1>8 DEF JWT, Refuse, Fail
<1>9. ASSUME NEW r \in Requests, RBAC(r) PROVE TypeOK'
  <2>1. ASSUME NEW p \in {"run", "bind", "upgrade", "wrap"}, Go(r, p), phase[r] = "rbac",
               verdict' = [verdict EXCEPT ![r] = "admitted"],
               under' = [under EXCEPT ![r] = policy],
               UNCHANGED <<policy, swaps, call, request, public, claims, payload, stream, outcome,
                           answer, expired>>
        PROVE  TypeOK'
    BY <2>1
  <2>2. CASE Refuse(r, "permission_denied")
    BY <1>9, <2>2 DEF RBAC, Refuse, Fail
  <2>3. Behind(request[r]) \in {"run", "bind", "upgrade", "wrap"}
    BY DEF Behind
  <2> QED
    BY <1>9, <2>1, <2>2, <2>3 DEF RBAC
<1>10. ASSUME NEW r \in Requests, Upgrade(r) PROVE TypeOK'
  <2>1. ASSUME NEW p \in {"wrap", "frame"}, Go(r, p), phase[r] = "upgrade",
               UNCHANGED <<policy, swaps, call, request, public, claims, payload, stream, outcome,
                           answer, expired, verdict, under>>
        PROVE  TypeOK'
    BY <2>1
  <2>2. CASE Fail(r, NewError("internal", <<"websocket upgrade">>))
    BY <1>10, <2>2 DEF Upgrade, Fail
  <2>3. (IF Op(request[r]).form = "bidi" THEN "wrap" ELSE "frame") \in {"wrap", "frame"}
    OBVIOUS
  <2> QED
    BY <1>10, <2>1, <2>2, <2>3 DEF Upgrade
<1>11. ASSUME NEW r \in Requests, ReadFrame(r) PROVE TypeOK'
  BY <1>11 DEF ReadFrame, Respond
<1>12. ASSUME NEW r \in Requests, WrapStream(r) PROVE TypeOK'
  BY <1>12 DEF WrapStream
<1>13. ASSUME NEW r \in Requests, Handle(r) PROVE TypeOK'
  BY <1>13 DEF Handle
<1>14. ASSUME NEW r \in Requests, Reply(r) PROVE TypeOK'
  BY <1>14 DEF Reply, Respond
<1>15. ASSUME NEW r \in Requests, Expire(r) PROVE TypeOK'
  BY <1>15 DEF Expire
<1>16. CASE UNCHANGED vars
  BY <1>16 DEF vars
<1> QED
  BY <1>1, <1>2, <1>3, <1>4, <1>5, <1>6, <1>7, <1>8, <1>9, <1>10, <1>11, <1>12, <1>13, <1>14,
     <1>15, <1>16 DEF Next, Serve

\* The types of Server, and that what failed or was answered stays so.
THEOREM TypeCorrect == Spec => []TypeOK
BY TypeInit, TypeNext, PTL DEF Spec

-----------------------------------------------------------------------------
(* Admission *)

\* What the chain knows at each of its steps, and that what is behind it has
\* been admitted.  A message is bound before the chain if it is unary.
ChainInv ==
  \A r \in Requests :
    /\ phase[r] \in {"bind", "public", "jwt", "rbac"} =>
         IsGRPC(request[r]) \/ request[r].route.handler # None
    /\ phase[r] \in {"idle", "sent", "public", "jwt", "rbac"} => verdict[r] = "none"
    /\ phase[r] \in {"jwt", "rbac"} => public[r] = IsPublic(request[r])
    /\ phase[r] = "rbac" /\ public[r] = "no" =>
         HasToken(request[r]) /\ claims[r] = Token(request[r]).claims
    /\ phase[r] = "bind" =>
         verdict[r] = IF Op(request[r]).form = "unary" THEN "none" ELSE "admitted"
    /\ phase[r] \in {"upgrade", "frame", "wrap", "run"} => verdict[r] = "admitted"

LEMMA ChainInit == Init => ChainInv
<1> SUFFICES ASSUME Init, NEW r \in Requests PROVE phase[r] = "idle" /\ verdict[r] = "none"
  BY DEF ChainInv
<1> QED
  BY DEF Init

LEMMA ChainNext == TypeOK /\ ChainInv /\ [Next]_vars => ChainInv'
<1> SUFFICES ASSUME TypeOK, ChainInv, [Next]_vars PROVE ChainInv'
  OBVIOUS
<1> USE DEF TypeOK, ChainInv, Go
<1>1. CASE Swap
  BY <1>1 DEF Swap
<1>2. ASSUME NEW r \in Requests, Send(r) PROVE ChainInv'
  BY <1>2 DEF Send
<1>3. ASSUME NEW r \in Requests, DispatchGRPC(r) PROVE ChainInv'
  BY <1>3 DEF DispatchGRPC
<1>4. ASSUME NEW r \in Requests, Dispatch(r) PROVE ChainInv'
  <2>1. /\ phase[r] = "sent" /\ request[r].route.handler # None
        /\ UNCHANGED <<request, public, claims, verdict>>
    BY <1>4 DEF Dispatch
  <2>2. CASE Go(r, "bind") /\ Op(request[r]).form = "unary"
    BY <2>1, <2>2
  <2>3. CASE Go(r, "public") \/ Go(r, "error")
    BY <2>1, <2>3
  <2> QED
    BY <1>4, <2>2, <2>3 DEF Dispatch, Fail
<1>5. ASSUME NEW r \in Requests, NotRouted(r) PROVE ChainInv'
  BY <1>5 DEF NotRouted, Respond
<1>6. ASSUME NEW r \in Requests, Bind(r) PROVE ChainInv'
  BY <1>6 DEF Bind, Fail
<1>7. ASSUME NEW r \in Requests, Public(r) PROVE ChainInv'
  BY <1>7 DEF Public
<1>8. ASSUME NEW r \in Requests, JWT(r) PROVE ChainInv'
  BY <1>8 DEF JWT, Refuse, Fail
<1>9. ASSUME NEW r \in Requests, RBAC(r) PROVE ChainInv'
  BY <1>9 DEF RBAC, Refuse, Fail, Behind
<1>10. ASSUME NEW r \in Requests, Upgrade(r) PROVE ChainInv'
  <2>1. /\ phase[r] = "upgrade" /\ UNCHANGED <<request, public, claims, verdict>>
        /\ \E p \in {"wrap", "frame", "error"} : Go(r, p)
    BY <1>10 DEF Upgrade, Fail
  <2> QED
    BY <2>1
<1>11. ASSUME NEW r \in Requests, ReadFrame(r) PROVE ChainInv'
  BY <1>11 DEF ReadFrame, Respond
<1>12. ASSUME NEW r \in Requests, WrapStream(r) PROVE ChainInv'
  BY <1>12 DEF WrapStream
<1>13. ASSUME NEW r \in Requests, Handle(r) PROVE ChainInv'
  BY <1>13 DEF Handle
<1>14. ASSUME NEW r \in Requests, Reply(r) PROVE ChainInv'
  BY <1>14 DEF Reply, Respond
<1>15. ASSUME NEW r \in Requests, Expire(r) PROVE ChainInv'
  BY <1>15 DEF Expire
<1>16. CASE UNCHANGED vars
  BY <1>16 DEF vars
<1> QED
  BY <1>1, <1>2, <1>3, <1>4, <1>5, <1>6, <1>7, <1>8, <1>9, <1>10, <1>11, <1>12, <1>13, <1>14,
     <1>15, <1>16 DEF Next, Serve

LEMMA InitMaps == Init => A!Init
BY DEF Init, A!Init, Stage

\* A step of a request to the phase p moves it to the stage of p.
LEMMA StageMoves ==
  ASSUME TypeOK, NEW r \in Requests, NEW p \in Phases, Go(r, p)
  PROVE  [x \in Requests |-> Stage(phase[x])]' =
           [[x \in Requests |-> Stage(phase[x])] EXCEPT ![r] = Stage(p)]
BY DEF TypeOK, Go, Stage

\* Every step is an arrival, a decision, the handler, the answer, a new policy,
\* or nothing that Admission sees.
LEMMA StepMaps == TypeOK /\ ChainInv /\ [Next]_vars => [A!Next]_(A!vars)
<1> SUFFICES ASSUME TypeOK, ChainInv, [Next]_vars PROVE [A!Next]_(A!vars)
  OBVIOUS
<1> DEFINE stage == [x \in Requests |-> Stage(phase[x])]
<1>1. CASE Swap
  <2>1. A!Swap
    BY <1>1 DEF Swap, A!Swap
  <2> QED
    BY <2>1 DEF A!Next
<1>2. ASSUME NEW r \in Requests, Send(r) PROVE A!Next
  <2>1. phase[r] = "idle" /\ Go(r, "sent")
    BY <1>2 DEF Send
  <2>2. PICK c \in Inputs[r] : request' = [request EXCEPT ![r] = Routed(Wire(c))]
    BY <1>2 DEF Send
  <2>3. Routed(Wire(c)) \in Accepted
    BY <2>2 DEF Accepted
  <2>4. stage[r] = "idle" /\ stage' = [stage EXCEPT ![r] = "open"]
    BY <2>1, StageMoves DEF Stage, Phases
  <2>5. A!Arrive(r)
    BY <1>2, <2>2, <2>3, <2>4 DEF Send, A!Arrive
  <2> QED
    BY <2>5 DEF A!Next
\* Steps within a stage, without a decision.
<1>3. ASSUME NEW r \in Requests, NEW p \in Phases, Go(r, p), Stage(p) = Stage(phase[r]),
             UNCHANGED <<policy, request, verdict>>
      PROVE  UNCHANGED A!vars
  <2>1. stage' = [stage EXCEPT ![r] = stage[r]]
    BY <1>3, StageMoves
  <2> QED
    BY <1>3, <2>1 DEF A!vars
<1>4. ASSUME NEW r \in Requests, NEW p \in Phases, Go(r, p), p = "done",
             phase[r] \notin {"idle", "done"}, UNCHANGED <<policy, request, verdict>>
      PROVE  A!Next
  <2>1. stage[r] \in {"open", "ran"} /\ stage' = [stage EXCEPT ![r] = "done"]
    BY <1>4, StageMoves DEF Stage
  <2>2. A!Answer(r)
    BY <1>4, <2>1 DEF A!Answer
  <2> QED
    BY <2>2 DEF A!Next
<1>5. ASSUME NEW r \in Requests, NEW p \in Phases, Go(r, p), Stage(p) = "open",
             Stage(phase[r]) = "open", verdict[r] = "none",
             verdict' = [verdict EXCEPT ![r] = Rights(request[r], policy)],
             UNCHANGED <<policy, request>>
      PROVE  A!Next
  <2>1. stage[r] = "open" /\ stage' = [stage EXCEPT ![r] = stage[r]]
    BY <1>5, StageMoves
  <2>2. UNCHANGED stage
    BY <2>1
  <2>3. A!Decide(r)
    BY <1>5, <2>1, <2>2 DEF A!Decide
  <2> QED
    BY <2>3 DEF A!Next
<1>6. ASSUME NEW r \in Requests, DispatchGRPC(r) PROVE UNCHANGED A!vars
  BY <1>3, <1>6 DEF DispatchGRPC, Stage, Phases
<1>7. ASSUME NEW r \in Requests, Dispatch(r) PROVE UNCHANGED A!vars
  <2>1. \E p \in {"bind", "public", "error"} : Go(r, p)
    BY <1>7 DEF Dispatch, Fail
  <2> QED
    BY <1>3, <1>7, <2>1 DEF Dispatch, Stage, Phases
<1>8. ASSUME NEW r \in Requests, NotRouted(r) PROVE A!Next
  BY <1>4, <1>8 DEF NotRouted, Respond, Phases
<1>9. ASSUME NEW r \in Requests, Bind(r) PROVE UNCHANGED A!vars
  <2>1. \E p \in {"public", "upgrade", "wrap", "error"} : Go(r, p)
    BY <1>9 DEF Bind, Fail
  <2> QED
    BY <1>3, <1>9, <2>1 DEF Bind, Stage, Phases
<1>10. ASSUME NEW r \in Requests, Public(r) PROVE UNCHANGED A!vars
  BY <1>3, <1>10 DEF Public, Stage, Phases
<1>11. ASSUME NEW r \in Requests, JWT(r) PROVE [A!Next]_(A!vars)
  <2>1. CASE public[r] = "yes" \/ HasToken(request[r])
    <3>1. Go(r, "rbac") /\ phase[r] = "jwt" /\ UNCHANGED <<policy, request, verdict>>
      BY <1>11, <2>1, public[r] \in {"yes", "no"} DEF JWT, TypeOK
    <3> QED
      BY <1>3, <3>1 DEF Stage, Phases
  <2>2. CASE ~(public[r] = "yes" \/ HasToken(request[r]))
    <3>1. /\ Go(r, "error") /\ phase[r] = "jwt" /\ UNCHANGED <<policy, request>>
          /\ verdict' = [verdict EXCEPT ![r] = "unauthenticated"]
      BY <1>11, <2>2 DEF JWT, Refuse, Fail
    <3>2. verdict[r] = "none" /\ Rights(request[r], policy) = "unauthenticated"
      BY <2>2, <3>1 DEF ChainInv, Rights
    <3> QED
      BY <1>5, <3>1, <3>2 DEF Stage, Phases
  <2> QED
    BY <2>1, <2>2
<1>12. ASSUME NEW r \in Requests, RBAC(r) PROVE A!Next
  <2> DEFINE may == public[r] = "yes" \/ Authorized(policy, Ctx(request[r], claims[r]))
  <2>1. /\ phase[r] = "rbac" /\ verdict[r] = "none" /\ UNCHANGED <<policy, request>>
        /\ public[r] = IsPublic(request[r]) /\ public[r] \in {"yes", "no"}
        /\ IsGRPC(request[r]) \/ request[r].route.handler # None
        /\ public[r] = "no" => HasToken(request[r]) /\ claims[r] = Token(request[r]).claims
    BY <1>12 DEF RBAC, ChainInv, TypeOK
  <2>2. Rights(request[r], policy) = IF may THEN "admitted" ELSE "permission_denied"
    BY <2>1 DEF Rights
  <2>3. /\ verdict' = [verdict EXCEPT ![r] = Rights(request[r], policy)]
        /\ \E p \in {"run", "bind", "upgrade", "wrap", "error"} : Go(r, p)
    BY <1>12, <2>2 DEF RBAC, Refuse, Fail, Behind
  <2> QED
    BY <1>5, <2>1, <2>3 DEF Stage, Phases
<1>13. ASSUME NEW r \in Requests, Upgrade(r) PROVE UNCHANGED A!vars
  <2>1. \E p \in {"wrap", "frame", "error"} : Go(r, p)
    BY <1>13 DEF Upgrade, Fail
  <2> QED
    BY <1>3, <1>13, <2>1 DEF Upgrade, Stage, Phases
<1>14. ASSUME NEW r \in Requests, ReadFrame(r) PROVE [A!Next]_(A!vars)
  <2>1. CASE Go(r, "wrap")
    BY <1>3, <1>14, <2>1 DEF ReadFrame, Stage, Phases
  <2>2. CASE Go(r, "done")
    BY <1>4, <1>14, <2>2 DEF ReadFrame, Phases
  <2> QED
    BY <1>14, <2>1, <2>2 DEF ReadFrame, Respond
<1>15. ASSUME NEW r \in Requests, WrapStream(r) PROVE UNCHANGED A!vars
  BY <1>3, <1>15 DEF WrapStream, Stage, Phases
<1>16. ASSUME NEW r \in Requests, Handle(r) PROVE A!Next
  <2>1. phase[r] = "run" /\ verdict[r] = "admitted" /\ Go(r, "reply")
    BY <1>16 DEF Handle, ChainInv
  <2>2. stage[r] = "open" /\ stage' = [stage EXCEPT ![r] = "ran"]
    BY <2>1, StageMoves DEF Stage, Phases
  <2>3. A!Run(r)
    BY <1>16, <2>1, <2>2 DEF Handle, A!Run
  <2> QED
    BY <2>3 DEF A!Next
<1>17. ASSUME NEW r \in Requests, Reply(r) PROVE A!Next
  BY <1>4, <1>17 DEF Reply, Respond, Phases
<1>18. ASSUME NEW r \in Requests, Expire(r) PROVE UNCHANGED A!vars
  BY <1>18 DEF Expire, A!vars
<1>19. CASE UNCHANGED vars
  BY <1>19 DEF vars, A!vars
<1> QED
  BY <1>1, <1>2, <1>6, <1>7, <1>8, <1>9, <1>10, <1>11, <1>12, <1>13, <1>14, <1>15, <1>16, <1>17,
     <1>18, <1>19 DEF Next, Serve

\* However a request comes in, its handler runs only if the rights it has under
\* the policy at the moment of the decision admit it (Public, JWT and RBAC, in
\* Handler.unary, authorizeStream and the gRPC interceptors).
THEOREM ServerImplementsAdmission == Spec => ImplementsAdmission
<1>1. Init => TypeOK /\ ChainInv /\ A!Init
  BY TypeInit, ChainInit, InitMaps
<1>2. TypeOK /\ ChainInv /\ [Next]_vars => TypeOK' /\ ChainInv' /\ [A!Next]_(A!vars)
  BY TypeNext, ChainNext, StepMaps
<1> QED
  BY <1>1, <1>2, PTL DEF Spec, ImplementsAdmission, A!Spec

-----------------------------------------------------------------------------
(* Deadlines *)

LEMMA HeadersOnWire ==
  ASSUME NEW c, c.via # "raw"
  PROVE  Routed(Wire(c)).headers =
           IF c.via = "unary" THEN DeadlineHeaders(c.timeout, c.deadline) ELSE NoHeaders
<1>1. /\ "headers" \in DOMAIN Wire(c)
      /\ Wire(c).headers = IF c.via = "unary" THEN DeadlineHeaders(c.timeout, c.deadline)
                           ELSE NoHeaders
  BY DEF Wire
<1> QED
  BY <1>1 DEF Routed

\* A duration or a point in time that the client does not have is not sent.
LEMMA NothingFromNothing == DeadlineFromRequest(NoHeaders, 0) = {}
BY DEF DeadlineFromRequest, ParseGrpcTimeout, ParseGrpcDeadline, NoHeaders

\* The deadline that the server derives is the caller's, to the precision of the
\* header that carries it (applyDeadline, deadlineFromRequest).
THEOREM DeadlinesArrive == Spec => []DeadlineCarried
<1>1. TypeOK => DeadlineCarried
  <2> SUFFICES ASSUME TypeOK, NEW r \in Requests, phase[r] # "idle", call[r].via # "raw"
               PROVE  LET c == call[r]
                          d == DeadlineOf(request[r])
                      IN IF c.timeout > 0 /\ c.via = "unary"
                         THEN \E s \in d :
                                \/ c.timeout <= s /\ s < c.timeout + Units[SmallestUnit(c.timeout)]
                                \/ c.timeout <= s /\ s = MaxDuration
                         ELSE IF c.deadline > 0 /\ c.via = "unary"
                         THEN \E s \in d : s <= c.deadline /\ c.deadline < s + Second
                         ELSE d = {}
    BY DEF DeadlineCarried
  <2> DEFINE c == call[r]
             h == request[r].headers
  <2>1. c \in Inputs[r] /\ request[r] = Routed(Wire(c))
    BY DEF TypeOK
  <2>2. /\ c.timeout \in Int /\ c.timeout <= MaxDuration /\ c.deadline \in Int
        /\ h = IF c.via = "unary" THEN DeadlineHeaders(c.timeout, c.deadline) ELSE NoHeaders
        /\ DeadlineOf(request[r]) = DeadlineFromRequest(h, 0)
    BY <2>1, HeadersOnWire DEF DeadlineOf
  <2> HIDE DEF h
  <2>3. CASE c.via # "unary" \/ (c.timeout <= 0 /\ c.deadline <= 0)
    <3>1. h = NoHeaders
      <4>1. CASE c.via # "unary"
        BY <2>2, <4>1
      <4>2. CASE c.via = "unary" /\ ~(c.timeout > 0) /\ ~(c.deadline > 0)
        BY <2>2, <4>2 DEF DeadlineHeaders, NoHeaders
      <4> QED
        BY <2>2, <2>3, <4>1, <4>2
    <3>2. DeadlineOf(request[r]) = {}
      BY <2>2, <3>1, NothingFromNothing
    <3> QED
      BY <2>2, <2>3, <3>2
  <2>4. CASE c.via = "unary" /\ c.timeout > 0
    <3>1. c.timeout \in 1..MaxDuration
      BY <2>2, <2>4, UnitTypes
    <3>2. h.timeout = {FormatGrpcTimeout(c.timeout)}
      BY <2>2, <2>4 DEF DeadlineHeaders
    <3>3. PICK s \in c.timeout..MaxDuration :
            /\ ParseGrpcTimeout(h.timeout) = {s}
            /\ s < c.timeout + Units[SmallestUnit(c.timeout)] \/ s = MaxDuration
      BY <3>1, <3>2, TimeoutRoundTrip
    <3>4. DeadlineOf(request[r]) = {s}
      BY <2>2, <3>3 DEF DeadlineFromRequest
    <3>5. c.timeout <= s
      BY <2>2, <3>3, UnitTypes
    <3> QED
      BY <2>4, <3>3, <3>4, <3>5
  <2>5. CASE c.via = "unary" /\ c.timeout <= 0 /\ c.deadline > 0
    <3>1. c.deadline \in Nat /\ h.timeout = {} /\ h.deadline = {FormatDeadline(c.deadline)}
      BY <2>2, <2>5 DEF DeadlineHeaders
    <3>2. PICK s \in 0..c.deadline :
            ParseGrpcDeadline(h.deadline) = {s} /\ c.deadline < s + Second
      BY <3>1, DeadlineRoundTrip
    <3>3. DeadlineOf(request[r]) = {IF t > 0 THEN t - 0 ELSE 0 : t \in {s}}
      BY <2>2, <3>1, <3>2 DEF DeadlineFromRequest, ParseGrpcTimeout
    <3>4. DeadlineOf(request[r]) = {s}
      BY <3>1, <3>2, <3>3
    <3> QED
      BY <2>2, <2>5, <3>1, <3>2, <3>4
  <2> QED
    BY <2>2, <2>3, <2>4, <2>5
<1> QED
  BY <1>1, TypeCorrect, PTL

-----------------------------------------------------------------------------
(* Requests that no operation serves *)

\* They are answered at once, and in one way.
Unrouted(r) == ~IsGRPC(request[r]) /\ request[r].route.handler = None
NotServed(path) == IF PathExists(path) THEN Http(PlainAnswer(405), "", AllowedMethods(path))
                   ELSE Http(PlainAnswer(404), "", {})
MuxInv ==
  \A r \in Requests : phase[r] # "idle" /\ Unrouted(r) =>
    \/ phase[r] = "sent" /\ answer[r] = None
    \/ phase[r] = "done" /\ answer[r] = NotServed(request[r].path)

LEMMA MuxInit == Init => MuxInv
BY DEF Init, MuxInv

LEMMA MuxNext == TypeOK /\ ChainInv /\ MuxInv /\ [Next]_vars => MuxInv'
<1> SUFFICES ASSUME TypeOK, ChainInv, MuxInv, [Next]_vars,
                    NEW r \in Requests, (phase[r] # "idle" /\ Unrouted(r))'
             PROVE  \/ phase'[r] = "sent" /\ answer'[r] = None
                    \/ phase'[r] = "done" /\ answer'[r] = NotServed(request'[r].path)
  BY DEF MuxInv
<1>1. TypeOK /\ ChainInv /\ (phase[r] # "idle" => ~Unrouted(r) \/ phase[r] \in {"sent", "done"})
  BY DEF MuxInv
<1>2. CASE phase'[r] = phase[r] /\ request'[r] = request[r] /\ answer'[r] = answer[r]
  <2>1. phase[r] # "idle" /\ Unrouted(r)
    BY <1>2 DEF Unrouted
  <2> QED
    BY <1>2, <2>1 DEF MuxInv
<1>3. CASE Send(r)
  <2>1. phase[r] = "idle" /\ phase'[r] = "sent" /\ answer'[r] = answer[r]
    BY <1>3 DEF Send, Go, TypeOK
  <2> QED
    BY <2>1 DEF TypeOK
<1>4. CASE NotRouted(r)
  BY <1>4 DEF NotRouted, NotServed, Respond, Go, TypeOK
<1>5. CASE Serve(r) /\ ~NotRouted(r)
  <2>1. request'[r] = request[r] /\ phase[r] \notin {"idle", "done"}
    BY <1>5 DEF Serve, DispatchGRPC, Dispatch, Bind, Public, JWT, RBAC, Upgrade, ReadFrame,
                WrapStream, Handle, Reply
  <2>2. Unrouted(r) /\ phase[r] = "sent"
    BY <1>1, <2>1 DEF Unrouted
  <2> QED
    BY <1>5, <2>2 DEF Serve, DispatchGRPC, Dispatch, Bind, Public, JWT, RBAC, Upgrade, ReadFrame,
                      WrapStream, Handle, Reply, Unrouted
<1>6. CASE Expire(r) \/ Swap \/ UNCHANGED vars
  BY <1>2, <1>6 DEF Expire, Swap, vars
<1>7. ASSUME NEW x \in Requests, x # r, Send(x) \/ Serve(x) \/ Expire(x)
      PROVE  phase'[r] = phase[r] /\ request'[r] = request[r] /\ answer'[r] = answer[r]
  BY <1>7 DEF Send, Expire, Serve, DispatchGRPC, Dispatch, NotRouted, Bind, Public, JWT, RBAC,
              Upgrade, ReadFrame, WrapStream, Handle, Reply, Respond, Refuse, Fail, Go, TypeOK
<1> QED
  BY <1>2, <1>3, <1>4, <1>5, <1>6, <1>7 DEF Next

LEMMA NotServedFields ==
  ASSUME NEW path
  PROVE  /\ NotServed(path).allow = IF PathExists(path) THEN AllowedMethods(path) ELSE {}
         /\ NotServed(path).resp.status = IF PathExists(path) THEN 405 ELSE 404
BY DEF NotServed, Http, PlainAnswer

\* The mux changes nothing in a request that it looks at.
LEMMA RoutedFields ==
  ASSUME NEW r \in Requests, NEW c \in Inputs[r]
  PROVE  LET q == Routed(Wire(c)) IN
         ~IsGRPC(q) => q.route = Serves(q.method, q.path)
<1> DEFINE w == Wire(c)
<1>1. {"major", "type", "method", "path", "route"} \subseteq DOMAIN w
  BY ServerAssumption DEF Wire
<1> HIDE DEF w
<1>2. /\ Routed(w).major = w.major /\ Routed(w).type = w.type
      /\ Routed(w).method = w.method /\ Routed(w).path = w.path
      /\ Routed(w).route = Route(w)
  BY <1>1 DEF Routed
<1> QED
  BY <1>2 DEF IsGRPC, Route, w

\* Every method that would be served on a path, and no other, is what a 405
\* allows (allowedMethods), and a 404 says that there is none.
THEOREM AllowIsExact == Spec => []AllowIsTruthful
<1>1. TypeOK /\ MuxInv => AllowIsTruthful
  <2> SUFFICES ASSUME TypeOK, MuxInv, NEW r \in Requests, answer[r] # None, Unrouted(r)
               PROVE  LET served == {m \in Methods : Serves(m, request[r].path).handler # None} IN
                      /\ answer[r].allow = served /\ request[r].method \notin served
                      /\ answer[r].resp.status = IF served = {} THEN 404 ELSE 405
    BY DEF AllowIsTruthful, Unrouted
  <2> DEFINE path == request[r].path
             served == {m \in Methods : Serves(m, path).handler # None}
  <2>1. /\ served = AllowedMethods(path)
        /\ PathExists(path) <=> served # {}
    BY DEF Serves, AllowedMethods, PathExists
  <2>2. request[r].method \notin served
    <3>1. PICK c \in Inputs[r] : request[r] = Routed(Wire(c))
      BY DEF TypeOK
    <3>2. request[r].route = Serves(request[r].method, path)
      BY <3>1, RoutedFields DEF Unrouted
    <3> QED
      BY <3>2 DEF Unrouted
  <2>3. answer[r] = NotServed(path)
    BY DEF TypeOK, MuxInv
  <2> HIDE DEF served
  <2>4. /\ answer[r].allow = served
        /\ answer[r].resp.status = IF served = {} THEN 404 ELSE 405
    <3>1. NotServed(path).allow = served
      BY <2>1, NotServedFields
    <3>2. NotServed(path).resp.status = IF served = {} THEN 404 ELSE 405
      BY <2>1, NotServedFields
    <3> QED
      BY <2>3, <3>1, <3>2
  <2> QED
    BY <2>2, <2>4 DEF served
<1> QED
  BY <1>1, TypeInit, TypeNext, ChainInit, ChainNext, MuxInit, MuxNext, PTL DEF Spec

-----------------------------------------------------------------------------
(* The interceptors of a stream *)

\* What an interceptor makes of a stream of r under the policy of the moment.
Streams(r) ==
  [public : {"yes", "no"}, claims : {None, Token(request[r]).claims},
   err : {""} \cup Refusals, by : {policy}]

LEMMA WrapTypes ==
  ASSUME NEW r \in Requests, NEW kind, NEW s \in Streams(r)
  PROVE  WrapWith(r, kind, s) \in Streams(r)
<1>1. WrapPublic(request[r], s) \in Streams(r)
  BY DEF Streams, WrapPublic
<1>2. WrapJWT(request[r], s) \in Streams(r)
  BY DEF Streams, WrapJWT, Refusals
<1>3. WrapRBAC(request[r], s) \in Streams(r)
  BY DEF Streams, WrapRBAC, Refusals
<1> QED
  BY <1>1, <1>2, <1>3 DEF WrapWith

\* The chain applies its interceptors one by one, the last one first.
LEMMA ChainUnfolds ==
  ASSUME NEW r \in Requests
  PROVE  \E f \in [0..Len(StreamChain) -> Streams(r)] :
           /\ f[0] = [NoStream EXCEPT !.by = policy]
           /\ \A n \in 1..Len(StreamChain) :
                f[n] = WrapWith(r, StreamChain[Len(StreamChain) + 1 - n], f[n - 1])
           /\ ChainStream(r) = f[Len(StreamChain)]
<1> DEFINE L == Len(StreamChain)
           S == Streams(r)
           s0 == [NoStream EXCEPT !.by = policy]
           Layer(n, s) == WrapWith(r, StreamChain[L + 1 - n], s)
           G == [n \in 1..L |-> [s \in S |-> Layer(n, s)]]
           Is(f) == f = [n \in 0..L |-> IF n = 0 THEN s0 ELSE Layer(n, f[n - 1])]
           chosen == CHOOSE f : Is(f)
<1>1. L \in Nat /\ s0 \in S
  <2>1. L \in Nat
    OBVIOUS
  <2>2. /\ DOMAIN s0 = {"public", "claims", "err", "by"}
        /\ s0 = [x \in {"public", "claims", "err", "by"} |-> s0[x]]
        /\ s0.public \in {"yes", "no"} /\ s0.claims = None /\ s0.by = policy
    BY DEF NoStream
  <2>3. s0.err = NoStream.err /\ NoStream.err = ""
    BY DEF NoStream
  <2>4. s0.err \in {""} \cup Refusals
    BY <2>3
  <2> HIDE DEF s0
  <2>5. s0 \in [public : {"yes", "no"}, claims : {None, Token(request[r]).claims},
               err : {""} \cup Refusals, by : {policy}]
    BY <2>2, <2>4
  <2>6. s0 \in S
    BY <2>5 DEF Streams
  <2> QED
    BY <2>1, <2>6
<1>2. \A n \in 1..L, s \in S : Layer(n, s) \in S
  BY WrapTypes
<1>3. ChainStream(r) = chosen[L]
  BY DEF ChainStream
<1> HIDE DEF L, S, s0, Layer
<1>4. G \in [1..L -> [S -> S]]
  BY <1>2
<1> HIDE DEF G
<1>5. PICK f \in [0..L -> S] : f[0] = s0 /\ \A n \in 1..L : f[n] = G[n][f[n - 1]]
  BY ONLY <1>1, <1>4, Recursion
<1>6. \A n \in 1..L : f[n - 1] \in S /\ f[n] = Layer(n, f[n - 1])
  <2> SUFFICES ASSUME NEW n \in 1..L PROVE f[n - 1] \in S /\ f[n] = Layer(n, f[n - 1])
    OBVIOUS
  <2>1. f[n - 1] \in S
    BY <1>1, <1>5
  <2> QED
    BY <1>5, <2>1 DEF G
<1>7. Is(f)
  BY <1>1, <1>5, <1>6
<1>8. Is(chosen)
  BY <1>7
<1> HIDE DEF chosen
<1>9. \A n \in 0..L : chosen[n] = IF n = 0 THEN s0 ELSE Layer(n, chosen[n - 1])
  BY <1>8
<1>10. \A n \in 0..L : chosen[n] = f[n]
  <2> DEFINE T == {n \in 0..L : chosen[n] # f[n]}
  <2>1. SUFFICES ASSUME T # {} PROVE FALSE
    OBVIOUS
  <2>2. T \in SUBSET Nat
    BY <1>1
  <2>3. PICK x \in T : \A y \in T : x <= y
    BY <2>1, <2>2, LeastElement
  <2>4. x \in 1..L
    BY <1>1, <1>5, <1>9, <2>3
  <2>5. x - 1 \in 0..L /\ x - 1 \notin T
    BY <1>1, <2>3, <2>4
  <2>6. chosen[x] = Layer(x, f[x - 1])
    BY <1>1, <1>9, <2>4, <2>5
  <2> QED
    BY <1>6, <2>3, <2>4, <2>6
<1>11. ChainStream(r) = f[L]
  BY <1>1, <1>3, <1>10
<1> QED
  BY <1>5, <1>6, <1>11 DEF L, S, s0, Layer

-----------------------------------------------------------------------------
(* Errors *)

Ended(q, o) ==
  /\ o.cause = None => o.err = None
  /\ o.cause # None =>
       /\ IsError(o.cause) /\ o.err # None
       /\ \/ o.err = o.cause
          \/ Op(q).gateway /\ ~IsGRPC(q) /\ o.err = FromGRPCStatus(ToGRPC(o.cause))
Answered(q, o, a) ==
  a # None /\ o.cause # None =>
    /\ a.kind = "grpc" => IsGRPC(q) /\ a.status = ToGRPC(ToGRPC(o.err))
    /\ a.kind = "http" => a.resp = WriteError(o.err)

\* What ended a request is an error, that of a service behind a gateway is the
\* one that its client makes of it, and the answer is made of it; until then
\* there is no error, and what runs has an operation.
OutcomeInv ==
  \A r \in Requests :
    /\ phase[r] \notin {"error", "reply", "done"} => outcome[r] = NoOutcome
    /\ phase[r] \in {"bind", "public", "jwt", "rbac", "upgrade", "frame", "wrap", "run"} =>
         request[r].route.handler \in DOMAIN Operations
    /\ stream[r].err \in {""} \cup Refusals
    /\ Ended(request[r], outcome[r])
    /\ Answered(request[r], outcome[r], answer[r])

LEMMA OutcomeInit == Init => OutcomeInv
<1> SUFFICES ASSUME Init, NEW r \in Requests
             PROVE  /\ phase[r] = "idle" /\ outcome[r] = NoOutcome /\ answer[r] = None
                    /\ NoOutcome.cause = None /\ NoOutcome.err = None
                    /\ stream[r].err \in {""} \cup Refusals
  BY DEF OutcomeInv, Ended, Answered
<1>1. NoStream.err \in {""} \cup Refusals
  BY DEF NoStream
<1> QED
  BY <1>1 DEF Init, NoOutcome

LEMMA NothingEnded ==
  ASSUME OutcomeInv, NEW r \in Requests, phase[r] \notin {"error", "reply", "done"}
  PROVE  outcome[r] = NoOutcome /\ outcome[r].cause = None /\ outcome[r].err = None
<1>1. outcome[r] = NoOutcome
  BY DEF OutcomeInv
<1>2. NoOutcome.cause = None /\ NoOutcome.err = None
  BY DEF NoOutcome
<1> QED
  BY <1>1, <1>2

\* The errors of the server itself.
LEMMA OwnErrors ==
  /\ \A m : IsError(NewError("invalid_argument", m)) /\ IsError(NewError("internal", m))
  /\ \A name \in Refusals : IsError(Denial(name))
  /\ IsError(DeadlineExceeded)
<1>1. /\ "invalid_argument" = CodeNames[4] /\ "internal" = CodeNames[14]
      /\ "permission_denied" = CodeNames[8] /\ "unauthenticated" = CodeNames[17]
  BY DEF CodeNames
<1>2. {"invalid_argument", "internal", "permission_denied", "unauthenticated"} \subseteq Names
  BY <1>1 DEF Names
<1>3. \A name \in Refusals : name \in Names
  BY <1>2 DEF Refusals
<1> QED
  BY <1>2, <1>3, NewErrorIsError, RawErrorIsError DEF Denial, DeadlineExceeded

\* A step that leaves the requests and their streams alone, and ends at most r,
\* with an error.
LEMMA Ends ==
  ASSUME TypeOK, OutcomeInv, NEW r \in Requests, NEW e, IsError(e), Fail(r, e),
         phase[r] \notin {"error", "reply", "done"}, UNCHANGED <<request, stream, answer>>
  PROVE  OutcomeInv'
<1> SUFFICES ASSUME NEW s \in Requests
             PROVE  /\ phase'[s] \notin {"error", "reply", "done"} => outcome'[s] = NoOutcome
                    /\ phase'[s] \in {"bind", "public", "jwt", "rbac", "upgrade", "frame", "wrap",
                                      "run"} => request[s].route.handler \in DOMAIN Operations
                    /\ stream[s].err \in {""} \cup Refusals
                    /\ Ended(request[s], outcome'[s])
                    /\ Answered(request[s], outcome'[s], answer[s])
  BY DEF OutcomeInv, Ended, Answered, Op, IsGRPC
<1>1. CASE s = r
  <2>1. phase'[s] = "error" /\ outcome'[s] = [err |-> e, cause |-> e] /\ answer[s] = None
    BY <1>1 DEF Fail, Go, TypeOK
  <2>2. outcome'[s].cause = e /\ outcome'[s].err = e
    BY <2>1
  <2>3. Ended(request[s], outcome'[s])
    BY <2>2 DEF Ended
  <2>4. Answered(request[s], outcome'[s], answer[s])
    BY <2>1 DEF Answered
  <2>5. stream[s].err \in {""} \cup Refusals
    BY DEF OutcomeInv
  <2> QED
    BY <2>1, <2>3, <2>4, <2>5
<1>2. CASE s # r
  <2>1. phase'[s] = phase[s] /\ outcome'[s] = outcome[s]
    BY <1>2 DEF Fail, Go, TypeOK
  <2> QED
    BY <2>1 DEF OutcomeInv
<1> QED
  BY <1>1, <1>2

\* A step that takes r to the phase p, and leaves the rest alone.
LEMMA Goes ==
  ASSUME TypeOK, OutcomeInv, NEW r \in Requests, NEW p, Go(r, p),
         UNCHANGED <<request, stream, outcome, answer>>,
         phase[r] \notin {"error", "reply", "done"},
         p \in {"bind", "public", "jwt", "rbac", "upgrade", "frame", "wrap", "run"} =>
           request[r].route.handler \in DOMAIN Operations
  PROVE  OutcomeInv'
<1> SUFFICES ASSUME NEW s \in Requests
             PROVE  /\ phase'[s] \notin {"error", "reply", "done"} => outcome[s] = NoOutcome
                    /\ phase'[s] \in {"bind", "public", "jwt", "rbac", "upgrade", "frame", "wrap",
                                      "run"} => request[s].route.handler \in DOMAIN Operations
                    /\ stream[s].err \in {""} \cup Refusals
                    /\ Ended(request[s], outcome[s])
                    /\ Answered(request[s], outcome[s], answer[s])
  BY DEF OutcomeInv, Ended, Answered, Op, IsGRPC
<1> QED
  BY DEF OutcomeInv, Go, TypeOK

LEMMA OutcomeNext == TypeOK /\ ChainInv /\ OutcomeInv /\ [Next]_vars => OutcomeInv'
<1> SUFFICES ASSUME TypeOK, ChainInv, OutcomeInv, [Next]_vars PROVE OutcomeInv'
  OBVIOUS
<1>1. ASSUME UNCHANGED <<phase, request, stream, outcome, answer>> PROVE OutcomeInv'
  BY <1>1 DEF OutcomeInv, Ended, Answered, Op, IsGRPC
<1>2. CASE Swap \/ UNCHANGED vars
  BY <1>1, <1>2 DEF Swap, vars
<1>3. ASSUME NEW r \in Requests, Expire(r) PROVE OutcomeInv'
  BY <1>1, <1>3 DEF Expire
<1>4. ASSUME NEW r \in Requests, phase[r] # "idle" PROVE
        \E c \in Inputs[r] : request[r] = Routed(Wire(c))
  BY <1>4 DEF TypeOK
<1>5. ASSUME NEW r \in Requests, Send(r) PROVE OutcomeInv'
  <2>1. /\ phase[r] = "idle" /\ phase' = [phase EXCEPT ![r] = "sent"]
        /\ \A s \in Requests : s # r => request'[s] = request[s]
        /\ UNCHANGED <<stream, outcome, answer>>
    BY <1>5 DEF Send, Go, TypeOK
  <2>2. outcome[r] = NoOutcome /\ outcome[r].cause = None /\ outcome[r].err = None
    BY <2>1, NothingEnded
  <2> SUFFICES ASSUME NEW s \in Requests
               PROVE  /\ phase'[s] \notin {"error", "reply", "done"} => outcome'[s] = NoOutcome
                      /\ phase'[s] \in {"bind", "public", "jwt", "rbac", "upgrade", "frame",
                                        "wrap", "run"} =>
                           request'[s].route.handler \in DOMAIN Operations
                      /\ stream'[s].err \in {""} \cup Refusals
                      /\ Ended(request'[s], outcome'[s])
                      /\ Answered(request'[s], outcome'[s], answer'[s])
    BY DEF OutcomeInv, Ended, Answered, Op, IsGRPC
  <2>3. CASE s = r
    <3>1. phase'[s] = "sent"
      BY <2>1, <2>3 DEF TypeOK
    <3>2. Ended(request'[s], outcome[s]) /\ Answered(request'[s], outcome[s], answer[s])
      BY <2>2, <2>3 DEF Ended, Answered
    <3>3. outcome[s] = NoOutcome /\ stream[s].err \in {""} \cup Refusals
      BY <2>2, <2>3 DEF OutcomeInv
    <3> QED
      BY <2>1, <3>1, <3>2, <3>3
  <2>4. CASE s # r
    BY <2>1, <2>4 DEF OutcomeInv, TypeOK
  <2> QED
    BY <2>3, <2>4
<1>6. ASSUME NEW r \in Requests, DispatchGRPC(r) PROVE OutcomeInv'
  <2>1. /\ phase[r] = "sent" /\ Go(r, "public") /\ IsGRPC(request[r])
        /\ UNCHANGED <<request, stream, outcome, answer>>
    BY <1>6 DEF DispatchGRPC
  <2>2. request[r].route.handler \in DOMAIN Operations
    BY <1>4, <2>1, RoutingAssumption
  <2> QED
    BY <2>1, <2>2, Goes
<1>7. ASSUME NEW r \in Requests, Dispatch(r) PROVE OutcomeInv'
  <2>1. /\ phase[r] = "sent" /\ request[r].route.handler # None /\ ~IsGRPC(request[r])
        /\ UNCHANGED <<request, stream, answer>>
    BY <1>7 DEF Dispatch
  <2>2. request[r].route.handler \in DOMAIN Operations
    BY <1>4, <2>1, RoutingAssumption
  <2>3. CASE Fail(r, NewError("invalid_argument", <<"read body">>))
    BY <2>1, <2>3, OwnErrors, Ends
  <2>4. ASSUME NEW p, Go(r, p), UNCHANGED outcome PROVE OutcomeInv'
    BY <2>1, <2>2, <2>4, Goes
  <2> QED
    BY <1>7, <2>3, <2>4 DEF Dispatch
<1>8. ASSUME NEW r \in Requests, Bind(r) PROVE OutcomeInv'
  <2>1. phase[r] = "bind" /\ UNCHANGED <<request, stream, answer>>
    BY <1>8 DEF Bind
  <2>2. CASE Fail(r, NewError("invalid_argument", <<"bind">>))
    BY <2>1, <2>2, OwnErrors, Ends
  <2>3. ASSUME NEW p, Go(r, p), UNCHANGED outcome PROVE OutcomeInv'
    BY <2>1, <2>3, Goes DEF OutcomeInv
  <2> QED
    BY <1>8, <2>2, <2>3 DEF Bind
<1>9. ASSUME NEW r \in Requests, Public(r) PROVE OutcomeInv'
  BY <1>9, Goes DEF Public, OutcomeInv
<1>10. ASSUME NEW r \in Requests, NEW name \in Refusals, Refuse(r, name),
              phase[r] \in {"jwt", "rbac"}, UNCHANGED <<request, stream, answer>>
       PROVE  OutcomeInv'
  BY <1>10, OwnErrors, Ends DEF Refuse
<1>11. ASSUME NEW r \in Requests, JWT(r) PROVE OutcomeInv'
  <2>1. phase[r] = "jwt" /\ UNCHANGED <<request, stream, answer>>
    BY <1>11 DEF JWT
  <2>2. CASE Refuse(r, "unauthenticated")
    BY <1>10, <2>1, <2>2 DEF Refusals
  <2>3. CASE Go(r, "rbac") /\ UNCHANGED outcome
    BY <2>1, <2>3, Goes DEF OutcomeInv
  <2> QED
    BY <1>11, <2>2, <2>3 DEF JWT
<1>12. ASSUME NEW r \in Requests, RBAC(r) PROVE OutcomeInv'
  <2>1. phase[r] = "rbac" /\ UNCHANGED <<request, stream, answer>>
    BY <1>12 DEF RBAC
  <2>2. CASE Refuse(r, "permission_denied")
    BY <1>10, <2>1, <2>2 DEF Refusals
  <2>3. CASE Go(r, Behind(request[r])) /\ UNCHANGED outcome
    BY <2>1, <2>3, Goes DEF OutcomeInv
  <2> QED
    BY <1>12, <2>2, <2>3 DEF RBAC
<1>13. ASSUME NEW r \in Requests, Upgrade(r) PROVE OutcomeInv'
  <2>1. phase[r] = "upgrade" /\ UNCHANGED <<request, stream, answer>>
    BY <1>13 DEF Upgrade
  <2>2. CASE Fail(r, NewError("internal", <<"websocket upgrade">>))
    BY <2>1, <2>2, OwnErrors, Ends
  <2>3. ASSUME NEW p, Go(r, p), UNCHANGED outcome PROVE OutcomeInv'
    BY <2>1, <2>3, Goes DEF OutcomeInv
  <2> QED
    BY <1>13, <2>2, <2>3 DEF Upgrade

\* An answer to r that takes what ended r into account.
<1>14. ASSUME NEW r \in Requests, NEW a, Respond(r, a), UNCHANGED <<request, stream, outcome>>,
              phase[r] # "done", Answered(request[r], outcome[r], a)
       PROVE  OutcomeInv'
  <2>1. phase'[r] = "done" /\ answer'[r] = a
        /\ \A s \in Requests : s # r => phase'[s] = phase[s] /\ answer'[s] = answer[s]
    BY <1>14 DEF Respond, Go, TypeOK
  <2> SUFFICES ASSUME NEW s \in Requests
               PROVE  /\ phase'[s] \notin {"error", "reply", "done"} => outcome[s] = NoOutcome
                      /\ phase'[s] \in {"bind", "public", "jwt", "rbac", "upgrade", "frame",
                                        "wrap", "run"} =>
                           request[s].route.handler \in DOMAIN Operations
                      /\ stream[s].err \in {""} \cup Refusals
                      /\ Ended(request[s], outcome[s])
                      /\ Answered(request[s], outcome[s], answer'[s])
    BY <1>14 DEF OutcomeInv, Ended, Answered, Op, IsGRPC
  <2> QED
    BY <1>14, <2>1 DEF OutcomeInv
<1>15. ASSUME NEW r \in Requests, phase[r] \notin {"error", "reply", "done"}
       PROVE  \A a : Answered(request[r], outcome[r], a)
  <2>1. outcome[r].cause = None
    BY <1>15, NothingEnded
  <2> QED
    BY <2>1 DEF Answered
<1>16. ASSUME NEW r \in Requests, NotRouted(r) PROVE OutcomeInv'
  BY <1>14, <1>15, <1>16 DEF NotRouted
<1>17. ASSUME NEW r \in Requests, ReadFrame(r) PROVE OutcomeInv'
  <2>1. phase[r] = "frame" /\ UNCHANGED <<request, stream, outcome>>
    BY <1>17 DEF ReadFrame
  <2>2. CASE Go(r, "wrap") /\ UNCHANGED answer
    BY <2>1, <2>2, Goes DEF OutcomeInv
  <2>3. CASE Respond(r, Close("abnormal"))
    BY <1>14, <1>15, <2>1, <2>3
  <2> QED
    BY <1>17, <2>2, <2>3 DEF ReadFrame
<1>18. ASSUME NEW r \in Requests, WrapStream(r) PROVE OutcomeInv'
  <2>1. /\ phase[r] = "wrap" /\ Go(r, "run") /\ UNCHANGED <<request, outcome, answer>>
        /\ stream' = [stream EXCEPT ![r] = ChainStream(r)]
    BY <1>18 DEF WrapStream
  <2>2. ChainStream(r).err \in {""} \cup Refusals
    <3>1. PICK f \in [0..Len(StreamChain) -> Streams(r)] : ChainStream(r) = f[Len(StreamChain)]
      BY ChainUnfolds
    <3>2. Len(StreamChain) \in 0..Len(StreamChain)
      OBVIOUS
    <3>3. ChainStream(r) \in Streams(r)
      BY <3>1, <3>2
    <3> QED
      BY <3>3 DEF Streams
  <2> SUFFICES ASSUME NEW s \in Requests
               PROVE  /\ phase'[s] \notin {"error", "reply", "done"} => outcome[s] = NoOutcome
                      /\ phase'[s] \in {"bind", "public", "jwt", "rbac", "upgrade", "frame",
                                        "wrap", "run"} =>
                           request[s].route.handler \in DOMAIN Operations
                      /\ stream'[s].err \in {""} \cup Refusals
                      /\ Ended(request[s], outcome[s])
                      /\ Answered(request[s], outcome[s], answer[s])
    BY <2>1 DEF OutcomeInv, Ended, Answered, Op, IsGRPC
  <2>3. stream'[s].err \in {""} \cup Refusals
    BY <2>1, <2>2 DEF OutcomeInv, TypeOK
  <2>4. phase'[s] = IF s = r THEN "run" ELSE phase[s]
    BY <2>1 DEF Go, TypeOK
  <2> QED
    BY <2>1, <2>3, <2>4 DEF OutcomeInv
<1>19. ASSUME NEW r \in Requests, Handle(r) PROVE OutcomeInv'
  <2>1. /\ phase[r] = "run" /\ Go(r, "reply") /\ UNCHANGED <<request, stream, answer>>
        /\ answer[r] = None /\ request[r].route.handler \in DOMAIN Operations
        /\ stream[r].err \in {""} \cup Refusals
    BY <1>19 DEF Handle, OutcomeInv, TypeOK
  <2>2. PICK cause \in Causes(r) :
          outcome' = [outcome EXCEPT ![r] =
            [cause |-> cause,
             err |-> IF cause = None THEN None ELSE Gateway(request[r], cause)]]
    BY <1>19 DEF Handle
  <2> DEFINE o == [cause |-> cause,
                   err |-> IF cause = None THEN None ELSE Gateway(request[r], cause)]
             theirs == Failures[request[r].route.handler]
  <2>3. cause # None =>
          \/ cause \in theirs
          \/ \E name \in Refusals : cause = Denial(name)
          \/ cause = DeadlineExceeded
    BY <2>1 DEF Causes
  <2>4. cause # None => IsError(cause)
    <3>1. \A e \in theirs : e \in Errors
      BY <2>1
    <3> QED
      BY <2>3, <3>1, OwnErrors, ErrorsAreErrors
  <2>5. cause # None => FromGRPCStatus(ToGRPC(cause)) # None
    BY <2>1, <2>3, ErrorAssumption
  <2>6. Ended(request[r], o)
    <3>1. o.cause = cause /\ o.err = IF cause = None THEN None ELSE Gateway(request[r], cause)
      OBVIOUS
    <3> HIDE DEF o
    <3>2. cause # None => o.err = cause \/ (/\ Op(request[r]).gateway /\ ~IsGRPC(request[r])
                                          /\ o.err = FromGRPCStatus(ToGRPC(cause)))
      BY <3>1 DEF Gateway
    <3>3. cause # None => o.err # None
      BY <2>5, <3>1, <3>2
    <3> QED
      BY <2>4, <3>1, <3>2, <3>3 DEF Ended
  <2>7. outcome'[r] = o /\ \A s \in Requests : s # r => outcome'[s] = outcome[s]
    BY <2>2 DEF TypeOK
  <2> HIDE DEF o
  <2> SUFFICES ASSUME NEW s \in Requests
               PROVE  /\ phase'[s] \notin {"error", "reply", "done"} => outcome'[s] = NoOutcome
                      /\ phase'[s] \in {"bind", "public", "jwt", "rbac", "upgrade", "frame",
                                        "wrap", "run"} =>
                           request[s].route.handler \in DOMAIN Operations
                      /\ stream[s].err \in {""} \cup Refusals
                      /\ Ended(request[s], outcome'[s])
                      /\ Answered(request[s], outcome'[s], answer[s])
    BY <2>1 DEF OutcomeInv, Ended, Answered, Op, IsGRPC
  <2>8. phase'[s] = IF s = r THEN "reply" ELSE phase[s]
    BY <2>1 DEF Go, TypeOK
  <2>9. CASE s = r
    <3>1. Answered(request[r], o, None)
      BY DEF Answered
    <3> QED
      BY <2>1, <2>6, <2>7, <2>8, <2>9, <3>1
  <2>10. CASE s # r
    BY <2>7, <2>8, <2>10 DEF OutcomeInv
  <2> QED
    BY <2>9, <2>10
<1>20. ASSUME NEW r \in Requests, Reply(r) PROVE OutcomeInv'
  <2> DEFINE err == outcome[r].err
             a == Answer(request[r], phase[r] = "error", err)
  <2>1. /\ phase[r] \in {"error", "reply"} /\ Respond(r, a)
        /\ UNCHANGED <<request, stream, outcome>>
    BY <1>20 DEF Reply
  <2>2. outcome[r].cause # None => err # None
    BY DEF OutcomeInv, Ended
  <2>3. err # None =>
          \/ IsGRPC(request[r]) /\ a = [kind |-> "grpc", status |-> ToGRPC(ToGRPC(err))]
          \/ a = Http(WriteError(err), "json", {})
          \/ a = Close("abnormal") \/ a = Close("normal")
    BY DEF Answer
  <2> HIDE DEF a
  <2>4. Answered(request[r], outcome[r], a)
    <3>1. CASE IsGRPC(request[r]) /\ a = [kind |-> "grpc", status |-> ToGRPC(ToGRPC(err))]
      BY <3>1 DEF Answered
    <3>2. CASE a = Http(WriteError(err), "json", {})
      BY <3>2 DEF Answered, Http
    <3>3. CASE a = Close("abnormal") \/ a = Close("normal")
      BY <3>3 DEF Answered, Close
    <3>4. CASE err = None
      BY <2>2, <3>4 DEF Answered
    <3> QED
      BY <2>3, <3>1, <3>2, <3>3, <3>4
  <2> QED
    BY <1>14, <2>1, <2>4
<1> QED
  BY <1>2, <1>3, <1>5, <1>6, <1>7, <1>8, <1>9, <1>11, <1>12, <1>13, <1>16, <1>17, <1>18, <1>19,
     <1>20 DEF Next, Serve

\* Whatever a handler returns or the server refuses a request with, its code and
\* its details are what the caller of a unary or client-streaming operation, or
\* of any over gRPC, is told, with the status of the code and, but for a gateway
\* and gRPC, in the same words (writeError, ToGRPC, FromHTTP, FromGRPCStatus).
THEOREM CodesReachCallers == Spec => []CodeReachesCaller
<1>1. OutcomeInv => CodeReachesCaller
  <2> SUFFICES ASSUME OutcomeInv, NEW r \in Requests, answer[r] # None, outcome[r].cause # None,
                      answer[r].kind \in {"http", "grpc"}
               PROVE  LET cause == outcome[r].cause
                          a == answer[r]
                      IN /\ Seen(a).code = Code(cause) /\ Seen(a).details = cause.details
                         /\ a.kind = "http" =>
                              /\ a.resp.status = HTTPStatus(Code(cause))
                              /\ HTTPStatus(CodeFromHTTPStatus(a.resp.status)) = a.resp.status
                              /\ Op(request[r]).gateway \/ Seen(a).message = Message(cause)
    BY DEF CodeReachesCaller
  <2> DEFINE cause == outcome[r].cause
             err == outcome[r].err
             a == answer[r]
  <2>1. /\ IsError(cause)
        /\ \/ err = cause
           \/ /\ Op(request[r]).gateway /\ ~IsGRPC(request[r])
              /\ err = FromGRPCStatus(ToGRPC(cause))
        /\ a.kind = "grpc" => IsGRPC(request[r]) /\ a.status = ToGRPC(ToGRPC(err))
        /\ a.kind = "http" => a.resp = WriteError(err)
    BY DEF OutcomeInv, Ended, Answered
  <2>2. IsError(err) /\ Code(err) = Code(cause) /\ err.details = cause.details
    <3>1. CASE err = cause
      BY <2>1, <3>1
    <3>2. CASE err = FromGRPCStatus(ToGRPC(cause))
      BY <2>1, <3>2, GRPCRoundTrip DEF Code
    <3> QED
      BY <2>1, <3>1, <3>2
  <2> HIDE DEF cause, err, a
  <2>3. CASE a.kind = "grpc"
    <3>1. Seen(a) = FromGRPCStatus(ToGRPC(err))
      BY <2>1, <2>2, <2>3, GRPCRoundTrip DEF Seen
    <3> QED
      BY <2>2, <2>3, <3>1, GRPCRoundTrip DEF cause, a
  <2>4. CASE a.kind = "http"
    <3>1. Seen(a) = FromHTTP(WriteError(err)) /\ a.resp = WriteError(err)
      BY <2>1, <2>4 DEF Seen
    <3>2. Seen(a).code = Code(cause) /\ Seen(a).details = cause.details
          /\ Seen(a).message = Message(err)
      BY <2>2, <3>1, HTTPRoundTrip
    <3>3. a.resp.status = HTTPStatus(Code(cause))
      BY <2>2, <3>1 DEF WriteError
    <3>4. HTTPStatus(CodeFromHTTPStatus(a.resp.status)) = a.resp.status
      BY <2>1, <3>3, StatusOfStatus DEF IsError
    <3>5. Op(request[r]).gateway \/ Seen(a).message = Message(cause)
      BY <2>1, <3>2
    <3> QED
      BY <3>2, <3>3, <3>4, <3>5 DEF cause, a
  <2> QED
    BY <2>3, <2>4 DEF a
<1> QED
  BY <1>1, TypeInit, TypeNext, ChainInit, ChainNext, OutcomeInit, OutcomeNext, PTL DEF Spec

-----------------------------------------------------------------------------
(* Every chain decides alike *)

\* Something serves the request; and what a wrapped stream was told.
HasRights(q) == IsGRPC(q) \/ q.route.handler # None
Result(s) == IF s.err = "" THEN "admitted" ELSE s.err

\* The interceptors decide what the chain decides, on a request with a token or
\* for a public procedure: there are no others behind the chain.
LEMMA StreamRights ==
  ASSUME InOrder, NEW r \in Requests, HasRights(request[r]),
         IsPublic(request[r]) = "yes" \/ HasToken(request[r])
  PROVE  ChainStream(r).by = policy /\ Result(ChainStream(r)) = Rights(request[r], policy)
<1> DEFINE q == request[r]
           may == Authorized(policy, Ctx(q, Token(q).claims))
           Is(s, p, cs, e) == s.public = p /\ s.claims = cs /\ s.err = e /\ s.by = policy
                              /\ DOMAIN s = {"public", "claims", "err", "by"}
<1>1. /\ Len(StreamChain) = 3
      /\ StreamChain[3] = "public" /\ StreamChain[2] = "jwt" /\ StreamChain[1] = "rbac"
  BY DEF InOrder
<1>2. PICK f : /\ f[0] = [NoStream EXCEPT !.by = policy]
               /\ \A n \in 1..Len(StreamChain) :
                    f[n] = WrapWith(r, StreamChain[Len(StreamChain) + 1 - n], f[n - 1])
               /\ ChainStream(r) = f[Len(StreamChain)]
  BY ChainUnfolds
<1>3. /\ f[1] = WrapPublic(q, f[0]) /\ f[2] = WrapJWT(q, f[1]) /\ f[3] = WrapRBAC(q, f[2])
      /\ ChainStream(r) = f[3]
  <2>1. /\ f[1] = WrapWith(r, StreamChain[3], f[0])
        /\ f[2] = WrapWith(r, StreamChain[2], f[1])
        /\ f[3] = WrapWith(r, StreamChain[1], f[2])
    BY <1>1, <1>2
  <2> QED
    BY <1>1, <1>2, <2>1 DEF WrapWith
<1>4. Is(f[0], "no", None, "")
  BY <1>2 DEF NoStream
<1>5. CASE IsPublic(q) = "yes"
  <2>1. Is(f[1], "yes", None, "")
    BY <1>3, <1>4, <1>5 DEF WrapPublic
  <2>2. f[2] = f[1] /\ f[3] = f[2]
    BY <1>3, <2>1 DEF WrapJWT, WrapRBAC
  <2> QED
    BY <1>3, <1>5, <2>1, <2>2 DEF Result, Rights, HasRights
<1>6. CASE IsPublic(q) # "yes" /\ HasToken(q)
  <2>1. Is(f[1], "no", None, "")
    BY <1>3, <1>4, <1>6 DEF WrapPublic
  <2>2. Is(f[2], "no", Token(q).claims, "")
    BY <1>3, <1>6, <2>1 DEF WrapJWT
  <2>3. f[3].by = policy /\ f[3].err = IF may THEN "" ELSE "permission_denied"
    BY <1>3, <2>2 DEF WrapRBAC
  <2> QED
    BY <1>3, <1>6, <2>3 DEF Result, Rights, HasRights
<1> QED
  BY <1>5, <1>6

\* What a request was told is what it may under the policy of the decision.
Decided(r) ==
  /\ phase[r] = "idle" => under[r] = None /\ stream[r].by = None
  /\ phase[r] \in {"upgrade", "frame", "wrap", "run"} => under[r] # None
  /\ phase[r] = "bind" /\ Op(request[r]).form # "unary" => under[r] # None
  /\ under[r] # None =>
       HasRights(request[r]) /\ verdict[r] = Rights(request[r], under[r])
  /\ stream[r].by # None =>
       HasRights(request[r]) /\ Result(stream[r]) = Rights(request[r], stream[r].by)
VerdictInv == \A r \in Requests : Decided(r)

LEMMA VerdictInit == Init => VerdictInv
<1> SUFFICES ASSUME Init, NEW r \in Requests
             PROVE  phase[r] = "idle" /\ under[r] = None /\ stream[r].by = None
  BY DEF VerdictInv, Decided
<1> QED
  BY DEF Init, NoStream

LEMMA VerdictNext == InOrder /\ TypeOK /\ ChainInv /\ VerdictInv /\ [Next]_vars => VerdictInv'
<1> SUFFICES ASSUME InOrder, TypeOK, ChainInv, VerdictInv, [Next]_vars,
                    NEW r \in Requests, Decided(r)
             PROVE  Decided(r)'
  BY DEF VerdictInv
\* Steps that decide nothing of r.
<1>1. ASSUME request'[r] = request[r], stream'[r] = stream[r], verdict'[r] = verdict[r],
             under'[r] = under[r],
             phase'[r] = "idle" => phase[r] = "idle",
             phase'[r] \in {"upgrade", "frame", "wrap", "run"} =>
               \/ phase[r] \in {"upgrade", "frame", "wrap", "run"}
               \/ phase[r] = "bind" /\ Op(request[r]).form # "unary",
             phase'[r] = "bind" /\ Op(request[r]).form # "unary" => phase[r] = "bind"
      PROVE  Decided(r)'
  BY <1>1 DEF Decided
<1>2. ASSUME NEW x \in Requests, x # r, Send(x) \/ Serve(x) \/ Expire(x) PROVE Decided(r)'
  <2>1. /\ phase'[r] = phase[r] /\ request'[r] = request[r] /\ stream'[r] = stream[r]
        /\ verdict'[r] = verdict[r] /\ under'[r] = under[r]
    BY <1>2 DEF Send, Expire, Serve, DispatchGRPC, Dispatch, NotRouted, Bind, Public, JWT, RBAC,
                Upgrade, ReadFrame, WrapStream, Handle, Reply, Respond, Refuse, Fail, Go, TypeOK
  <2> QED
    BY <1>1, <2>1
<1>3. CASE Swap \/ Expire(r) \/ UNCHANGED vars
  <2>1. UNCHANGED <<phase, request, stream, verdict, under>>
    BY <1>3 DEF Swap, Expire, vars
  <2> QED
    BY <1>1, <2>1
<1>4. CASE Send(r)
  <2>1. phase'[r] = "sent" /\ phase[r] = "idle" /\ UNCHANGED <<stream, under>>
    BY <1>4 DEF Send, Go, TypeOK
  <2>2. under[r] = None /\ stream[r].by = None
    BY <2>1 DEF Decided
  <2>3. under'[r] = None /\ stream'[r].by = None
    BY <2>1, <2>2
  <2> QED
    BY <2>1, <2>3 DEF Decided
<1>5. ASSUME NEW p, Go(r, p), UNCHANGED <<request, stream, verdict, under>>,
             p # "idle",
             p \in {"upgrade", "frame", "wrap", "run"} =>
               \/ phase[r] \in {"upgrade", "frame", "wrap", "run"}
               \/ phase[r] = "bind" /\ Op(request[r]).form # "unary",
             p = "bind" => Op(request[r]).form = "unary"
      PROVE  Decided(r)'
  <2>1. phase'[r] = p
    BY <1>5 DEF Go, TypeOK
  <2> QED
    BY <1>1, <1>5, <2>1
<1>6. CASE DispatchGRPC(r)
  BY <1>5, <1>6 DEF DispatchGRPC
<1>7. CASE Dispatch(r)
  <2>1. \E p \in {"bind", "public", "error"} :
          Go(r, p) /\ (p = "bind" => Op(request[r]).form = "unary")
    BY <1>7 DEF Dispatch, Fail
  <2> QED
    BY <1>5, <1>7, <2>1 DEF Dispatch
<1>8. CASE NotRouted(r)
  BY <1>5, <1>8 DEF NotRouted, Respond
<1>9. CASE Bind(r)
  <2>1. \E p \in {"public", "upgrade", "wrap", "error"} :
          Go(r, p) /\ (p \in {"upgrade", "wrap"} => Op(request[r]).form # "unary")
    BY <1>9 DEF Bind, Fail
  <2> QED
    BY <1>5, <1>9, <2>1 DEF Bind
<1>10. CASE Public(r)
  BY <1>5, <1>10 DEF Public
\* The decision.
<1>11. ASSUME NEW p, Go(r, p), p # "idle", UNCHANGED <<request, stream>>, HasRights(request[r]),
              verdict' = [verdict EXCEPT ![r] = Rights(request[r], policy)],
              under' = [under EXCEPT ![r] = policy]
       PROVE  Decided(r)'
  <2>1. /\ phase'[r] = p /\ verdict'[r] = Rights(request[r], policy) /\ under'[r] = policy
        /\ policy # None
    BY <1>11 DEF Go, TypeOK
  <2>2. UNCHANGED request /\ stream'[r] = stream[r]
    BY <1>11
  <2>3. /\ phase'[r] # "idle" /\ under'[r] # None
        /\ verdict'[r] = Rights(request'[r], under'[r])
        /\ HasRights(request'[r])
    BY <1>11, <2>1, <2>2
  <2>4. stream'[r].by # None =>
          HasRights(request'[r]) /\ Result(stream'[r]) = Rights(request'[r], stream'[r].by)
    BY <2>2 DEF Decided
  <2> QED
    BY <2>3, <2>4 DEF Decided
<1>12. CASE JWT(r)
  <2>1. phase[r] = "jwt" /\ public[r] \in {"yes", "no"} /\ public[r] = IsPublic(request[r])
        /\ HasRights(request[r])
    BY <1>12 DEF JWT, TypeOK, ChainInv, HasRights
  <2>2. CASE public[r] = "yes" \/ HasToken(request[r])
    BY <1>5, <1>12, <2>1, <2>2 DEF JWT
  <2>3. CASE public[r] = "no" /\ ~HasToken(request[r])
    <3>1. Rights(request[r], policy) = "unauthenticated"
      BY <2>1, <2>3 DEF Rights, HasRights
    <3> QED
      BY <1>11, <1>12, <2>1, <2>3, <3>1 DEF JWT, Refuse, Fail
  <2> QED
    BY <2>1, <2>2, <2>3
<1>13. CASE RBAC(r)
  <2> DEFINE may == public[r] = "yes" \/ Authorized(policy, Ctx(request[r], claims[r]))
  <2>1. /\ phase[r] = "rbac" /\ UNCHANGED <<request, stream>> /\ HasRights(request[r])
        /\ public[r] = IsPublic(request[r]) /\ public[r] \in {"yes", "no"}
        /\ public[r] = "no" => HasToken(request[r]) /\ claims[r] = Token(request[r]).claims
    BY <1>13 DEF RBAC, ChainInv, TypeOK, HasRights
  <2>2. Rights(request[r], policy) = IF may THEN "admitted" ELSE "permission_denied"
    BY <2>1 DEF Rights, HasRights
  <2>3. /\ verdict' = [verdict EXCEPT ![r] = Rights(request[r], policy)]
        /\ under' = [under EXCEPT ![r] = policy]
        /\ \E p \in {"run", "bind", "upgrade", "wrap", "error"} : Go(r, p)
    BY <1>13, <2>2 DEF RBAC, Refuse, Fail, Behind
  <2> QED
    BY <1>11, <2>1, <2>3
<1>14. CASE Upgrade(r)
  <2>1. phase[r] = "upgrade" /\ \E p \in {"wrap", "frame", "error"} : Go(r, p)
    BY <1>14 DEF Upgrade, Fail
  <2> QED
    BY <1>5, <1>14, <2>1 DEF Upgrade
<1>15. CASE ReadFrame(r)
  <2>1. phase[r] = "frame" /\ \E p \in {"wrap", "done"} : Go(r, p)
    BY <1>15 DEF ReadFrame, Respond
  <2> QED
    BY <1>5, <1>15, <2>1 DEF ReadFrame
<1>16. CASE WrapStream(r)
  <2>1. /\ phase[r] = "wrap" /\ phase'[r] = "run" /\ stream'[r] = ChainStream(r)
        /\ UNCHANGED <<policy, request, verdict, under>>
        /\ verdict[r] = "admitted" /\ policy # None
    BY <1>16 DEF WrapStream, Go, TypeOK, ChainInv
  <2>2. under[r] # None /\ HasRights(request[r]) /\ "admitted" = Rights(request[r], under[r])
    BY <2>1 DEF Decided
  <2>3. IsPublic(request[r]) = "yes" \/ HasToken(request[r])
    BY <2>2 DEF Rights, HasRights
  <2>4. /\ ChainStream(r).by = policy
        /\ Result(ChainStream(r)) = Rights(request[r], policy)
    BY <2>2, <2>3, StreamRights
  <2>5. /\ stream'[r].by = policy
        /\ Result(stream'[r]) = Rights(request'[r], stream'[r].by)
    BY <2>1, <2>4
  <2> QED
    BY <2>1, <2>2, <2>5 DEF Decided
<1>17. CASE Handle(r)
  BY <1>5, <1>17 DEF Handle
<1>18. CASE Reply(r)
  BY <1>5, <1>18 DEF Reply, Respond
<1> QED
  BY <1>2, <1>3, <1>4, <1>6, <1>7, <1>8, <1>9, <1>10, <1>12, <1>13, <1>14, <1>15, <1>16, <1>17,
     <1>18 DEF Next, Serve

\* Rights depend on the procedure and the caller, and on the peer only under a
\* policy that looks at addresses.
LEMMA SameRights ==
  ASSUME TypeOK, NEW r \in Requests, NEW s \in Requests, NEW p,
         phase[r] # "idle", phase[s] # "idle", HasRights(request[r]), HasRights(request[s]),
         SameCaller(request[r], request[s]),
         p \in Portable \/ Peer(request[r]) = Peer(request[s])
  PROVE  Rights(request[r], p) = Rights(request[s], p)
<1> DEFINE cs == Token(request[r]).claims
           cr == Ctx(request[r], cs)
           ct == Ctx(request[s], cs)
<1>1. /\ IsPublic(request[r]) = IsPublic(request[s])
      /\ Token(request[r]) = Token(request[s])
      /\ HasToken(request[r]) <=> HasToken(request[s])
  BY DEF SameCaller, IsPublic, Token, HasToken
<1>2. [cr EXCEPT !.peer = None] = [ct EXCEPT !.peer = None]
      /\ (Peer(request[r]) = Peer(request[s]) => cr = ct)
  BY DEF SameCaller, Ctx
<1>3. ASSUME NEW x \in {r, s}, HasToken(request[x]), p \in Portable
      PROVE  LET ctx == Ctx(request[x], Token(request[x]).claims) IN
             Authorized(p, ctx) <=> Authorized(p, [ctx EXCEPT !.peer = None])
  <2>1. PICK c \in Inputs[x] : request[x] = Routed(Wire(c))
    BY DEF TypeOK
  <2>2. request[x].route.handler \in DOMAIN Operations
    BY <2>1, RoutingAssumption DEF HasRights
  <2> QED
    BY <1>3, <2>1, <2>2, PortableAssumption
<1>4. HasToken(request[r]) => (Authorized(p, cr) <=> Authorized(p, ct))
  <2> SUFFICES ASSUME HasToken(request[r]), Peer(request[r]) # Peer(request[s])
               PROVE  Authorized(p, cr) <=> Authorized(p, ct)
    BY <1>2
  <2>1. Authorized(p, cr) <=> Authorized(p, [cr EXCEPT !.peer = None])
    BY <1>3
  <2>2. Authorized(p, ct) <=> Authorized(p, [ct EXCEPT !.peer = None])
    BY <1>1, <1>3
  <2> QED
    BY <1>2, <2>1, <2>2
<1> HIDE DEF cr, ct
<1> QED
  BY <1>1, <1>4 DEF Rights, HasRights, cr, ct

\* One identity gets one decision from every chain, at every time: over HTTP
\* and gRPC, and from the stream interceptors again after the chain that
\* authorized the stream, if they are in their order (ChainUnary, ChainStream,
\* grpcbridge, CtxFor).
THEOREM ChainsAgree ==
  ASSUME InOrder
  PROVE  Spec => []VerdictsAgree
<1>1. TypeOK /\ VerdictInv => VerdictsAgree
  <2> SUFFICES ASSUME TypeOK, VerdictInv, NEW r \in Requests, NEW s \in Requests,
                      NEW d \in Decisions(r), NEW e \in Decisions(s),
                      d.by = e.by, SameCaller(request[r], request[s]),
                      d.by \in Portable \/ Peer(request[r]) = Peer(request[s])
               PROVE  d.result = e.result
    BY DEF VerdictsAgree
  <2>1. ASSUME NEW x \in Requests, NEW y \in Decisions(x)
        PROVE  /\ phase[x] # "idle" /\ HasRights(request[x])
               /\ y.result = Rights(request[x], y.by)
    <3>1. Decided(x) /\ y.by # None
      BY DEF VerdictInv, Decisions
    <3>2. CASE y.by = under[x] /\ y.result = verdict[x]
      BY <3>1, <3>2 DEF Decided
    <3>3. CASE y.by = stream[x].by /\ y.result = Result(stream[x])
      BY <3>1, <3>3 DEF Decided
    <3>4. \/ y = [by |-> under[x], result |-> verdict[x]]
          \/ y = [by |-> stream[x].by, result |-> Result(stream[x])]
      BY DEF Decisions, Result
    <3> QED
      BY <3>2, <3>3, <3>4
  <2>2. Rights(request[r], d.by) = Rights(request[s], d.by)
    BY <2>1, SameRights
  <2> QED
    BY <2>1, <2>2
<1>2. TypeOK /\ ChainInv /\ VerdictInv /\ [Next]_vars => VerdictInv'
  BY VerdictNext
<1> QED
  BY <1>1, <1>2, TypeInit, TypeNext, ChainInit, ChainNext, VerdictInit, PTL DEF Spec

-----------------------------------------------------------------------------
(* Messages *)

\* A message is decoded where the way of the request through the server says:
\* before the chain (unary, gRPC), behind it (server-streaming), or once more
\* from the first frame behind the upgrade; and no way leads past that place.
Own(r) == HasMessage(request[r]) => payload[r] \in OwnMessages(request[r])
Bound(r) ==
  LET q == request[r]
      form == Op(q).form
      framed == form = "server" /\ q.upgrade = "websocket"
  IN
  /\ phase[r] = "bind" => ~IsGRPC(q) /\ HasMessage(q)
  /\ phase[r] \in {"public", "jwt", "rbac"} /\ (IsGRPC(q) \/ form = "unary") => Own(r)
  /\ phase[r] = "upgrade" => ~IsGRPC(q) /\ (form = "bidi" \/ framed)
  /\ phase[r] = "frame" => ~IsGRPC(q) /\ framed
  /\ phase[r] \in {"wrap", "run", "reply"} => Own(r)
MessageInv == \A r \in Requests : Bound(r)

LEMMA MessageInit == Init => MessageInv
<1> SUFFICES ASSUME Init, NEW r \in Requests PROVE phase[r] = "idle"
  BY DEF MessageInv, Bound
<1> QED
  BY DEF Init

LEMMA MessageNext == TypeOK /\ MessageInv /\ [Next]_vars => MessageInv'
<1> SUFFICES ASSUME TypeOK, MessageInv, [Next]_vars,
                    NEW r \in Requests, Bound(r)
             PROVE  Bound(r)'
  BY DEF MessageInv
<1> DEFINE q == request[r]
           form == Op(q).form
           framed == form = "server" /\ q.upgrade = "websocket"
\* What a step has to show of the phase it leads to.
<1>1. ASSUME request'[r] = q, NEW p, phase'[r] = p,
             p = "bind" => ~IsGRPC(q) /\ HasMessage(q),
             p \in {"public", "jwt", "rbac"} /\ (IsGRPC(q) \/ form = "unary") => Own(r)',
             p = "upgrade" => ~IsGRPC(q) /\ (form = "bidi" \/ framed),
             p = "frame" => ~IsGRPC(q) /\ framed,
             p \in {"wrap", "run", "reply"} => Own(r)'
      PROVE  Bound(r)'
  BY <1>1 DEF Bound, Op, IsGRPC, HasMessage
<1>2. ASSUME request'[r] = q, payload'[r] = payload[r] PROVE Own(r) => Own(r)'
  BY <1>2 DEF Own, OwnMessages, HasMessage, Op, IsGRPC, Framed, Built, Codec, Decoded
\* Steps that only move r.
<1>3. ASSUME NEW p, Go(r, p), phase[r] # "idle", UNCHANGED <<request, payload>>,
             p = "bind" => ~IsGRPC(q) /\ HasMessage(q),
             p \in {"public", "jwt", "rbac"} /\ (IsGRPC(q) \/ form = "unary") => Own(r),
             p = "upgrade" => ~IsGRPC(q) /\ (form = "bidi" \/ framed),
             p = "frame" => ~IsGRPC(q) /\ framed,
             p \in {"wrap", "run", "reply"} => Own(r)
      PROVE  Bound(r)'
  <2>1. phase'[r] = p /\ request'[r] = q /\ (Own(r) => Own(r)')
    BY <1>2, <1>3 DEF Go, TypeOK
  <2> QED
    BY <1>1, <1>3, <2>1
<1>4. ASSUME NEW p \in {"error", "done"}, phase'[r] = p, request'[r] = q
      PROVE  Bound(r)'
  BY <1>1, <1>4
<1>5. ASSUME NEW e, Fail(r, e), UNCHANGED request PROVE Bound(r)'
  <2>1. phase'[r] = "error"
    BY <1>5 DEF Fail, Go, TypeOK
  <2> QED
    BY <1>4, <1>5, <2>1
<1>6. ASSUME NEW a, Respond(r, a), UNCHANGED request PROVE Bound(r)'
  <2>1. phase'[r] = "done"
    BY <1>6 DEF Respond, Go, TypeOK
  <2> QED
    BY <1>4, <1>6, <2>1
<1>7. ASSUME request'[r] = q, payload'[r] = payload[r], phase'[r] = phase[r] PROVE Bound(r)'
  <2>1. Own(r) => Own(r)'
    BY <1>2, <1>7
  <2> QED
    BY <1>1, <1>7, <2>1 DEF Bound
<1>8. ASSUME NEW x \in Requests, x # r, Send(x) \/ Serve(x) \/ Expire(x) PROVE Bound(r)'
  <2>1. phase'[r] = phase[r] /\ request'[r] = q /\ payload'[r] = payload[r]
    BY <1>8 DEF Send, Expire, Serve, DispatchGRPC, Dispatch, NotRouted, Bind, Public, JWT, RBAC,
                Upgrade, ReadFrame, WrapStream, Handle, Reply, Respond, Refuse, Fail, Go, TypeOK
  <2> QED
    BY <1>7, <2>1
<1>9. CASE Swap \/ Expire(r) \/ UNCHANGED vars
  <2>1. UNCHANGED <<phase, request, payload>>
    BY <1>9 DEF Swap, Expire, vars
  <2> QED
    BY <1>7, <2>1
<1>10. CASE Send(r)
  <2>1. phase'[r] = "sent"
    BY <1>10 DEF Send, Go, TypeOK
  <2> QED
    BY <2>1 DEF Bound
<1>11. CASE DispatchGRPC(r)
  <2>1. /\ phase[r] = "sent" /\ phase'[r] = "public" /\ IsGRPC(q) /\ request' = request
        /\ payload'[r] = IF HasMessage(q) THEN CHOOSE m \in q.body : TRUE ELSE None
    BY <1>11 DEF DispatchGRPC, HasMessage, Go, TypeOK
  <2>2. q.body # {}
    BY <2>1, RoutingAssumption DEF TypeOK
  <2>3. HasMessage(q) => payload'[r] \in q.body
    BY <2>1, <2>2
  <2>4. Own(r)'
    BY <2>1, <2>3 DEF Own, OwnMessages, HasMessage, Op, IsGRPC
  <2> QED
    BY <1>1, <2>1, <2>4
<1>12. CASE Dispatch(r)
  <2>1. phase[r] = "sent" /\ ~IsGRPC(q) /\ UNCHANGED <<request, payload>>
    BY <1>12 DEF Dispatch
  <2>2. CASE Fail(r, NewError("invalid_argument", <<"read body">>))
    BY <1>5, <2>1, <2>2
  <2>3. CASE form = "unary" /\ Go(r, "bind")
    BY <1>3, <2>1, <2>3 DEF HasMessage
  <2>4. CASE form # "unary" /\ Go(r, "public")
    BY <1>3, <2>1, <2>4
  <2> QED
    BY <1>12, <2>2, <2>3, <2>4 DEF Dispatch
<1>13. CASE NotRouted(r)
  BY <1>6, <1>13 DEF NotRouted
<1>14. CASE Bind(r)
  <2> DEFINE built == Built(q)
             next == IF form = "unary" THEN "public"
                     ELSE IF q.upgrade = "websocket" THEN "upgrade" ELSE "wrap"
  <2>1. /\ phase[r] = "bind" /\ request' = request /\ ~IsGRPC(q) /\ form \in {"unary", "server"}
        /\ payload'[r] = IF built = {} THEN None ELSE CHOOSE m \in built : TRUE
    BY <1>14 DEF Bind, Bound, HasMessage, TypeOK
  <2>2. CASE built = {}
    BY <1>5, <1>14, <2>1, <2>2 DEF Bind
  <2>3. CASE built # {}
    <3>1. phase'[r] = next
      BY <1>14, <2>3 DEF Bind, Go, TypeOK
    <3>2. payload'[r] \in Built(q)
      BY <2>1, <2>3
    <3>3. ~framed => Own(r)'
      BY <2>1, <3>2 DEF Own, OwnMessages, Op, IsGRPC, Built, Codec, Decoded
    <3>4. next = "upgrade" <=> framed
      BY <2>1
    <3>5. next \in {"public", "upgrade", "wrap"}
      OBVIOUS
    <3>6. next = "public" => ~framed
      OBVIOUS
    <3> HIDE DEF next
    <3> QED
      BY <1>1, <2>1, <3>1, <3>3, <3>4, <3>5, <3>6
  <2> QED
    BY <2>2, <2>3
<1>15. CASE Public(r)
  BY <1>3, <1>15 DEF Public, Bound
<1>16. CASE JWT(r)
  <2>1. phase[r] = "jwt" /\ UNCHANGED <<request, payload>>
    BY <1>16 DEF JWT
  <2>2. CASE Refuse(r, "unauthenticated")
    BY <1>5, <2>1, <2>2 DEF Refuse
  <2>3. CASE Go(r, "rbac")
    BY <1>3, <2>1, <2>3 DEF Bound
  <2> QED
    BY <1>16, <2>2, <2>3 DEF JWT
<1>17. CASE RBAC(r)
  <2>1. phase[r] = "rbac" /\ UNCHANGED <<request, payload>>
    BY <1>17 DEF RBAC
  <2>2. CASE Refuse(r, "permission_denied")
    BY <1>5, <2>1, <2>2 DEF Refuse
  <2>3. CASE Go(r, Behind(q))
    <3>1. CASE IsGRPC(q) \/ form = "unary"
      <4>1. Behind(q) = "run" /\ Own(r)
        BY <2>1, <3>1 DEF Behind, Bound
      <4> QED
        BY <1>3, <2>1, <2>3, <4>1
    <3>2. CASE ~IsGRPC(q) /\ form = "server"
      <4>1. Behind(q) = "bind" /\ HasMessage(q)
        BY <3>2 DEF Behind, HasMessage
      <4> QED
        BY <1>3, <2>1, <2>3, <3>2, <4>1
    <3>3. CASE ~IsGRPC(q) /\ form = "bidi"
      <4>1. Behind(q) = "upgrade"
        BY <3>3 DEF Behind
      <4> QED
        BY <1>3, <2>1, <2>3, <3>3, <4>1
    <3>4. CASE ~IsGRPC(q) /\ form \notin {"unary", "server", "bidi"}
      <4>1. Behind(q) = "wrap" /\ Own(r)
        BY <3>4 DEF Behind, Own, HasMessage
      <4> QED
        BY <1>3, <2>1, <2>3, <4>1
    <3> QED
      BY <3>1, <3>2, <3>3, <3>4
  <2> QED
    BY <1>17, <2>2, <2>3 DEF RBAC
<1>18. CASE Upgrade(r)
  <2>1. /\ phase[r] = "upgrade" /\ UNCHANGED <<request, payload>>
        /\ ~IsGRPC(q) /\ (form = "bidi" \/ framed)
    BY <1>18 DEF Upgrade, Bound
  <2>2. CASE Fail(r, NewError("internal", <<"websocket upgrade">>))
    BY <1>5, <2>1, <2>2
  <2>3. CASE form = "bidi" /\ Go(r, "wrap")
    <3>1. Own(r)
      BY <2>3 DEF Own, HasMessage
    <3> QED
      BY <1>3, <2>1, <2>3, <3>1
  <2>4. CASE framed /\ Go(r, "frame")
    BY <1>3, <2>1, <2>4
  <2> QED
    BY <1>18, <2>1, <2>2, <2>3, <2>4 DEF Upgrade
<1>19. CASE ReadFrame(r)
  <2>1. phase[r] = "frame" /\ request' = request /\ ~IsGRPC(q) /\ framed
    BY <1>19 DEF ReadFrame, Bound
  <2>2. CASE Respond(r, Close("abnormal"))
    BY <1>6, <2>1, <2>2
  <2>3. CASE /\ Framed(q) # {} /\ Go(r, "wrap")
             /\ payload' = [payload EXCEPT ![r] = CHOOSE m \in Framed(q) : TRUE]
    <3>1. phase'[r] = "wrap" /\ payload'[r] \in Framed(q)
      BY <2>3 DEF Go, TypeOK
    <3>2. Own(r)'
      BY <2>1, <3>1 DEF Own, OwnMessages, Op, IsGRPC, Framed, Codec, Decoded
    <3> QED
      BY <1>1, <2>1, <3>1, <3>2
  <2> QED
    BY <1>19, <2>2, <2>3 DEF ReadFrame
<1>20. CASE WrapStream(r)
  BY <1>3, <1>20 DEF WrapStream, Bound
<1>21. CASE Handle(r)
  BY <1>3, <1>21 DEF Handle, Bound
<1>22. CASE Reply(r)
  BY <1>6, <1>22 DEF Reply
<1> QED
  BY <1>8, <1>9, <1>10, <1>11, <1>12, <1>13, <1>14, <1>15, <1>16, <1>17, <1>18, <1>19, <1>20,
     <1>21, <1>22 DEF Next, Serve

\* By whichever of the ways to it a request takes, and whatever the other
\* requests do, a handler is given a message decoded from its own request; that
\* of a server-streaming operation on a WebSocket the one of the first frame,
\* and nothing of what was bound from the query before the upgrade
\* (Handler.unary, serverStream, serverStreamWS, grpcbridge).
THEOREM PayloadsAreOwn == Spec => []PayloadIsOwn
<1>1. MessageInv => PayloadIsOwn
  BY DEF MessageInv, Bound, Own, PayloadIsOwn
<1>2. TypeOK /\ MessageInv /\ [Next]_vars => MessageInv'
  BY MessageNext
<1> QED
  BY <1>1, <1>2, TypeInit, TypeNext, MessageInit, PTL DEF Spec
===============================================================================
