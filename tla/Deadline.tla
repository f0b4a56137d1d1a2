------------------------------- MODULE Deadline -------------------------------
(***************************************************************************)
(* The deadline headers of metadata: Grpc-Timeout, a value of at most      *)
(* eight digits and a unit, and Grpc-Deadline, a point in time.  Times and *)
(* durations are numbers of the smallest unit; a header that is malformed  *)
(* or not there is {}, any other the set of its one value.                 *)
(***************************************************************************)
EXTENDS Integers, Sequences

CONSTANTS
  Units,           \* the units from the smallest, 1, to the hour, the last; six
  Second,          \* the unit of the points in time that RFC 3339 prints
  MaxTimeoutValue, \* eight digits
  MaxDuration,     \* the largest time.Duration
  MaxSeconds       \* the largest number of ten digits

\* Eight digits of any unit but the hour are a duration, and every duration is
\* eight digits of hours.
ASSUME DeadlineAssumption ==
  /\ Units \in Seq(Nat \ {0}) /\ Len(Units) \in 1..6 /\ Units[1] = 1
  /\ Second \in Nat \ {0} /\ MaxTimeoutValue \in Nat \ {0} /\ MaxSeconds \in Nat
  /\ MaxDuration \in Nat
  /\ \A u \in 1..(Len(Units) - 1) : MaxTimeoutValue * Units[u] <= MaxDuration
  /\ MaxDuration <= MaxTimeoutValue * Units[Len(Units)]

Hour == Len(Units)

\* div of FormatGrpcTimeout: rounds up.
DivDown(d, unit) == d \div unit
Div(d, unit) == IF d % unit > 0 THEN d \div unit + 1 ELSE d \div unit

\* The smallest unit that fits; the last return is for hours.
Fits(d, u) == Div(d, Units[u]) <= MaxTimeoutValue
SmallestUnit(d) ==
  IF \E u \in 1..Hour : Fits(d, u)
  THEN CHOOSE u \in 1..Hour : Fits(d, u) /\ \A v \in 1..(u - 1) : ~Fits(d, v)
  ELSE Hour
FormatGrpcTimeout(d) ==
  IF d <= 0 THEN [value |-> 0, unit |-> 1]
  ELSE [value |-> Div(d, Units[SmallestUnit(d)]), unit |-> SmallestUnit(d)]

\* The multiplication is one of 64 bits.
Wrap(n) == ((n + MaxDuration + 1) % (2 * MaxDuration + 2)) - MaxDuration - 1
ParseGrpcTimeout(header) ==
  LET Value(h) == IF h.unit = Hour /\ h.value > MaxDuration \div Units[Hour] THEN MaxDuration
                  ELSE Wrap(Units[h.unit] * h.value)
  IN {Value(h) : h \in {k \in header : k.value \in 0..MaxTimeoutValue /\ k.unit \in 1..Hour}}

\* A deadline is a time in RFC 3339, or a number: of seconds up to ten digits,
\* of the smallest unit beyond.
FormatDeadline(t) == [form |-> "rfc3339", at |-> t \div Second]
ParseGrpcDeadline(header) ==
  {IF h.form = "number" /\ h.at > MaxSeconds THEN h.at ELSE h.at * Second : h \in header}

\* applyDeadline of the client: a timeout wins over a deadline; 0 is none.
DeadlineHeaders(timeout, deadline) ==
  [timeout |-> IF timeout > 0 THEN {FormatGrpcTimeout(timeout)} ELSE {},
   deadline |-> IF timeout <= 0 /\ deadline > 0 THEN {FormatDeadline(deadline)} ELSE {}]

\* deadlineFromRequest: how long the server has, if the headers say so.
DeadlineFromRequest(headers, now) ==
  LET timeout == ParseGrpcTimeout(headers.timeout)
      Until(t) == IF t > now THEN t - now ELSE 0
  IN IF timeout # {} THEN timeout
     ELSE {Until(t) : t \in ParseGrpcDeadline(headers.deadline)}
===============================================================================
