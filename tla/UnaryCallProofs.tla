--------------------------- MODULE UnaryCallProofs ---------------------------
(***************************************************************************)
(* Proofs about UnaryCall, for any number of calls and attempts.           *)
(***************************************************************************)
EXTENDS UnaryCall, TLAPS

USE CallsAssumption DEF CallsAssumption

LEMMA TypeStep == TypeOK /\ [Next]_vars => TypeOK'
<1> SUFFICES ASSUME TypeOK, [Next]_vars
             PROVE  TypeOK'
  OBVIOUS
<1> USE DEF TypeOK, PCs, Answers, Outcomes, Goto, config, trip
<1>1. ASSUME NEW c \in Calls, Begin(c)
      PROVE  TypeOK'
  BY <1>1 DEF Begin
<1>2. ASSUME NEW c \in Calls, ApplyOptions(c)
      PROVE  TypeOK'
  BY <1>2 DEF ApplyOptions
<1>3. ASSUME NEW c \in Calls, BeginDeadline(c)
      PROVE  TypeOK'
  BY <1>3 DEF BeginDeadline
<1>4. ASSUME NEW c \in Calls, SetDeadline(c)
      PROVE  TypeOK'
  BY <1>4 DEF SetDeadline
<1>5. ASSUME NEW c \in Calls, BuildChain(c)
      PROVE  TypeOK'
  BY <1>5 DEF BuildChain
<1>6. ASSUME NEW c \in Calls, BeginAttempt(c)
      PROVE  TypeOK'
  BY <1>6 DEF BeginAttempt
<1>7. ASSUME NEW c \in Calls, Send(c)
      PROVE  TypeOK'
  BY <1>7 DEF Send
<1>8. ASSUME NEW c \in Calls, Answered(c)
      PROVE  TypeOK'
  BY <1>8 DEF Answered, AttemptEnds
<1>9. ASSUME NEW c \in Calls, RoundTripFails(c)
      PROVE  TypeOK'
  BY <1>9 DEF RoundTripFails, AttemptEnds
<1>10. ASSUME NEW c \in Calls, Classify(c)
      PROVE  TypeOK'
  BY <1>10 DEF Classify, Retriable
<1>11. ASSUME NEW c \in Calls, BackoffCancelled(c)
      PROVE  TypeOK'
  BY <1>11 DEF BackoffCancelled
<1>12. ASSUME NEW c \in Calls, BackoffOver(c)
      PROVE  TypeOK'
  BY <1>12 DEF BackoffOver
<1>13. ASSUME NEW c \in Calls, Expire(c)
      PROVE  TypeOK'
  BY <1>13 DEF Expire
<1>14. ASSUME NEW c \in Calls, Cancel(c)
      PROVE  TypeOK'
  BY <1>14 DEF Cancel
<1>15. ASSUME NEW c \in Calls, Execute(c)
      PROVE  TypeOK'
  BY <1>15 DEF Execute
<1>16. ASSUME NEW c \in Calls, Reject(c)
      PROVE  TypeOK'
  BY <1>16 DEF Reject
<1>17. CASE UNCHANGED vars
  BY <1>17 DEF vars
<1>18. QED
  BY <1>1, <1>2, <1>3, <1>4, <1>5, <1>6, <1>7, <1>8, <1>9,
     <1>10, <1>11, <1>12, <1>13, <1>14, <1>15, <1>16, <1>17 DEF Next, CallStep

\* Every call keeps to its states, contexts, answers and counters.
THEOREM TypeCorrect == Spec => []TypeOK
<1>1. Init => TypeOK
  BY DEF Init, TypeOK, PCs, Answers, Outcomes
<1>2. QED
  BY <1>1, TypeStep, PTL DEF Spec

-----------------------------------------------------------------------------
(* Side effects.  A request that has been sent may still be executed, and  *)
(* one that is being built will be sent: each counts as an attempt that    *)
(* the server has not used yet.  A call only comes back to "attempt" with  *)
(* attempts to spare, and only after the server answered the last one.     *)

Limit(c) == IF c \in Idempotent THEN MaxAttempts ELSE 1

Unspent(c) == IF pc[c] = "building" \/ request[c] = "sent" THEN 1 ELSE 0

Preparing == {"idle", "options", "deadline", "setting", "chain"}

AttemptInv ==
  \A c \in Calls :
    /\ attempts[c] <= Limit(c)
    /\ pc[c] \in Preparing => attempts[c] = 0
    /\ pc[c] \in {"attempt", "backoff"} => attempts[c] < Limit(c)

RequestInv ==
  \A c \in Calls :
    /\ pc[c] \in Preparing \cup {"attempt", "building", "backoff"} => request[c] # "sent"
    /\ pc[c] = "classify" /\ outcome[c] = "unavailable" => request[c] # "sent"
    /\ executed[c] + Unspent(c) <= attempts[c]

LEMMA AttemptStep == TypeOK /\ AttemptInv /\ [Next]_vars => AttemptInv'
<1> SUFFICES ASSUME TypeOK, AttemptInv, [Next]_vars
             PROVE  AttemptInv'
  OBVIOUS
<1> USE DEF TypeOK, PCs, Limit, Preparing, AttemptInv, Goto, config, trip
<1>1. ASSUME NEW c \in Calls, Begin(c)
      PROVE  AttemptInv'
  BY <1>1 DEF Begin
<1>2. ASSUME NEW c \in Calls, ApplyOptions(c)
      PROVE  AttemptInv'
  BY <1>2 DEF ApplyOptions
<1>3. ASSUME NEW c \in Calls, BeginDeadline(c)
      PROVE  AttemptInv'
  BY <1>3 DEF BeginDeadline
<1>4. ASSUME NEW c \in Calls, SetDeadline(c)
      PROVE  AttemptInv'
  BY <1>4 DEF SetDeadline
<1>5. ASSUME NEW c \in Calls, BuildChain(c)
      PROVE  AttemptInv'
  BY <1>5 DEF BuildChain
<1>6. ASSUME NEW c \in Calls, BeginAttempt(c)
      PROVE  AttemptInv'
  BY <1>6 DEF BeginAttempt
<1>7. ASSUME NEW c \in Calls, Send(c)
      PROVE  AttemptInv'
  BY <1>7 DEF Send
<1>8. ASSUME NEW c \in Calls, Answered(c)
      PROVE  AttemptInv'
  BY <1>8 DEF Answered, AttemptEnds
<1>9. ASSUME NEW c \in Calls, RoundTripFails(c)
      PROVE  AttemptInv'
  BY <1>9 DEF RoundTripFails, AttemptEnds
<1>10. ASSUME NEW c \in Calls, Classify(c)
      PROVE  AttemptInv'
  BY <1>10 DEF Classify, Retriable
<1>11. ASSUME NEW c \in Calls, BackoffCancelled(c)
      PROVE  AttemptInv'
  BY <1>11 DEF BackoffCancelled
<1>12. ASSUME NEW c \in Calls, BackoffOver(c)
      PROVE  AttemptInv'
  BY <1>12 DEF BackoffOver
<1>13. ASSUME NEW c \in Calls, Expire(c)
      PROVE  AttemptInv'
  BY <1>13 DEF Expire
<1>14. ASSUME NEW c \in Calls, Cancel(c)
      PROVE  AttemptInv'
  BY <1>14 DEF Cancel
<1>15. ASSUME NEW c \in Calls, Execute(c)
      PROVE  AttemptInv'
  BY <1>15 DEF Execute
<1>16. ASSUME NEW c \in Calls, Reject(c)
      PROVE  AttemptInv'
  BY <1>16 DEF Reject
<1>17. CASE UNCHANGED vars
  BY <1>17 DEF vars
<1>18. QED
  BY <1>1, <1>2, <1>3, <1>4, <1>5, <1>6, <1>7, <1>8, <1>9,
     <1>10, <1>11, <1>12, <1>13, <1>14, <1>15, <1>16, <1>17 DEF Next, CallStep

LEMMA RequestStep == TypeOK /\ AttemptInv /\ RequestInv /\ [Next]_vars => RequestInv'
<1> SUFFICES ASSUME TypeOK, AttemptInv, RequestInv, [Next]_vars
             PROVE  RequestInv'
  OBVIOUS
<1> USE DEF TypeOK, PCs, Answers, Outcomes, Unspent, Preparing, AttemptInv, RequestInv, Goto, config, trip
<1>1. ASSUME NEW c \in Calls, Begin(c)
      PROVE  RequestInv'
  BY <1>1 DEF Begin
<1>2. ASSUME NEW c \in Calls, ApplyOptions(c)
      PROVE  RequestInv'
  BY <1>2 DEF ApplyOptions
<1>3. ASSUME NEW c \in Calls, BeginDeadline(c)
      PROVE  RequestInv'
  BY <1>3 DEF BeginDeadline
<1>4. ASSUME NEW c \in Calls, SetDeadline(c)
      PROVE  RequestInv'
  BY <1>4 DEF SetDeadline
<1>5. ASSUME NEW c \in Calls, BuildChain(c)
      PROVE  RequestInv'
  BY <1>5 DEF BuildChain
<1>6. ASSUME NEW c \in Calls, BeginAttempt(c)
      PROVE  RequestInv'
  BY <1>6 DEF BeginAttempt
<1>7. ASSUME NEW c \in Calls, Send(c)
      PROVE  RequestInv'
  BY <1>7 DEF Send
<1>8. ASSUME NEW c \in Calls, Answered(c)
      PROVE  RequestInv'
  BY <1>8 DEF Answered, AttemptEnds
<1>9. ASSUME NEW c \in Calls, RoundTripFails(c)
      PROVE  RequestInv'
  BY <1>9 DEF RoundTripFails, AttemptEnds
<1>10. ASSUME NEW c \in Calls, Classify(c)
      PROVE  RequestInv'
  BY <1>10 DEF Classify, Retriable
<1>11. ASSUME NEW c \in Calls, BackoffCancelled(c)
      PROVE  RequestInv'
  BY <1>11 DEF BackoffCancelled
<1>12. ASSUME NEW c \in Calls, BackoffOver(c)
      PROVE  RequestInv'
  BY <1>12 DEF BackoffOver
<1>13. ASSUME NEW c \in Calls, Expire(c)
      PROVE  RequestInv'
  BY <1>13 DEF Expire
<1>14. ASSUME NEW c \in Calls, Cancel(c)
      PROVE  RequestInv'
  BY <1>14 DEF Cancel
<1>15. ASSUME NEW c \in Calls, Execute(c)
      PROVE  RequestInv'
  BY <1>15 DEF Execute
<1>16. ASSUME NEW c \in Calls, Reject(c)
      PROVE  RequestInv'
  BY <1>16 DEF Reject
<1>17. CASE UNCHANGED vars
  BY <1>17 DEF vars
<1>18. QED
  BY <1>1, <1>2, <1>3, <1>4, <1>5, <1>6, <1>7, <1>8, <1>9,
     <1>10, <1>11, <1>12, <1>13, <1>14, <1>15, <1>16, <1>17 DEF Next, CallStep

LEMMA AttemptsCorrect == Spec => [](AttemptInv /\ RequestInv)
<1>1. Init => AttemptInv /\ RequestInv
  BY DEF Init, AttemptInv, RequestInv, Limit, Unspent, Preparing
<1>2. QED
  BY <1>1, TypeCorrect, AttemptStep, RequestStep, PTL DEF Spec

\* However the server, the network, the deadline and the retries race, the
\* side effects of a call that is not idempotent happen at most once.
THEOREM AtMostOnce == Spec => []SideEffectsBounded
<1>1. ASSUME TypeOK, AttemptInv, RequestInv, NEW c \in Calls
      PROVE  executed[c] <= Limit(c)
  <2>1. executed[c] \in Nat /\ attempts[c] \in Nat /\ Limit(c) \in Nat
    BY <1>1 DEF TypeOK, Limit
  <2>2. executed[c] + Unspent(c) <= attempts[c] /\ attempts[c] <= Limit(c)
    BY <1>1 DEF AttemptInv, RequestInv
  <2>3. QED
    BY <2>1, <2>2 DEF Unspent
<1>2. TypeOK /\ AttemptInv /\ RequestInv => SideEffectsBounded
  BY <1>1 DEF SideEffectsBounded, Limit
<1>3. QED
  BY <1>2, TypeCorrect, AttemptsCorrect, PTL

-----------------------------------------------------------------------------
(* The shared configuration.  Both theorems need an assumption about how   *)
(* the base client was built, and the runs UnaryBaseTimeout and            *)
(* UnarySpareSlice show that neither can be dropped.                       *)

HeadersInv ==
  \A c \in Calls :
    /\ pc[c] \notin {"idle", "options"} /\ c \in WithOptions => headers[c] = "own"
    /\ pc[c] = "setting" => HasDeadline(c)
    /\ pc[c] = "options" => c \in WithOptions

LEMMA HeadersStep == TypeOK /\ HeadersInv /\ [Next]_vars => HeadersInv'
<1> SUFFICES ASSUME TypeOK, HeadersInv, [Next]_vars
             PROVE  HeadersInv'
  OBVIOUS
<1> USE DEF TypeOK, PCs, HeadersInv, HasDeadline, Goto, config, trip
<1>1. ASSUME NEW c \in Calls, Begin(c)
      PROVE  HeadersInv'
  BY <1>1 DEF Begin
<1>2. ASSUME NEW c \in Calls, ApplyOptions(c)
      PROVE  HeadersInv'
  BY <1>2 DEF ApplyOptions
<1>3. ASSUME NEW c \in Calls, BeginDeadline(c)
      PROVE  HeadersInv'
  BY <1>3 DEF BeginDeadline
<1>4. ASSUME NEW c \in Calls, SetDeadline(c)
      PROVE  HeadersInv'
  BY <1>4 DEF SetDeadline
<1>5. ASSUME NEW c \in Calls, BuildChain(c)
      PROVE  HeadersInv'
  BY <1>5 DEF BuildChain
<1>6. ASSUME NEW c \in Calls, BeginAttempt(c)
      PROVE  HeadersInv'
  BY <1>6 DEF BeginAttempt
<1>7. ASSUME NEW c \in Calls, Send(c)
      PROVE  HeadersInv'
  BY <1>7 DEF Send
<1>8. ASSUME NEW c \in Calls, Answered(c)
      PROVE  HeadersInv'
  BY <1>8 DEF Answered, AttemptEnds
<1>9. ASSUME NEW c \in Calls, RoundTripFails(c)
      PROVE  HeadersInv'
  BY <1>9 DEF RoundTripFails, AttemptEnds
<1>10. ASSUME NEW c \in Calls, Classify(c)
      PROVE  HeadersInv'
  BY <1>10 DEF Classify, Retriable
<1>11. ASSUME NEW c \in Calls, BackoffCancelled(c)
      PROVE  HeadersInv'
  BY <1>11 DEF BackoffCancelled
<1>12. ASSUME NEW c \in Calls, BackoffOver(c)
      PROVE  HeadersInv'
  BY <1>12 DEF BackoffOver
<1>13. ASSUME NEW c \in Calls, Expire(c)
      PROVE  HeadersInv'
  BY <1>13 DEF Expire
<1>14. ASSUME NEW c \in Calls, Cancel(c)
      PROVE  HeadersInv'
  BY <1>14 DEF Cancel
<1>15. ASSUME NEW c \in Calls, Execute(c)
      PROVE  HeadersInv'
  BY <1>15 DEF Execute
<1>16. ASSUME NEW c \in Calls, Reject(c)
      PROVE  HeadersInv'
  BY <1>16 DEF Reject
<1>17. CASE UNCHANGED vars
  BY <1>17 DEF vars
<1>18. QED
  BY <1>1, <1>2, <1>3, <1>4, <1>5, <1>6, <1>7, <1>8, <1>9,
     <1>10, <1>11, <1>12, <1>13, <1>14, <1>15, <1>16, <1>17 DEF Next, CallStep

LEMMA HeadersCorrect == Spec => []HeadersInv
<1>1. Init => HeadersInv
  BY DEF Init, HeadersInv
<1>2. QED
  BY <1>1, TypeCorrect, HeadersStep, PTL DEF Spec

\* Unless the base client was built WithTimeout or WithDeadline, its header
\* map is only ever read, and so never raced.
THEOREM SharedHeadersOnlyRead ==
  ASSUME BaseTimeout = "unset"
  PROVE  Spec => []HeadersNotRaced
<1>1. HeadersInv => HeadersNotRaced
  BY DEF HeadersInv, HasDeadline, HeadersNotRaced, Writing
<1>2. QED
  BY <1>1, HeadersCorrect, PTL

-----------------------------------------------------------------------------
(* Successes.  Only the handler makes an "ok" of a request, and a call that *)
(* succeeded is not tried again, so that no later request replaces it.      *)

SuccessInv ==
  \A c \in Calls :
    /\ request[c] = "ok" => executed[c] > 0
    /\ outcome[c] = "ok" => request[c] = "ok" /\ pc[c] \in {"classify", "done"}

LEMMA SuccessStep == TypeOK /\ SuccessInv /\ [Next]_vars => SuccessInv'
<1> SUFFICES ASSUME TypeOK, SuccessInv, [Next]_vars
             PROVE  SuccessInv'
  OBVIOUS
<1> USE DEF TypeOK, PCs, Answers, Outcomes, SuccessInv, Goto, config, trip
<1>1. ASSUME NEW c \in Calls, Begin(c)
      PROVE  SuccessInv'
  BY <1>1 DEF Begin
<1>2. ASSUME NEW c \in Calls, ApplyOptions(c)
      PROVE  SuccessInv'
  BY <1>2 DEF ApplyOptions
<1>3. ASSUME NEW c \in Calls, BeginDeadline(c)
      PROVE  SuccessInv'
  BY <1>3 DEF BeginDeadline
<1>4. ASSUME NEW c \in Calls, SetDeadline(c)
      PROVE  SuccessInv'
  BY <1>4 DEF SetDeadline
<1>5. ASSUME NEW c \in Calls, BuildChain(c)
      PROVE  SuccessInv'
  BY <1>5 DEF BuildChain
<1>6. ASSUME NEW c \in Calls, BeginAttempt(c)
      PROVE  SuccessInv'
  BY <1>6 DEF BeginAttempt
<1>7. ASSUME NEW c \in Calls, Send(c)
      PROVE  SuccessInv'
  BY <1>7 DEF Send
<1>8. ASSUME NEW c \in Calls, Answered(c)
      PROVE  SuccessInv'
  BY <1>8 DEF Answered, AttemptEnds
<1>9. ASSUME NEW c \in Calls, RoundTripFails(c)
      PROVE  SuccessInv'
  BY <1>9 DEF RoundTripFails, AttemptEnds
<1>10. ASSUME NEW c \in Calls, Classify(c)
      PROVE  SuccessInv'
  BY <1>10 DEF Classify, Retriable
<1>11. ASSUME NEW c \in Calls, BackoffCancelled(c)
      PROVE  SuccessInv'
  BY <1>11 DEF BackoffCancelled
<1>12. ASSUME NEW c \in Calls, BackoffOver(c)
      PROVE  SuccessInv'
  BY <1>12 DEF BackoffOver
<1>13. ASSUME NEW c \in Calls, Expire(c)
      PROVE  SuccessInv'
  BY <1>13 DEF Expire
<1>14. ASSUME NEW c \in Calls, Cancel(c)
      PROVE  SuccessInv'
  BY <1>14 DEF Cancel
<1>15. ASSUME NEW c \in Calls, Execute(c)
      PROVE  SuccessInv'
  BY <1>15 DEF Execute
<1>16. ASSUME NEW c \in Calls, Reject(c)
      PROVE  SuccessInv'
  BY <1>16 DEF Reject
<1>17. CASE UNCHANGED vars
  BY <1>17 DEF vars
<1>18. QED
  BY <1>1, <1>2, <1>3, <1>4, <1>5, <1>6, <1>7, <1>8, <1>9,
     <1>10, <1>11, <1>12, <1>13, <1>14, <1>15, <1>16, <1>17 DEF Next, CallStep

\* A success that a caller sees is one that the handler had, and of the last
\* attempt.
THEOREM SuccessIsTheServers == Spec => []SuccessIsReal
<1>1. Init => SuccessInv
  BY DEF Init, SuccessInv
<1>2. SuccessInv => SuccessIsReal
  BY DEF SuccessInv, SuccessIsReal
<1>3. QED
  BY <1>1, <1>2, TypeCorrect, SuccessStep, PTL DEF Spec
==============================================================================
