------------------------------ MODULE UnaryCall ------------------------------
(***************************************************************************)
(* Concurrent unary calls on one generated client (client/unary.go,        *)
(* client/client.go, client/retry.go).  A call copies the base client's    *)
(* configuration, whose header map and interceptor slice stay shared until *)
(* something is done about it; applies its options; derives a deadline;    *)
(* builds its interceptor chain; and makes attempts, each an HTTP round    *)
(* trip, until one of them settles the call.                               *)
(*                                                                         *)
(* The server is asynchronous: it may run a request after the client has   *)
(* stopped waiting for it.  Durations are abstract: a deadline passes, and *)
(* a backoff ends, at any time.                                            *)
(***************************************************************************)
EXTENDS Naturals

CONSTANTS
  Calls,         \* the calls, each in a goroutine of its own
  WithOptions,   \* those given per-call options: a timeout and an interceptor
  Idempotent,    \* those whose method or policy is idempotent
  BaseTimeout,   \* "set" when the base client was built WithTimeout
  Spare,         \* "some" when the base slice has room behind its last element
  MaxAttempts,   \* of the (normalised) retry policy; 1 without a policy
  None

ASSUME CallsAssumption ==
  /\ WithOptions \subseteq Calls
  /\ Idempotent \subseteq Calls
  /\ BaseTimeout \in {"set", "unset"}
  /\ Spare \in {"some", "none"}
  /\ MaxAttempts \in Nat \ {0}
  /\ None \notin Calls

VARIABLES
  pc,        \* where each call is in DoUnary
  headers,   \* the header map it uses: "shared" (the base's) or "own"
  base,      \* whether the base's map holds a deadline: "clean" or "dirty"
  slot,      \* the interceptor behind the base slice's last element
  chain,     \* the per-call interceptor in each call's chain
  ctx,       \* each call's context: "live", "expired" or "cancelled"
  attempts,  \* attempts begun
  request,   \* the last request: "none", "sent", or the server's answer
  executed,  \* times the server ran the handler for the call
  outcome    \* how the last attempt, and in the end the call, came out

config == <<headers, base, slot, chain>>
trip   == <<attempts, request, executed, outcome>>
vars   == <<pc, config, ctx, trip>>

PCs      == {"idle", "options", "deadline", "setting", "chain", "attempt", "building",
             "trip", "classify", "backoff", "done"}
Answers  == {"ok", "unavailable", "failed"}
Outcomes == Answers \cup {"none", "transport", "expired", "cancelled", "rawContext"}

HasDeadline(c) == c \in WithOptions \/ BaseTimeout = "set"

Init ==
  /\ pc = [c \in Calls |-> "idle"]
  /\ headers = [c \in Calls |-> "shared"]
  /\ base = "clean"
  /\ slot = None
  /\ chain = [c \in Calls |-> None]
  /\ ctx = [c \in Calls |-> "live"]
  /\ attempts = [c \in Calls |-> 0]
  /\ request = [c \in Calls |-> "none"]
  /\ executed = [c \in Calls |-> 0]
  /\ outcome = [c \in Calls |-> "none"]

Goto(c, label) == pc' = [pc EXCEPT ![c] = label]

-----------------------------------------------------------------------------
(* Preparing the call *)

Begin(c) ==
  /\ pc[c] = "idle"
  /\ Goto(c, IF c \in WithOptions THEN "options" ELSE "deadline")
  /\ UNCHANGED <<config, ctx, trip>>

\* The options are applied to the struct copy alone.
ApplyOptions_NoClone(c) ==
  /\ pc[c] = "options"
  /\ Goto(c, "deadline")
  /\ slot' = IF Spare = "some" THEN c ELSE slot
  /\ UNCHANGED <<headers, base, chain, ctx, trip>>

\* The headers are cloned; WithUnaryInterceptors appends, into the shared
\* backing array when it has room.
ApplyOptions(c) ==
  /\ pc[c] = "options"
  /\ Goto(c, "deadline")
  /\ headers' = [headers EXCEPT ![c] = "own"]
  /\ slot' = IF Spare = "some" THEN c ELSE slot
  /\ UNCHANGED <<base, chain, ctx, trip>>

\* applyDeadline.  A header map is written in two steps, so that another
\* goroutine's access can fall between them.
BeginDeadline(c) ==
  /\ pc[c] = "deadline"
  /\ Goto(c, IF HasDeadline(c) THEN "setting" ELSE "chain")
  /\ UNCHANGED <<config, ctx, trip>>

SetDeadline(c) ==
  /\ pc[c] = "setting"
  /\ base' = IF headers[c] = "shared" THEN "dirty" ELSE base
  /\ Goto(c, "chain")
  /\ UNCHANGED <<headers, slot, chain, ctx, trip>>

\* buildInvoker captures the interceptors that are in the slice now.
BuildChain(c) ==
  /\ pc[c] = "chain"
  /\ chain' = [chain EXCEPT ![c] =
                 CASE c \notin WithOptions -> None
                   [] c \in WithOptions /\ Spare = "some" -> slot
                   [] c \in WithOptions /\ Spare = "none" -> c]
  /\ Goto(c, "attempt")
  /\ UNCHANGED <<headers, base, slot, ctx, trip>>

-----------------------------------------------------------------------------
(* Attempts *)

BeginAttempt(c) ==
  /\ pc[c] = "attempt"
  /\ attempts' = [attempts EXCEPT ![c] = @ + 1]
  /\ Goto(c, "building")
  /\ UNCHANGED <<config, ctx, request, executed, outcome>>

\* The header map has been copied into the request; Do sends it unless the
\* context is over already.
Send(c) ==
  /\ pc[c] = "building"
  /\ Goto(c, "trip")
  /\ request' = [request EXCEPT ![c] = IF ctx[c] = "live" THEN "sent" ELSE "none"]
  /\ UNCHANGED <<config, ctx, attempts, executed, outcome>>

AttemptEnds(c, how) ==
  /\ outcome' = [outcome EXCEPT ![c] = how]
  /\ Goto(c, "classify")
  /\ UNCHANGED <<config, ctx, attempts, request, executed>>

\* The status of the response is not looked at.
Answered_IgnoreStatus(c) ==
  /\ pc[c] = "trip"
  /\ request[c] \in Answers
  /\ AttemptEnds(c, "ok") \/ AttemptEnds(c, "failed")

\* A response.  Reading or decoding a good one may still fail.
Answered(c) ==
  /\ pc[c] = "trip"
  /\ request[c] \in Answers
  /\ \/ AttemptEnds(c, request[c])
     \/ request[c] = "ok" /\ AttemptEnds(c, "failed")

\* The context's error is reported whatever made Do fail.
RoundTripFails_AlwaysContext(c) ==
  /\ pc[c] = "trip"
  /\ ctx[c] # "live" \/ request[c] # "none"
  /\ AttemptEnds(c, ctx[c])

\* The request is made without the context.
RoundTripFails_NoContext(c) ==
  /\ pc[c] = "trip"
  /\ request[c] # "none"
  /\ AttemptEnds(c, "transport")

\* Do fails: with the context, or (when it was sent) with the connection.
\* Neither is an Unavailable status.
RoundTripFails(c) ==
  /\ pc[c] = "trip"
  /\ \/ ctx[c] # "live" /\ AttemptEnds(c, ctx[c])
     \/ request[c] # "none" /\ ctx[c] = "live" /\ AttemptEnds(c, "transport")

\* Any call that fails transiently is tried again.
Retriable_Any(c) ==
  /\ outcome[c] = "unavailable"
  /\ attempts[c] < MaxAttempts

\* An idempotent call that failed transiently is tried again, while attempts
\* remain.
Retriable(c) ==
  /\ c \in Idempotent
  /\ outcome[c] = "unavailable"
  /\ attempts[c] < MaxAttempts

Classify(c) ==
  /\ pc[c] = "classify"
  /\ Goto(c, IF Retriable(c) THEN "backoff" ELSE "done")
  /\ UNCHANGED <<config, ctx, trip>>

\* The select between the context and the timer; when both are ready
\* either may win.
BackoffCancelled(c) ==
  /\ pc[c] = "backoff"
  /\ ctx[c] # "live"
  /\ outcome' = [outcome EXCEPT ![c] = "rawContext"]
  /\ Goto(c, "done")
  /\ UNCHANGED <<config, ctx, attempts, request, executed>>

BackoffOver(c) ==
  /\ pc[c] = "backoff"
  /\ Goto(c, "attempt")
  /\ UNCHANGED <<config, ctx, trip>>

-----------------------------------------------------------------------------
(* The context and the server *)

Expire(c) ==
  /\ pc[c] \notin {"idle", "options", "deadline", "setting"}
  /\ HasDeadline(c)
  /\ ctx[c] = "live"
  /\ ctx' = [ctx EXCEPT ![c] = "expired"]
  /\ UNCHANGED <<pc, config, trip>>

Cancel(c) ==
  /\ ctx[c] = "live"
  /\ ctx' = [ctx EXCEPT ![c] = "cancelled"]
  /\ UNCHANGED <<pc, config, trip>>

\* The server runs the handler, perhaps long after the client gave up.
Execute(c) ==
  /\ request[c] = "sent"
  /\ executed' = [executed EXCEPT ![c] = @ + 1]
  /\ \E a \in Answers : request' = [request EXCEPT ![c] = a]
  /\ UNCHANGED <<pc, config, ctx, attempts, outcome>>

\* The server answers without reaching the handler.
Reject(c) ==
  /\ request[c] = "sent"
  /\ \E a \in Answers \ {"ok"} : request' = [request EXCEPT ![c] = a]
  /\ UNCHANGED <<pc, config, ctx, attempts, executed, outcome>>

-----------------------------------------------------------------------------
CallStep(c) ==
  \/ ApplyOptions(c) \/ BeginDeadline(c) \/ SetDeadline(c) \/ BuildChain(c)
  \/ BeginAttempt(c) \/ Send(c) \/ Answered(c) \/ RoundTripFails(c)
  \/ Classify(c) \/ BackoffCancelled(c) \/ BackoffOver(c)

Next ==
  \E c \in Calls :
    \/ Begin(c) \/ CallStep(c)
    \/ Expire(c) \/ Cancel(c) \/ Execute(c) \/ Reject(c)

Spec == Init /\ [][Next]_vars

\* A call that has begun runs, and a deadline passes.  The server need not
\* ever answer.
Fairness ==
  \A c \in Calls : WF_vars(CallStep(c)) /\ WF_vars(Expire(c))

FairSpec == Spec /\ Fairness

-----------------------------------------------------------------------------
(* Properties *)

\* Every variable stays within its type.
TypeOK ==
  /\ pc \in [Calls -> PCs]
  /\ headers \in [Calls -> {"shared", "own"}]
  /\ base \in {"clean", "dirty"}
  /\ slot \in Calls \cup {None}
  /\ chain \in [Calls -> Calls \cup {None}]
  /\ ctx \in [Calls -> {"live", "expired", "cancelled"}]
  /\ attempts \in [Calls -> Nat]
  /\ request \in [Calls -> Answers \cup {"none", "sent"}]
  /\ executed \in [Calls -> Nat]
  /\ outcome \in [Calls -> Outcomes]

\* The retry policy never repeats the side effects of a call that is not
\* idempotent, however the server, the network and the deadline race, and
\* repeats those of an idempotent one at most MaxAttempts times.
SideEffectsBounded ==
  \A c \in Calls : executed[c] <= IF c \in Idempotent THEN MaxAttempts ELSE 1

\* "Per-call options apply to this call only": a call's chain holds its own
\* interceptor, never another call's.
OwnInterceptors ==
  \A c \in Calls :
    pc[c] \in {"attempt", "building", "trip", "classify", "backoff", "done"} =>
      chain[c] = IF c \in WithOptions THEN c ELSE None

\* "They never mutate the base client": no call leaves its deadline in the
\* header map of the base client, for later calls and streams to send.
BaseNeverMutated == base = "clean"

\* No goroutine touches a header map while another one writes it.
Writing(c) == pc[c] = "setting" /\ headers[c] = "shared"
Reading(c) == pc[c] = "building" /\ headers[c] = "shared"

HeadersNotRaced ==
  \A c, d \in Calls : c # d /\ Writing(c) => ~Writing(d) /\ ~Reading(d)

\* A call reports success only when the server ran its handler and said so.
SuccessIsReal ==
  \A c \in Calls : outcome[c] = "ok" => executed[c] > 0 /\ request[c] = "ok"

\* A call with a deadline returns, even from a server that never answers.
CallsReturn ==
  \A c \in Calls : pc[c] # "idle" /\ HasDeadline(c) ~> pc[c] = "done"
==============================================================================
