------------------------------ MODULE StreamCall ------------------------------
(***************************************************************************)
(* What a client-streaming RPC promises, with no pipe, no HTTP request and *)
(* no mutex: the caller appends requests and closes; the handler reads a   *)
(* prefix of them and is told "end of stream" only when it has them all    *)
(* and the caller has closed; the call gets one verdict, and a caller that *)
(* closes and waits is answered with that verdict or learns that it is     *)
(* lost.  ClientStream is shown to implement this module.                  *)
(***************************************************************************)
EXTENDS Naturals, Sequences

CONSTANT Messages   \* the request messages

VARIABLES
  sent,      \* requests whose Send has taken effect, in order
  got,       \* how many of them the handler has received
  sendSide,  \* "closed" when the caller has finished sending, else "open"
  ended,     \* what told the handler to stop: "no", "eof" or "error"
  verdict,   \* the handler's decision: "none", "ok" or "err"
  answers    \* what the callers that closed and waited were told

vars == <<sent, got, sendSide, ended, verdict, answers>>

Verdicts == {"ok", "err"}
Answers  == {"success", "rpcError", "lost"}

Init ==
  /\ sent = <<>>
  /\ got = 0
  /\ sendSide = "open"
  /\ ended = "no"
  /\ verdict = "none"
  /\ answers = {}

Send ==
  /\ sendSide = "open"
  /\ \E m \in Messages : sent' = Append(sent, m)
  /\ UNCHANGED <<got, sendSide, ended, verdict, answers>>

CloseSend ==
  /\ sendSide' = "closed"
  /\ UNCHANGED <<sent, got, ended, verdict, answers>>

Deliver ==
  /\ ended = "no"
  /\ verdict = "none"
  /\ got < Len(sent)
  /\ got' = got + 1
  /\ UNCHANGED <<sent, sendSide, ended, verdict, answers>>

EndOfStream ==
  /\ ended = "no"
  /\ verdict = "none"
  /\ sendSide = "closed"
  /\ got = Len(sent)
  /\ ended' = "eof"
  /\ UNCHANGED <<sent, got, sendSide, verdict, answers>>

Break ==
  /\ ended = "no"
  /\ verdict = "none"
  /\ ended' = "error"
  /\ UNCHANGED <<sent, got, sendSide, verdict, answers>>

Decide ==
  /\ verdict = "none"
  /\ verdict' \in Verdicts
  /\ UNCHANGED <<sent, got, sendSide, ended, answers>>

Answer ==
  /\ sendSide = "closed"
  /\ \E a \in Answers :
       /\ a = "success" => verdict = "ok"
       /\ a = "rpcError" => verdict = "err"
       /\ answers' = answers \cup {a}
  /\ UNCHANGED <<sent, got, sendSide, ended, verdict>>

Next ==
  \/ Send
  \/ CloseSend
  \/ Deliver
  \/ EndOfStream
  \/ Break
  \/ Decide
  \/ Answer

Spec == Init /\ [][Next]_vars
===============================================================================
