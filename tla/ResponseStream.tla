---------------------------- MODULE ResponseStream ----------------------------
(***************************************************************************)
(* What a server-streaming RPC promises, with no framing, no buffers and   *)
(* no mutex: the handler appends responses until it returns; the client    *)
(* receives a prefix of them, each one whole, once and in order, and is    *)
(* told "end of stream" only when it has them all and the handler has      *)
(* returned.  ServerStream is shown to implement this module.              *)
(***************************************************************************)
EXTENDS Naturals, Sequences

CONSTANT Messages    \* the response messages

VARIABLES
  sent,       \* responses that are on their way, in order
  received,   \* responses the client's Receive has reported, in order
  handler,    \* "serving" until the handler returns
  told        \* how Receive reported the end: "no", "eof" or "failed"

vars == <<sent, received, handler, told>>

Init ==
  /\ sent = <<>>
  /\ received = <<>>
  /\ handler = "serving"
  /\ told = "no"

Send ==
  /\ handler = "serving"
  /\ \E m \in Messages : sent' = Append(sent, m)
  /\ UNCHANGED <<received, handler, told>>

Deliver ==
  /\ told = "no"
  /\ Len(received) < Len(sent)
  /\ received' = Append(received, sent[Len(received) + 1])
  /\ UNCHANGED <<sent, handler, told>>

Return ==
  /\ handler' = "returned"
  /\ UNCHANGED <<sent, received, told>>

EndOfStream ==
  /\ told = "no"
  /\ handler = "returned"
  /\ received = sent
  /\ told' = "eof"
  /\ UNCHANGED <<sent, received, handler>>

Break ==
  /\ told = "no"
  /\ told' = "failed"
  /\ UNCHANGED <<sent, received, handler>>

Next == Send \/ Deliver \/ Return \/ EndOfStream \/ Break

Spec == Init /\ [][Next]_vars
===============================================================================
