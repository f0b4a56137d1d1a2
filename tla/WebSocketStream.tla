--------------------------- MODULE WebSocketStream ---------------------------
(***************************************************************************)
(* A server-streaming or bidi call over WebSocket: the handler's           *)
(* goroutines that share the server's stream object (transport/websocket), *)
(* the handler around them (kernel/handler.go, which closes the connection *)
(* with the verdict), and the client's stream object with one sending and  *)
(* one receiving goroutine (client/websocket.go).                          *)
(*                                                                         *)
(* The connection, github.com/coder/websocket, is external: each end       *)
(* writes whole frames, of which Window fit before a write blocks; Close   *)
(* writes a close frame, after which that end writes no more, waits for    *)
(* the peer's for a while, and then drops the connection; a Read that      *)
(* takes a close frame answers with the same code, unless its end has sent *)
(* a close frame or there is no room for one, and drops the connection     *)
(* too.  What was in flight then may or may not arrive.                    *)
(*                                                                         *)
(* So the code a Receive reports may be the one its own end closed with:   *)
(* the answer to that, or the peer's own frame with the same code, which   *)
(* Receive cannot tell apart.  "answered" is how told records it.          *)
(***************************************************************************)
EXTENDS Naturals, Sequences

CONSTANTS
  Threads,      \* the handler's goroutines
  Messages,
  Undecodable,  \* requests the server's codec refuses
  None,         \* "no thread", "no message"
  Window,       \* frames in flight before a write blocks
  MaxSends      \* bound: calls of Send, on both ends together

Ends  == {"server", "client"}
Codes == {"normal", "internal"}     \* close codes 1000 and 1011

ASSUME WebSocketAssumption ==
  /\ Undecodable \subseteq Messages
  /\ Codes \cap Messages = {}
  /\ None \notin Threads \cup Messages
  /\ Window \in Nat \ {0}
  /\ MaxSends \in Nat

VARIABLES
  kind,       \* the operation: "server" (streaming) or "bidi"
  handler,    \* "request" (first frame awaited), "serving", "succeeded" or
              \* "failed"
  pc,         \* where each of its goroutines is in Send or Receive
  arg,        \* the message it is sending
  writeMu,    \* the goroutine that holds the stream's writeMu (or mu)
  readMu,     \* the one that holds readMu
  sending,    \* the message inside the client's Send, or None
  receiving,  \* the client's Receive: "idle" or "reading"
  ctx,        \* the context the client dialled with: "live" or "cancelled"
  sends,      \* calls of Send so far (for the bound)
  frames,     \* frames on their way from each end
  close,      \* the code each end called Close with, or "none"
  end,        \* each end: "open", "closing" (close frame sent), "closed"
  link,       \* "down" once the network lost the connection
  told,       \* how Receive ended at each end: "no", a code, "answered" (the
              \* code that end had closed with itself), or "lost"
  sent, got   \* history: messages each end wrote, and read

threads == <<pc, arg, writeMu, readMu>>
client  == <<sending, receiving, ctx>>
conn    == <<frames, close, end, link, told, sent, got>>
vars    == <<kind, handler, threads, client, sends, conn>>

Peer(e) == IF e = "server" THEN "client" ELSE "server"
Finished == handler \in {"succeeded", "failed"}

\* The client has dialled, and a server-streaming call is about to write its
\* first frame, the request.
Init ==
  /\ kind \in {"server", "bidi"}
  /\ handler = IF kind = "server" THEN "request" ELSE "serving"
  /\ pc = [t \in Threads |-> "idle"]
  /\ arg = [t \in Threads |-> None]
  /\ writeMu = None
  /\ readMu = None
  /\ IF kind = "server" THEN sending \in Messages ELSE sending = None
  /\ receiving = "idle"
  /\ ctx = "live"
  /\ sends = 0
  /\ frames = [e \in Ends |-> <<>>]
  /\ sent = [e \in Ends |-> <<>>]
  /\ close = [e \in Ends |-> "none"]
  /\ end = [e \in Ends |-> "open"]
  /\ link = "up"
  /\ told = [e \in Ends |-> "no"]
  /\ got = [e \in Ends |-> <<>>]

-----------------------------------------------------------------------------
(* The connection *)

\* Whether a write by e can still reach its peer.
Writable(e) == end[e] = "open" /\ end[Peer(e)] # "closed" /\ link = "up"

WriteFrame(e, m) ==
  /\ Writable(e)
  /\ Len(frames[e]) < Window
  /\ frames' = [frames EXCEPT ![e] = Append(@, m)]
  /\ sent' = [sent EXCEPT ![e] = Append(@, m)]

\* The write fails, or its frame is lost with the connection.
WriteIsLost(e) == ~Writable(e) /\ UNCHANGED <<frames, sent>>

\* Read takes whatever frame comes for a message.
ReadMessage_AnyFrame(e) ==
  LET p == Peer(e) IN
  /\ end[e] # "closed"
  /\ frames[p] # <<>>
  /\ got' = [got EXCEPT ![e] = Append(@, Head(frames[p]))]
  /\ frames' = [frames EXCEPT ![p] = Tail(@)]
  /\ UNCHANGED <<told, end>>

\* Read takes a message.
ReadMessage(e) ==
  LET p == Peer(e) IN
  /\ end[e] # "closed"
  /\ frames[p] # <<>>
  /\ Head(frames[p]) \in Messages
  /\ got' = [got EXCEPT ![e] = Append(@, Head(frames[p]))]
  /\ frames' = [frames EXCEPT ![p] = Tail(@)]
  /\ UNCHANGED <<told, end>>

\* There is room for the close frame that answers another.
CanAnswer(e) == Writable(e) /\ Len(frames[e]) < Window

Report(e, code) == IF code = close[e] THEN "answered" ELSE code

\* Any error of Read is reported as the end of the stream.
ReadEnds_AnyErrorIsEnd(e) ==
  LET p == Peer(e) IN
  /\ end[e] # "open" \/ end[p] = "closed" \/ link = "down"
  /\ told' = [told EXCEPT ![e] = IF @ = "no" THEN "normal" ELSE @]
  /\ end' = [end EXCEPT ![e] = "closed"]
  /\ UNCHANGED <<got, frames>>

\* Read ends, with the code of a close frame, which it answers, or because
\* the connection is gone.  Either way e drops the connection.
ReadEnds(e) ==
  LET p == Peer(e)
      code == Head(frames[p])
  IN
  /\ \/ /\ end[e] # "closed"
        /\ frames[p] # <<>>
        /\ code \in Codes
        /\ told' = [told EXCEPT ![e] = IF @ = "no" THEN Report(e, code) ELSE @]
        /\ frames' = [frames EXCEPT ![p] = Tail(@),
                                   ![e] = IF CanAnswer(e) THEN Append(@, code) ELSE @]
     \/ /\ end[e] # "open" \/ end[p] = "closed" \/ link = "down"
        /\ told' = [told EXCEPT ![e] = IF @ = "no" THEN "lost" ELSE @]
        /\ UNCHANGED frames
  /\ end' = [end EXCEPT ![e] = "closed"]
  /\ UNCHANGED got

\* Close, once it was called: the close frame, as soon as there is room, ...
SendCloseFrame(e) ==
  /\ close[e] # "none"
  /\ Writable(e)
  /\ Len(frames[e]) < Window
  /\ frames' = [frames EXCEPT ![e] = Append(@, close[e])]
  /\ end' = [end EXCEPT ![e] = "closing"]
  /\ UNCHANGED <<kind, handler, threads, client, sends, close, link, told, sent, got>>

\* ... and the end of it, with or without the peer's answer, in five seconds.
CloseEnds(e) ==
  /\ close[e] # "none"
  /\ end[e] # "closed"
  /\ end' = [end EXCEPT ![e] = "closed"]
  /\ UNCHANGED <<kind, handler, threads, client, sends, frames, close, link, told, sent, got>>

LoseConnection ==
  /\ link = "up"
  /\ link' = "down"
  /\ UNCHANGED <<kind, handler, threads, client, sends, frames, close, end, told, sent, got>>

-----------------------------------------------------------------------------
(* The handler *)

\* conn.Close(code, ...), the last thing the handler does.
CloseWith(verdict, code) ==
  /\ handler' = verdict
  /\ close' = [close EXCEPT !["server"] = code]

\* A request that does not decode ends the call as if nothing had happened.
ReadRequest_ClosesNormally ==
  /\ handler = "request"
  /\ ReadMessage("server")
  /\ IF Head(frames["client"]) \in Undecodable
     THEN CloseWith("failed", "normal")
     ELSE handler' = "serving" /\ UNCHANGED close
  /\ UNCHANGED <<kind, threads, client, sends, link, sent>>

\* The first frame of a server-streaming call.  A request that does not
\* decode ends the call.
ReadRequest ==
  /\ handler = "request"
  /\ ReadMessage("server")
  /\ IF Head(frames["client"]) \in Undecodable
     THEN CloseWith("failed", "internal")
     ELSE handler' = "serving" /\ UNCHANGED close
  /\ UNCHANGED <<kind, threads, client, sends, link, sent>>

\* The connection ended before the first frame.
RequestFails ==
  /\ handler = "request"
  /\ ReadEnds("server")
  /\ CloseWith("failed", "internal")
  /\ UNCHANGED <<kind, threads, client, sends, link, sent>>

\* The call's deadline passed, and Read dropped the connection.
RequestExpires ==
  /\ handler = "request"
  /\ end' = [end EXCEPT !["server"] = "closed"]
  /\ told' = [told EXCEPT !["server"] = "lost"]
  /\ CloseWith("failed", "internal")
  /\ UNCHANGED <<kind, threads, client, sends, frames, link, sent, got>>

Idle == \A t \in Threads : pc[t] = "idle"

\* Every verdict closes the connection normally.
HandlerReturn_AlwaysNormal ==
  /\ handler = "serving"
  /\ Idle
  /\ CloseWith("succeeded", "normal") \/ CloseWith("failed", "normal")
  /\ UNCHANGED <<kind, threads, client, sends, frames, end, link, told, sent, got>>

\* The user's handler has joined its goroutines and returned.
HandlerReturn ==
  /\ handler = "serving"
  /\ Idle
  /\ CloseWith("succeeded", "normal") \/ CloseWith("failed", "internal")
  /\ UNCHANGED <<kind, threads, client, sends, frames, end, link, told, sent, got>>

Goto(t, label) == pc' = [pc EXCEPT ![t] = label]

BeginSend(t, m) ==
  /\ handler = "serving"
  /\ pc[t] = "idle"
  /\ sends < MaxSends
  /\ sends' = sends + 1
  /\ Goto(t, "lockWrite")
  /\ arg' = [arg EXCEPT ![t] = m]
  /\ UNCHANGED <<kind, handler, writeMu, readMu, client, conn>>

LockWrite(t) ==
  /\ pc[t] = "lockWrite"
  /\ writeMu = None
  /\ writeMu' = t
  /\ Goto(t, "writing")
  /\ UNCHANGED <<kind, handler, arg, readMu, client, sends, conn>>

\* A lost write returns without the deferred Unlock.
Write_LeavesLocked(t) ==
  /\ pc[t] = "writing"
  /\ \/ WriteFrame("server", arg[t]) /\ writeMu' = None
     \/ WriteIsLost("server") /\ UNCHANGED writeMu
  /\ Goto(t, "idle")
  /\ arg' = [arg EXCEPT ![t] = None]
  /\ UNCHANGED <<kind, handler, readMu, client, sends, close, end, link, told, got>>

\* conn.Write and the deferred Unlock.
Write(t) ==
  /\ pc[t] = "writing"
  /\ WriteFrame("server", arg[t]) \/ WriteIsLost("server")
  /\ writeMu' = None
  /\ Goto(t, "idle")
  /\ arg' = [arg EXCEPT ![t] = None]
  /\ UNCHANGED <<kind, handler, readMu, client, sends, close, end, link, told, got>>

BeginReceive(t) ==
  /\ kind = "bidi"
  /\ handler = "serving"
  /\ pc[t] = "idle"
  /\ Goto(t, "lockRead")
  /\ UNCHANGED <<kind, handler, arg, writeMu, readMu, client, sends, conn>>

LockRead(t) ==
  /\ pc[t] = "lockRead"
  /\ readMu = None
  /\ readMu' = t
  /\ Goto(t, "reading")
  /\ UNCHANGED <<kind, handler, arg, writeMu, client, sends, conn>>

\* conn.Read, the decoding, which changes nothing, and the deferred Unlock.
Read(t) ==
  /\ pc[t] = "reading"
  /\ ReadMessage("server") \/ ReadEnds("server")
  /\ readMu' = None
  /\ Goto(t, "idle")
  /\ UNCHANGED <<kind, handler, arg, writeMu, client, sends, close, link, sent>>

-----------------------------------------------------------------------------
(* The client *)

ClientSend(m) ==
  /\ kind = "bidi"
  /\ sending = None
  /\ sends < MaxSends
  /\ sends' = sends + 1
  /\ sending' = m
  /\ UNCHANGED <<kind, handler, threads, receiving, ctx, conn>>

ClientWrite ==
  /\ kind = "bidi"
  /\ sending # None
  /\ WriteFrame("client", sending) \/ WriteIsLost("client")
  /\ sending' = None
  /\ UNCHANGED <<kind, handler, threads, receiving, ctx, sends, close, end, link, told, got>>

\* conn.Close(StatusInternalError), and an error instead of a stream.
ClientGivesUp == close' = [close EXCEPT !["client"] = "internal"]

\* The request, written with the caller's context; when that fails there is
\* no call and the connection is closed.
WriteRequest ==
  /\ kind = "server"
  /\ sending # None
  /\ \/ WriteFrame("client", sending) /\ UNCHANGED close
     \/ WriteIsLost("client") /\ ClientGivesUp
     \/ ctx = "cancelled" /\ ClientGivesUp /\ UNCHANGED <<frames, sent>>
  /\ sending' = None
  /\ UNCHANGED <<kind, handler, threads, receiving, ctx, sends, end, link, told, got>>

\* The caller has a stream to use.
HasStream == kind = "bidi" \/ (sending = None /\ close["client"] # "internal")

ClientReceive ==
  /\ HasStream
  /\ receiving = "idle"
  /\ receiving' = "reading"
  /\ UNCHANGED <<kind, handler, threads, sending, ctx, sends, conn>>

\* Receive tries again after an error.
ClientRead_Retries ==
  /\ receiving = "reading"
  /\ ReadMessage("client") \/ ReadEnds("client")
  /\ receiving' = IF got' = got THEN "reading" ELSE "idle"
  /\ UNCHANGED <<kind, handler, threads, sending, ctx, sends, close, link, sent>>

\* conn.Read with a context of its own: the caller's does not reach it.
ClientRead ==
  /\ receiving = "reading"
  /\ ReadMessage("client") \/ ReadEnds("client")
  /\ receiving' = "idle"
  /\ UNCHANGED <<kind, handler, threads, sending, ctx, sends, close, link, sent>>

\* The context of a bidi call is not used again after the dial.
Cancel ==
  /\ kind = "server"
  /\ ctx = "live"
  /\ ctx' = "cancelled"
  /\ UNCHANGED <<kind, handler, threads, sending, receiving, sends, conn>>

Close ==
  /\ HasStream
  /\ close["client"] = "none"
  /\ close' = [close EXCEPT !["client"] = "normal"]
  /\ UNCHANGED <<kind, handler, threads, client, sends, frames, end, link, told, sent, got>>

-----------------------------------------------------------------------------
Next ==
  \/ ReadRequest \/ RequestFails \/ RequestExpires \/ HandlerReturn
  \/ \E t \in Threads :
       \/ \E m \in Messages : BeginSend(t, m)
       \/ LockWrite(t) \/ Write(t) \/ BeginReceive(t) \/ LockRead(t) \/ Read(t)
  \/ \E m \in Messages : ClientSend(m)
  \/ ClientWrite \/ WriteRequest \/ ClientReceive \/ ClientRead \/ Cancel \/ Close
  \/ \E e \in Ends : SendCloseFrame(e) \/ CloseEnds(e)
  \/ LoseConnection

Spec == Init /\ [][Next]_vars

\* Goroutines in a call run, a mutex that is asked for again and again is
\* granted, Close gives up in the end, and TCP notices a lost connection.
\* Nobody has to send, receive, cancel, close or return.
Fairness ==
  /\ WF_vars(ReadRequest \/ RequestFails)
  /\ \A t \in Threads :
       /\ WF_vars(Write(t)) /\ WF_vars(Read(t))
       /\ SF_vars(LockWrite(t)) /\ SF_vars(LockRead(t))
  /\ WF_vars(ClientWrite \/ WriteRequest) /\ WF_vars(ClientRead)
  /\ \A e \in Ends : WF_vars(CloseEnds(e))

FairSpec == Spec /\ Fairness

-----------------------------------------------------------------------------
(* Properties *)

\* Every variable stays within its type.
TypeOK ==
  /\ kind \in {"server", "bidi"}
  /\ handler \in {"request", "serving", "succeeded", "failed"}
  /\ pc \in [Threads -> {"idle", "lockWrite", "writing", "lockRead", "reading"}]
  /\ arg \in [Threads -> Messages \cup {None}]
  /\ writeMu \in Threads \cup {None}
  /\ readMu \in Threads \cup {None}
  /\ sending \in Messages \cup {None}
  /\ receiving \in {"idle", "reading"}
  /\ ctx \in {"live", "cancelled"}
  /\ sends \in Nat
  /\ frames \in [Ends -> Seq(Messages \cup Codes)]
  /\ close \in [Ends -> Codes \cup {"none"}]
  /\ end \in [Ends -> {"open", "closing", "closed"}]
  /\ link \in {"up", "down"}
  /\ told \in [Ends -> Codes \cup {"no", "answered", "lost"}]
  /\ sent \in [Ends -> Seq(Messages)]
  /\ got \in [Ends -> Seq(Messages)]

\* A goroutine sends the message it was called with, and only while the
\* handler serves; the handler's verdict decides the code it closes with; no
\* end closes, or is told the end, before the request is through; and nobody
\* uses a stream before the request was written.
CallInv ==
  /\ \A t \in Threads :
       /\ pc[t] \in {"lockWrite", "writing"} => arg[t] \in Messages
       /\ pc[t] \in {"lockRead", "reading"} => kind = "bidi"
       /\ pc[t] # "idle" => handler = "serving"
  /\ close["server"] = "normal" => handler = "succeeded"
  /\ close["server"] = "internal" => handler = "failed"
  /\ kind = "server" /\ sending # None => close["client"] = "none"
  /\ handler = "request" => kind = "server" /\ told["server"] = "no" /\ got["server"] = <<>>
  /\ receiving = "reading" \/ close["client"] = "normal" => HasStream
  /\ kind = "server" /\ HasStream => sent["client"] # <<>>

\* What e has on the wire continues what its peer has read: the messages not
\* yet read, and behind them a close frame until the peer has read it, which
\* is e's own or answers the peer's.
WireInv(e) ==
  LET p == Peer(e)
      n == Len(got[p])
      k == Len(frames[e])
  IN
  /\ \A i \in 1..n : i <= Len(sent[e]) /\ got[p][i] = sent[e][i]
  /\ \A i \in 1..k :
       \/ /\ frames[e][i] \in Messages
          /\ n + i <= Len(sent[e])
          /\ frames[e][i] = sent[e][n + i]
       \/ /\ i = k
          /\ frames[e][i] \in Codes
          /\ frames[e][i] \in {close[e], close[p]}
          /\ n + k = Len(sent[e]) + 1
          /\ end[e] # "open"
  /\ end[e] = "open" => n + k = Len(sent[e])
  /\ told[p] # "no" => end[p] = "closed"
  /\ told[p] \in Codes => told[p] = close[e]
  /\ told[p] \in Codes \cup {"answered"} => n = Len(sent[e]) /\ end[e] # "open"

\* The server of a server-streaming call never answers the caller's Close: it
\* reads the request and no more.
NoAnswerInv ==
  kind = "server" =>
    /\ \A i \in DOMAIN frames["server"] :
         frames["server"][i] \in Codes => frames["server"][i] = close["server"]
    /\ told["client"] = "answered" => handler = "succeeded"

\* The close code a client's Receive reports is the handler's verdict, unless
\* the client closed a bidi stream with it: 1000 only after a handler that
\* succeeded, 1011 only after one that failed.
VerdictIsTrue ==
  /\ told["client"] = "normal" => handler = "succeeded"
  /\ told["client"] = "internal" => handler = "failed"
  /\ kind = "server" /\ told["client"] = "answered" => handler = "succeeded"

\* What one direction of the call promises: messages whole, once and in
\* order, and the normal end of the stream only after the last of them.
\* A code of one's own, on a bidi stream, promises nothing.
Normally(e) == told[e] = "normal" \/ (kind = "server" /\ told[e] = "answered")

End(e) == CASE told[e] = "no" -> "no" [] Normally(e) -> "eof" [] OTHER -> "failed"

Responses == INSTANCE ResponseStream WITH
  sent <- sent["server"], received <- got["client"], told <- End("client"),
  handler <- IF handler = "succeeded" THEN "returned" ELSE "serving"

ImplementsResponses == Responses!Spec

Requests == INSTANCE ResponseStream WITH
  sent <- sent["client"], received <- got["server"], told <- End("server"),
  handler <- IF end["client"] = "open" THEN "serving" ELSE "returned"

ImplementsRequests == Requests!Spec

\* A handler that waits for the request, and each of its goroutines, whether
\* it waits for a mutex, for a client that does not read, or for one that does
\* not send, is released when the client closes or is lost.
Departure == end["client"] = "closed" \/ link = "down"

HandlerReleased ==
  /\ Departure /\ handler = "request" ~> handler # "request"
  /\ \A t \in Threads : Departure /\ pc[t] # "idle" ~> pc[t] = "idle"

\* A client's Receive returns once the handler has.
ReceiveEnds == Finished /\ receiving = "reading" ~> receiving = "idle"

\* "When ctx is canceled, the underlying connection is closed so blocked
\* Receive calls fail."
CancelReleasesReceive == ctx = "cancelled" /\ receiving = "reading" ~> receiving = "idle"
===============================================================================
