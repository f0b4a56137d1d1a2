----------------------------- MODULE ClientStream -----------------------------
(***************************************************************************)
(* One client-streaming call over NDJSON: the stream object the caller     *)
(* holds (client/ndjson.go), the goroutine that runs the HTTP request      *)
(* (client/streams.go, DoClientStream), the request body pipe between the  *)
(* two, and the server side that reads lines and answers                   *)
(* (kernel/handler.go, transport/ndjson).                                  *)
(*                                                                         *)
(* Several goroutines may use the stream at once: result and respCh are    *)
(* guarded by mu, and waitResult keeps mu while it blocks on respCh.       *)
(* io.Pipe, net/http and the user's handler are external: the pipe is a    *)
(* rendezvous that hands a line over in one or two pieces and serialises   *)
(* writers; the transport may answer before it has read the whole body,    *)
(* may lose the connection, and closes the read side of the pipe when done.*)
(***************************************************************************)
EXTENDS Naturals, Sequences

CONSTANTS
  Threads,       \* goroutines that share the stream
  Messages,      \* request messages
  Blank,         \* those a binary codec encodes to zero bytes (no field set)
  Unencodable,   \* those codec.Marshal refuses
  Undecodable,   \* those the server's codec.Unmarshal refuses
  None,          \* "no thread", "no message"
  MaxSends,      \* bound: calls of Send
  MaxCloses      \* bound: calls of CloseAndReceive and Close

ASSUME ConstantsAssumption ==
  /\ Blank \cup Unencodable \cup Undecodable \subseteq Messages
  /\ None \notin Threads \cup Messages
  /\ MaxSends \in Nat
  /\ MaxCloses \in Nat

VARIABLES
  pc,         \* where each thread is in its call
  arg,        \* the message each thread is sending
  ret,        \* what each thread's last call returned
  sends, closes,  \* calls made so far (for the bounds)
  mu,         \* the thread that holds s.mu across a blocking receive
  result,     \* s.result
  respCh,     \* the one-slot channel the background goroutine fills
  do,         \* httpClient.Do: "pending" or "done"
  body,       \* the response body: "none", "unread" or "closed"
  sendSide,   \* the write side of the pipe: "open" or "closed"
  writer,     \* the thread inside pipe.Write
  transport,  \* the transport's copy of the body: "running", "eof", "stopped"
  conn,       \* "down" once the context is cancelled or the connection lost
  written,    \* lines handed to the wire whole, in order
  piece,      \* "head": a piece of an unfinished line follows them
  got,        \* lines the handler has received as messages
  ended,      \* how Receive ended: "no", "eof" (io.EOF) or "error"
  handler,    \* "start", "serving" or "returned"
  reply,      \* the HTTP response: "none", "ok" (200) or "err"
  answers     \* history: what CloseAndReceive calls returned

caller == <<pc, arg, ret, sends, closes>>
stream == <<mu, result>>
pipe   == <<sendSide, writer>>
wire   == <<transport, written, piece>>
server == <<got, ended, handler, reply>>
vars   == <<caller, stream, respCh, do, body, pipe, wire, conn, server, answers>>

PCs      == {"idle", "take", "failfast", "write", "blocked", "lock", "wait", "decode"}
Returns  == {"none", "nil", "pipeClosed", "encodeError", "doError", "rpcError",
             "success", "decodeError"}
Replies  == {"ok", "err"}
Results  == Replies \cup {"doErr"}

PipeOpen == sendSide = "open" /\ transport = "running"

Init ==
  /\ pc = [t \in Threads |-> "idle"]
  /\ arg = [t \in Threads |-> None]
  /\ ret = [t \in Threads |-> "none"]
  /\ sends = 0
  /\ closes = 0
  /\ mu = None
  /\ result = "none"
  /\ respCh = "none"
  /\ do = "pending"
  /\ body = "none"
  /\ sendSide = "open"
  /\ writer = None
  /\ transport = "running"
  /\ conn = "up"
  /\ written = <<>>
  /\ piece = "none"
  /\ got = 0
  /\ ended = "no"
  /\ handler = "start"
  /\ reply = "none"
  /\ answers = {}

-----------------------------------------------------------------------------
(* The caller's side *)

Goto(t, label) == pc' = [pc EXCEPT ![t] = label]

\* A call begins with its argument and forgets what the last one returned.
Enter(t, label, m) ==
  /\ pc[t] = "idle"
  /\ Goto(t, label)
  /\ arg' = [arg EXCEPT ![t] = m]
  /\ ret' = [ret EXCEPT ![t] = "none"]

Return(t, value) ==
  /\ Goto(t, "idle")
  /\ arg' = [arg EXCEPT ![t] = None]
  /\ ret' = [ret EXCEPT ![t] = value]

BeginSend(t, m) ==
  /\ sends < MaxSends
  /\ sends' = sends + 1
  /\ Enter(t, "take", m)
  /\ UNCHANGED <<closes, stream, respCh, do, body, pipe, wire, conn, server, answers>>

\* takeResult: lock, use the cached result or poll the channel, unlock.
TakeResult(t) ==
  /\ pc[t] = "take"
  /\ mu = None
  /\ IF result # "none"
     THEN UNCHANGED <<result, respCh>>
     ELSE /\ result' = respCh
          /\ respCh' = "none"
  /\ Goto(t, IF result' = "none" THEN "write" ELSE "failfast")
  /\ UNCHANGED <<arg, ret, sends, closes, mu, do, body, pipe, wire, conn, server, answers>>

\* The early exit of Send turns the response into an error but does not close it.
FailFast_Leaks(t) ==
  /\ pc[t] = "failfast"
  /\ Return(t, IF result = "doErr" THEN "doError" ELSE "rpcError")
  /\ UNCHANGED <<sends, closes, stream, respCh, do, body, pipe, wire, conn, server, answers>>

\* The request is already over: return its error, or turn the response,
\* whatever its status, into an error with status.FromHTTP and close it.
FailFast(t) ==
  /\ pc[t] = "failfast"
  /\ IF result = "doErr"
     THEN /\ Return(t, "doError")
          /\ UNCHANGED body
     ELSE /\ Return(t, "rpcError")
          /\ body' = "closed"
  /\ UNCHANGED <<sends, closes, stream, respCh, do, pipe, wire, conn, server, answers>>

\* Marshal, then enter pipe.Write, which refuses at once when the pipe is
\* closed and otherwise waits for its turn among the writers.
Write(t) ==
  /\ pc[t] = "write"
  /\ \/ /\ arg[t] \in Unencodable
        /\ Return(t, "encodeError")
        /\ UNCHANGED writer
     \/ /\ arg[t] \notin Unencodable
        /\ ~PipeOpen
        /\ Return(t, "pipeClosed")
        /\ UNCHANGED writer
     \/ /\ arg[t] \notin Unencodable
        /\ PipeOpen
        /\ writer = None
        /\ writer' = t
        /\ Goto(t, "blocked")
        /\ UNCHANGED <<arg, ret>>
  /\ UNCHANGED <<sends, closes, stream, respCh, do, body, sendSide, wire, conn, server, answers>>

\* The pipe was closed before the whole line was taken.
WriteAborted(t) ==
  /\ pc[t] = "blocked"
  /\ ~PipeOpen
  /\ writer' = None
  /\ Return(t, "pipeClosed")
  /\ UNCHANGED <<sends, closes, stream, respCh, do, body, sendSide, wire, conn, server, answers>>

\* CloseAndReceive closes the pipe first.
BeginCloseAndReceive(t) ==
  /\ closes < MaxCloses
  /\ closes' = closes + 1
  /\ sendSide' = "closed"
  /\ Enter(t, "lock", None)
  /\ UNCHANGED <<sends, stream, respCh, do, body, writer, wire, conn, server, answers>>

\* waitResult forgets to look at the cached result.
LockResult_NoCache(t) ==
  /\ pc[t] = "lock"
  /\ mu = None
  /\ mu' = t
  /\ Goto(t, "wait")
  /\ UNCHANGED <<arg, ret, sends, closes, result, respCh, do, body, pipe, wire, conn, server, answers>>

\* waitResult: lock; a cached result is returned at once, otherwise the
\* receive below runs with mu held.
LockResult(t) ==
  /\ pc[t] = "lock"
  /\ mu = None
  /\ IF result # "none"
     THEN Goto(t, "decode") /\ UNCHANGED mu
     ELSE Goto(t, "wait") /\ mu' = t
  /\ UNCHANGED <<arg, ret, sends, closes, result, respCh, do, body, pipe, wire, conn, server, answers>>

AwaitResult(t) ==
  /\ pc[t] = "wait"
  /\ respCh # "none"
  /\ result' = respCh
  /\ respCh' = "none"
  /\ mu' = None
  /\ Goto(t, "decode")
  /\ UNCHANGED <<arg, ret, sends, closes, do, body, pipe, wire, conn, server, answers>>

\* What CloseAndReceive makes of the result: the value it returns, among
\* those the state allows, and whether it gets as far as closing the body.
Readings(bodyState) ==
  (IF bodyState = "unread" THEN {"success"} ELSE {}) \cup
  (IF bodyState = "closed" \/ conn = "down" THEN {"decodeError"} ELSE {})

Finish(t, value, newBody) ==
  /\ Return(t, value)
  /\ body' = newBody
  /\ answers' = answers \cup {value}
  /\ UNCHANGED <<sends, closes, stream, respCh, do, pipe, wire, conn, server>>

\* The request's own error is not looked at: res.resp is nil.
Decode_IgnoreError(t) ==
  /\ pc[t] = "decode"
  /\ \/ result = "doErr" /\ Finish(t, "nilResponse", body)
     \/ result = "err" /\ Finish(t, "rpcError", "closed")
     \/ result = "ok" /\ \E v \in Readings(body) : Finish(t, v, "closed")

\* The status code is not looked at before decoding.
Decode_IgnoreStatus(t) ==
  /\ pc[t] = "decode"
  /\ \/ result = "doErr" /\ Finish(t, "doError", body)
     \/ result # "doErr" /\ \E v \in Readings(body) : Finish(t, v, "closed")

Decode(t) ==
  /\ pc[t] = "decode"
  /\ \/ result = "doErr" /\ Finish(t, "doError", body)
     \/ result = "err" /\ Finish(t, "rpcError", "closed")
     \/ result = "ok" /\ \E v \in Readings(body) : Finish(t, v, "closed")

\* Close only closes the write side of the pipe.
Close(t) ==
  /\ pc[t] = "idle"
  /\ closes < MaxCloses
  /\ closes' = closes + 1
  /\ sendSide' = "closed"
  /\ Return(t, "nil")
  /\ UNCHANGED <<sends, stream, respCh, do, body, writer, wire, conn, server, answers>>

-----------------------------------------------------------------------------
(* net/http on the client's side (external), and the goroutine around Do *)

\* The transport takes the first piece of the line a writer offers.
TakePiece ==
  /\ writer # None /\ PipeOpen /\ conn = "up"
  /\ piece = "none"
  /\ piece' = "head"
  /\ UNCHANGED <<caller, stream, respCh, do, body, pipe, transport, written, conn, server, answers>>

\* The transport takes (the rest of) the line: pipe.Write returns, and so
\* does Send.
TakeLine ==
  /\ writer # None /\ PipeOpen /\ conn = "up"
  /\ written' = Append(written, arg[writer])
  /\ piece' = "none"
  /\ writer' = None
  /\ Return(writer, "nil")
  /\ UNCHANGED <<sends, closes, stream, respCh, do, body, sendSide, transport, conn, server, answers>>

\* The body reads io.EOF: the transport ends the request body.
TakeEOF ==
  /\ sendSide = "closed" /\ transport = "running" /\ conn = "up"
  /\ transport' = "eof"
  /\ UNCHANGED <<caller, stream, respCh, do, body, pipe, written, piece, conn, server, answers>>

\* Once Do has its answer, or cannot get one, the transport stops reading
\* the body and closes its side of the pipe.
StopBody ==
  /\ transport = "running"
  /\ do = "done" \/ conn = "down"
  /\ transport' = "stopped"
  /\ UNCHANGED <<caller, stream, respCh, do, body, pipe, written, piece, conn, server, answers>>

\* respCh <- ndjsonResult{resp, nil}
Respond ==
  /\ do = "pending"
  /\ conn = "up"
  /\ reply # "none"
  /\ do' = "done"
  /\ respCh' = reply
  /\ body' = "unread"
  /\ UNCHANGED <<caller, stream, pipe, wire, conn, server, answers>>

\* respCh <- ndjsonResult{nil, err}
DoFail ==
  /\ do = "pending"
  /\ conn = "down"
  /\ do' = "done"
  /\ respCh' = "doErr"
  /\ UNCHANGED <<caller, stream, body, pipe, wire, conn, server, answers>>

Disconnect ==
  /\ conn = "up"
  /\ conn' = "down"
  /\ UNCHANGED <<caller, stream, respCh, do, body, pipe, wire, server, answers>>

-----------------------------------------------------------------------------
(* The server's side *)

\* authorizeStream, before the stream exists.
Authorize ==
  /\ handler = "start"
  /\ \/ handler' = "serving" /\ UNCHANGED reply
     \/ handler' = "returned" /\ reply' = "err"
  /\ UNCHANGED <<caller, stream, respCh, do, body, pipe, wire, conn, got, ended, answers>>

\* The user's handler receives until it is told to stop, by io.EOF or an
\* error.
CanReceive == handler = "serving" /\ ended = "no"

\* A complete line: an empty one reads as io.EOF, one the codec refuses as
\* an error, any other is the next message.
ReceiveLine ==
  /\ CanReceive
  /\ got < Len(written)
  /\ LET m == written[got + 1] IN
       \/ m \in Blank /\ ended' = "eof" /\ UNCHANGED got
       \/ m \in Undecodable \ Blank /\ ended' = "error" /\ UNCHANGED got
       \/ m \notin Blank \cup Undecodable /\ got' = got + 1 /\ UNCHANGED ended
  /\ UNCHANGED <<caller, stream, respCh, do, body, pipe, wire, conn, handler, reply, answers>>

\* ReadBytes fails and Receive answers io.EOF whatever the failure.
ReceiveEnd_AnyErrorIsEOF ==
  /\ CanReceive
  /\ \/ transport = "eof" /\ got = Len(written) /\ ended' = "eof"
     \/ conn = "down" /\ ended' = "eof"
  /\ UNCHANGED <<caller, stream, respCh, do, body, pipe, wire, conn, got, handler, reply, answers>>

\* No complete line is left: io.EOF at the end of the body, dropping the
\* piece of a line that may precede it, or the error of a lost connection.
ReceiveEnd ==
  /\ CanReceive
  /\ \/ transport = "eof" /\ got = Len(written) /\ ended' = "eof"
     \/ conn = "down" /\ ended' = "error"
  /\ UNCHANGED <<caller, stream, respCh, do, body, pipe, wire, conn, got, handler, reply, answers>>

\* The handler returns, early or not, and serveClientStream writes the
\* response or the error.  A response that cannot be encoded is an error.
HandlerReturn ==
  /\ handler = "serving"
  /\ handler' = "returned"
  /\ reply' \in Replies
  /\ UNCHANGED <<caller, stream, respCh, do, body, pipe, wire, conn, got, ended, answers>>

-----------------------------------------------------------------------------
CallStep(t) ==
  \/ TakeResult(t) \/ FailFast(t) \/ Write(t) \/ WriteAborted(t)
  \/ LockResult(t) \/ AwaitResult(t) \/ Decode(t)

Next ==
  \/ \E t \in Threads :
       \/ \E m \in Messages : BeginSend(t, m)
       \/ BeginCloseAndReceive(t)
       \/ Close(t)
       \/ CallStep(t)
  \/ TakePiece \/ TakeLine \/ TakeEOF \/ StopBody
  \/ Respond \/ DoFail \/ Disconnect
  \/ Authorize \/ ReceiveLine \/ ReceiveEnd \/ HandlerReturn

Spec == Init /\ [][Next]_vars

\* Goroutines that are in a call run; the transport moves bytes and settles
\* the request; the handler reads and, once told to stop, returns.  Nobody
\* has to start a call, disconnect, or return early.
Fairness ==
  /\ \A t \in Threads : WF_vars(CallStep(t))
  /\ WF_vars(TakeLine)
  /\ WF_vars(TakeEOF)
  /\ WF_vars(conn = "down" /\ StopBody)
  /\ WF_vars(Respond \/ DoFail)
  /\ WF_vars(Authorize)
  /\ WF_vars(ReceiveLine \/ ReceiveEnd)
  /\ WF_vars(ended # "no" /\ HandlerReturn)

FairSpec == Spec /\ Fairness

-----------------------------------------------------------------------------
(* Properties *)

\* Every variable stays within its type.
TypeOK ==
  /\ pc \in [Threads -> PCs]
  /\ arg \in [Threads -> Messages \cup {None}]
  /\ ret \in [Threads -> Returns]
  /\ sends \in 0..MaxSends
  /\ closes \in 0..MaxCloses
  /\ mu \in Threads \cup {None}
  /\ result \in Results \cup {"none"}
  /\ respCh \in Results \cup {"none"}
  /\ do \in {"pending", "done"}
  /\ body \in {"none", "unread", "closed"}
  /\ sendSide \in {"open", "closed"}
  /\ writer \in Threads \cup {None}
  /\ transport \in {"running", "eof", "stopped"}
  /\ conn \in {"up", "down"}
  /\ written \in Seq(Messages)
  /\ piece \in {"none", "head"}
  /\ got \in Nat
  /\ ended \in {"no", "eof", "error"}
  /\ handler \in {"start", "serving", "returned"}
  /\ reply \in Replies \cup {"none"}
  /\ answers \subseteq {"doError", "rpcError", "success", "decodeError"}

\* A thread holds mu exactly while it waits for the response, is the pipe's
\* writer exactly while it is inside pipe.Write, and never offers the pipe
\* anything but the message it was called with.
CallInv ==
  \A t \in Threads :
    /\ pc[t] \in {"take", "write", "blocked"} => arg[t] \in Messages
    /\ pc[t] = "blocked" <=> writer = t
    /\ pc[t] = "wait" <=> mu = t

\* The one response is in one place at a time (not yet sent, in respCh, or
\* in result), it is the server's, a call acts on it only when it is there,
\* and nobody waits for it before the request body is closed.
ResultInv ==
  /\ handler # "returned" => reply = "none"
  /\ respCh # "none" => result = "none"
  /\ do = "pending" => result = "none" /\ respCh = "none"
  /\ result \in Replies => reply = result
  /\ respCh \in Replies => reply = respCh
  /\ answers # {} => result # "none" /\ sendSide = "closed"
  /\ \A t \in Threads :
       /\ pc[t] \in {"decode", "failfast"} => result # "none"
       /\ pc[t] \in {"lock", "wait", "decode"} => sendSide = "closed"

\* The handler never runs ahead of the wire, and the body ends only after
\* the caller closed it.
WireInv ==
  /\ got <= Len(written)
  /\ transport = "eof" => sendSide = "closed"

\* io.EOF means what runtime/stream.go says: the client has finished
\* sending, and the handler has every message a Send reported as sent.
EOFMeansFinished == ended = "eof" => sendSide = "closed" /\ got = Len(written)

\* No response is leaked by a call that took it out of respCh, a Send that
\* failed fast included: somebody is still looking at it, or its body is
\* closed.
BodyReleased ==
  result \in Replies /\ (\A t \in Threads : pc[t] \notin {"failfast", "decode"})
    => body = "closed"

\* Every call of the stream returns: neither the mutex held across the
\* receive nor the pipe can keep a goroutine forever.
CallsReturn == \A t \in Threads : pc[t] # "idle" ~> pc[t] = "idle"

\* What the stream promises (StreamCall), whatever the threads, the pipe and
\* the transport do: in particular a success answers a call whose handler
\* succeeded, and an end of stream is real.
Told(a) == IF a \in {"success", "rpcError"} THEN a ELSE "lost"

Call == INSTANCE StreamCall WITH
  sent <- written, verdict <- reply,
  answers <- {Told(a) : a \in answers}

ImplementsCall == Call!Spec
===============================================================================
