----------------------------- MODULE ServerStream -----------------------------
(***************************************************************************)
(* One server-streaming call over SSE: the handler's goroutines that share *)
(* the stream (transport/sse, with its pool of base64 buffers), the HTTP   *)
(* response, and the client's stream object with the goroutine that        *)
(* watches its context (client/streams.go).                                *)
(*                                                                         *)
(* The response is a queue of the chunks the sender writes one by one: an  *)
(* envelope line ("event"), the "data: " prefix, the payload (a message),  *)
(* and the blank line that ends the event ("end").  net/http is external:  *)
(* a written chunk may reach the client at any time up to Flush, and the   *)
(* model lets it arrive at once; once the write deadline has passed or the *)
(* client is gone, a write is lost, and may or may not say so.             *)
(***************************************************************************)
EXTENDS Naturals, Sequences, BytesPool

CONSTANTS
  Encoding,      \* "binary" (base64 in pooled buffers) or "text"
  Envelopes,     \* messages wrapped in an *event.Event with a field set
  Large,         \* messages that need an oversized buffer
  Blank,         \* messages that encode to no bytes
  Window,        \* chunks in flight before a write blocks
  MaxSends       \* bound: calls of Send

ASSUME StreamAssumption ==
  /\ Encoding \in {"binary", "text"}
  /\ Envelopes \cup Large \cup Blank \subseteq Messages
  /\ {"event", "data", "end", "garbled"} \cap Messages = {}
  /\ Window \in Nat /\ Window >= 3
  /\ MaxSends \in Nat

VARIABLES
  pc,         \* where each handler goroutine is in Send
  arg,        \* the message it is sending
  sends,      \* calls of Send so far (for the bound)
  mu,         \* the goroutine that holds s.mu
  handler,    \* "serving" or "returned"
  deadline,   \* the server's write deadline: "ahead" or "passed"
  conn,       \* "down" once the connection is lost
  wire,       \* chunks on their way to the client
  rcv,        \* the client's goroutine: "idle" or "reading" (in Receive)
  told,       \* the end the body has reported: "no", "eof" or "failed"
  ctx,        \* the caller's context: "live" or "cancelled"
  done,       \* the stream's done channel: "open" or "closed"
  body,       \* the response body: "open" or "closed"
  watcher,    \* the goroutine that closes the body: "waiting" or "exited"
  sent,       \* history: messages whose event reached the wire whole
  received    \* history: messages Receive has reported

sender == <<pc, arg, sends>>
server == <<handler, deadline>>
client == <<rcv, told, received>>
life   == <<ctx, done, body, watcher>>
vars   == <<sender, poolVars, mu, server, conn, wire, client, life, sent>>

PCs == {"idle", "get", "fill", "lock", "event", "data", "payload", "end", "unlock", "put"}

Init ==
  /\ PoolInit
  /\ pc = [t \in Threads |-> "idle"]
  /\ arg = [t \in Threads |-> None]
  /\ sends = 0
  /\ mu = None
  /\ handler = "serving"
  /\ deadline = "ahead"
  /\ conn = "up"
  /\ wire = <<>>
  /\ rcv = "idle"
  /\ told = "no"
  /\ ctx = "live"
  /\ done = "open"
  /\ body = "open"
  /\ watcher = "waiting"
  /\ sent = <<>>
  /\ received = <<>>

\* The client no longer reads: it closed the body, its context ended the
\* request, or the connection broke.
Gone == conn = "down" \/ body = "closed" \/ ctx = "cancelled"

\* What is written now reaches nobody.
Dead == Gone \/ deadline = "passed"

-----------------------------------------------------------------------------
(* Send, in one of the handler's goroutines *)

Goto(t, label) == pc' = [pc EXCEPT ![t] = label]

\* Marshal (a message the codec refuses gets no further, and changes
\* nothing); a binary codec then needs a buffer.
BeginSend(t, m) ==
  /\ pc[t] = "idle"
  /\ handler = "serving"
  /\ sends < MaxSends
  /\ sends' = sends + 1
  /\ Goto(t, IF Encoding = "binary" THEN "get" ELSE "lock")
  /\ arg' = [arg EXCEPT ![t] = m]
  /\ UNCHANGED <<poolVars, mu, server, conn, wire, client, life, sent>>

GetBuffer(t) ==
  /\ pc[t] = "get"
  /\ GetN(t, IF arg[t] \in Large THEN "large" ELSE "small")
  /\ Goto(t, "fill")
  /\ UNCHANGED <<arg, sends, mu, server, conn, wire, client, life, sent>>

\* The message is encoded somewhere else, and the buffer is sent as it is.
Encode_Elsewhere(t) ==
  /\ pc[t] = "fill"
  /\ Goto(t, "lock")
  /\ UNCHANGED <<arg, sends, poolVars, mu, server, conn, wire, client, life, sent>>

\* base64.StdEncoding.Encode into the buffer.
Encode(t) ==
  /\ pc[t] = "fill"
  /\ Fill(t, arg[t])
  /\ Goto(t, "lock")
  /\ UNCHANGED <<arg, sends, mu, server, conn, wire, client, life, sent>>

\* The stream is written to without the mutex.
Lock_NotTaken(t) ==
  /\ pc[t] = "lock"
  /\ mu' = t
  /\ Goto(t, IF arg[t] \in Envelopes THEN "event" ELSE "data")
  /\ UNCHANGED <<arg, sends, poolVars, server, conn, wire, client, life, sent>>

Lock(t) ==
  /\ pc[t] = "lock"
  /\ mu = None
  /\ mu' = t
  /\ Goto(t, IF arg[t] \in Envelopes THEN "event" ELSE "data")
  /\ UNCHANGED <<arg, sends, poolVars, server, conn, wire, client, life, sent>>

\* A failed Write returns without the deferred Unlock.
Write_LeavesLocked(t, chunk, next) ==
  \/ /\ ~Dead
     /\ Len(wire) < Window
     /\ wire' = Append(wire, chunk)
     /\ Goto(t, next)
  \/ /\ Dead
     /\ UNCHANGED wire
     /\ Goto(t, next) \/ Goto(t, IF Encoding = "binary" THEN "put" ELSE "idle")

\* One Write of the response writer.  It waits for room.  When what it
\* writes is lost it may appear to succeed, or fail, and Send unwinds.
Write(t, chunk, next) ==
  \/ /\ ~Dead
     /\ Len(wire) < Window
     /\ wire' = Append(wire, chunk)
     /\ Goto(t, next)
  \/ /\ Dead
     /\ UNCHANGED wire
     /\ Goto(t, next) \/ Goto(t, "unlock")

\* event:, id: and retry: lines of an envelope.
WriteEvent(t) ==
  /\ pc[t] = "event"
  /\ Write(t, "event", "data")
  /\ UNCHANGED <<arg, sends, poolVars, mu, server, conn, client, life, sent>>

WritePrefix(t) ==
  /\ pc[t] = "data"
  /\ Write(t, "data", "payload")
  /\ UNCHANGED <<arg, sends, poolVars, mu, server, conn, client, life, sent>>

\* The payload is what the buffer holds now.
WritePayload(t) ==
  /\ pc[t] = "payload"
  /\ Write(t, IF Encoding = "binary" THEN data[buf[t]] ELSE arg[t], "end")
  /\ UNCHANGED <<arg, sends, poolVars, mu, server, conn, client, life, sent>>

\* The blank line, and Flush, whose failure nobody sees.  A message is sent
\* when its event is on the wire whole, blank or not.
WriteEnd(t) ==
  /\ pc[t] = "end"
  /\ Write(t, "end", "unlock")
  /\ sent' = IF wire' # wire THEN Append(sent, arg[t]) ELSE sent
  /\ UNCHANGED <<arg, sends, poolVars, mu, server, conn, client, life>>

\* Send is over.
Return(t) ==
  /\ Goto(t, "idle")
  /\ arg' = [arg EXCEPT ![t] = None]

\* The deferred calls: Unlock, then Put.
Unlock(t) ==
  /\ pc[t] = "unlock"
  /\ mu' = None
  /\ \/ Encoding = "binary" /\ Goto(t, "put") /\ UNCHANGED arg
     \/ Encoding = "text" /\ Return(t)
  /\ UNCHANGED <<sends, poolVars, server, conn, wire, client, life, sent>>

PutBuffer(t) ==
  /\ pc[t] = "put"
  /\ Put(t)
  /\ Return(t)
  /\ UNCHANGED <<sends, mu, server, conn, wire, client, life, sent>>

-----------------------------------------------------------------------------
(* The server and the connection around it *)

\* The handler returns, with an error or without: the client is not told
\* which.  It waits for its own goroutines.
HandlerReturn ==
  /\ handler = "serving"
  /\ \A t \in Threads : pc[t] = "idle"
  /\ handler' = "returned"
  /\ UNCHANGED <<sender, poolVars, mu, deadline, conn, wire, client, life, sent>>

\* http.Server.WriteTimeout, counted from the start of the request.
WriteTimeout ==
  /\ handler = "serving"
  /\ deadline' = "passed"
  /\ UNCHANGED <<sender, poolVars, mu, handler, conn, wire, client, life, sent>>

Disconnect ==
  /\ ~Gone
  /\ conn' = "down"
  /\ UNCHANGED <<sender, poolVars, mu, server, wire, client, life, sent>>

CollectBuffers ==
  /\ Collect
  /\ UNCHANGED <<sender, mu, server, conn, wire, client, life, sent>>

-----------------------------------------------------------------------------
(* The client *)

BeginReceive ==
  /\ rcv = "idle"
  /\ rcv' = "reading"
  /\ UNCHANGED <<sender, poolVars, mu, server, conn, wire, told, received, life, sent>>

LineEnds == {i \in 1..Len(wire) : wire[i] \in {"event", "end"}}

ReceiveReturns(reported) ==
  /\ rcv' = "idle"
  /\ received' = received \o reported

\* One turn of Receive's loop: a line that is not data, or has no data, is
\* skipped; the data of any other is decoded and reported, as a message or
\* as a decoding error.
ReadLine ==
  /\ rcv = "reading"
  /\ told = "no"
  /\ \E k \in LineEnds :
       /\ \A i \in LineEnds : k <= i
       /\ wire' = SubSeq(wire, k + 1, Len(wire))
       /\ LET payload == SubSeq(wire, 2, k - 1) IN
            \/ /\ wire[1] # "data" \/ (Len(payload) = 1 /\ payload[1] \in Blank)
               /\ UNCHANGED <<rcv, received>>
            \/ /\ wire[1] = "data" /\ Len(payload) = 1
               /\ payload[1] \notin Blank
               /\ ReceiveReturns(payload)
            \/ /\ wire[1] = "data" /\ Len(payload) # 1
               /\ ReceiveReturns(<<"garbled">>)
  /\ UNCHANGED <<sender, poolVars, mu, server, conn, told, life, sent>>

\* How the body ends for its reader: cleanly when the handler has returned
\* and everything was delivered, with an error when the client is gone, or
\* the server gave the connection up.
BodyEnds(how) ==
  \/ told # "no" /\ how = told
  \/ /\ told = "no" /\ Gone /\ how = "failed"
  \/ /\ told = "no" /\ ~Gone /\ LineEnds = {} /\ handler = "returned"
     /\ how = IF deadline = "passed" THEN "failed" ELSE "eof"

\* A read that fails is tried again, like a blank line.
ReadEnd_Retries ==
  /\ rcv = "reading"
  /\ \E how \in {"eof", "failed"} : BodyEnds(how) /\ told' = how
  /\ UNCHANGED <<sender, poolVars, mu, server, conn, wire, rcv, received, life, sent>>

ReadEnd ==
  /\ rcv = "reading"
  /\ \E how \in {"eof", "failed"} :
       /\ BodyEnds(how)
       /\ told' = how
       /\ ReceiveReturns(<<>>)
  /\ UNCHANGED <<sender, poolVars, mu, server, conn, wire, life, sent>>

Cancel ==
  /\ ctx' = "cancelled"
  /\ UNCHANGED <<sender, poolVars, mu, server, conn, wire, client, done, body, watcher, sent>>

\* Close may come from any goroutine and more than once.
Close ==
  /\ done' = "closed"
  /\ body' = "closed"
  /\ UNCHANGED <<sender, poolVars, mu, server, conn, wire, client, ctx, watcher, sent>>

\* The goroutine DoServerStream leaves behind.
Watch ==
  /\ watcher = "waiting"
  /\ ctx = "cancelled" \/ done = "closed"
  /\ body' = "closed"
  /\ watcher' = "exited"
  /\ UNCHANGED <<sender, poolVars, mu, server, conn, wire, client, ctx, done, sent>>

-----------------------------------------------------------------------------
SendStep(t) ==
  \/ GetBuffer(t) \/ Encode(t) \/ Lock(t)
  \/ WriteEvent(t) \/ WritePrefix(t) \/ WritePayload(t) \/ WriteEnd(t)
  \/ Unlock(t) \/ PutBuffer(t)

Next ==
  \/ \E t \in Threads :
       \/ \E m \in Messages : BeginSend(t, m)
       \/ SendStep(t)
  \/ HandlerReturn \/ WriteTimeout \/ Disconnect \/ CollectBuffers
  \/ BeginReceive \/ ReadLine \/ ReadEnd \/ Cancel \/ Close \/ Watch

Spec == Init /\ [][Next]_vars

\* Goroutines in a call run, a mutex that is asked for again and again is
\* granted (Go's mutex is starvation-free), and the server's timer fires.
\* Nobody has to send, receive, cancel, close or return.
Fairness ==
  /\ \A t \in Threads : WF_pc(SendStep(t)) /\ SF_pc(Lock(t))
  /\ WF_deadline(WriteTimeout)
  /\ WF_<<wire, rcv>>(ReadLine \/ ReadEnd)
  /\ WF_watcher(Watch)

FairSpec == Spec /\ Fairness

-----------------------------------------------------------------------------
(* Properties *)

\* Every variable stays within its type.
TypeOK ==
  /\ PoolTypeOK
  /\ pc \in [Threads -> PCs]
  /\ arg \in [Threads -> Messages \cup {None}]
  /\ sends \in 0..MaxSends
  /\ mu \in Threads \cup {None}
  /\ handler \in {"serving", "returned"}
  /\ deadline \in {"ahead", "passed"}
  /\ conn \in {"up", "down"}
  /\ wire \in Seq(Messages \cup {"event", "data", "end"})
  /\ Len(wire) <= Window
  /\ rcv \in {"idle", "reading"}
  /\ told \in {"no", "eof", "failed"}
  /\ ctx \in {"live", "cancelled"}
  /\ done \in {"open", "closed"}
  /\ body \in {"open", "closed"}
  /\ watcher \in {"waiting", "exited"}
  /\ sent \in Seq(Messages)
  /\ received \in Seq(Messages \cup {"garbled"})

\* Whatever the handler's goroutines, the pool, the deadline and the client
\* do, Receive reports the sent messages whole, once and in order, and
\* reports the end of the stream only after the last of them: as long as no
\* message encodes to no bytes.  Such a message is an empty data line, which
\* Receive takes for a line between events and skips.
Responses == INSTANCE ResponseStream

ImplementsResponses == Responses!Spec

\* A Send that waits for the mutex, or for a client that does not read, ends.
SendReturns == \A t \in Threads : pc[t] # "idle" ~> pc[t] = "idle"

\* "When ctx is canceled, the underlying connection is closed so blocked
\* Receive calls fail", and so they do when the stream is closed; each, for
\* neither is ever undone.  And the goroutine that DoServerStream starts does
\* not outlive the stream: Close ends it though the context is never cancelled.
CancelReleases ==
  ctx = "cancelled" \/ body = "closed" ~> watcher = "exited" /\ rcv = "idle"
===============================================================================
