----------------------- MODULE WebSocketStreamProofs -----------------------
(***************************************************************************)
(* Proofs about WebSocketStream: what is on the wire always continues what *)
(* the peer has read, so that a close code is the last thing an end reads, *)
(* and is the verdict of the handler.                                      *)
(***************************************************************************)
EXTENDS WebSocketStream, TLAPS

USE WebSocketAssumption DEF WebSocketAssumption

LEMMA PeerFacts ==
  \A e \in Ends : Peer(e) \in Ends /\ Peer(e) # e /\ Peer(Peer(e)) = e
BY DEF Ends, Peer

-----------------------------------------------------------------------------
(* Types *)

ConnTypes ==
  /\ frames \in [Ends -> Seq(Messages \cup Codes)]
  /\ end \in [Ends -> {"open", "closing", "closed"}]
  /\ told \in [Ends -> Codes \cup {"no", "answered", "lost"}]
  /\ sent \in [Ends -> Seq(Messages)]
  /\ got \in [Ends -> Seq(Messages)]

\* A call is of one kind from its first step to its last.
LEMMA KindKept == [Next]_vars => kind' = kind
BY DEF Next, vars, ReadRequest, RequestFails, RequestExpires, HandlerReturn, BeginSend, LockWrite,
       Write, BeginReceive, LockRead, Read, ClientSend, ClientWrite, WriteRequest, ClientReceive,
       ClientRead, Cancel, Close, SendCloseFrame, CloseEnds, LoseConnection

LEMMA WriteTypes ==
  ASSUME ConnTypes, NEW e \in Ends, NEW m \in Messages,
         WriteFrame(e, m) \/ WriteIsLost(e)
  PROVE  /\ frames' \in [Ends -> Seq(Messages \cup Codes)]
         /\ sent' \in [Ends -> Seq(Messages)]
<1>1. CASE WriteFrame(e, m)
  <2>1. Append(frames[e], m) \in Seq(Messages \cup Codes) /\ Append(sent[e], m) \in Seq(Messages)
    BY DEF ConnTypes
  <2>2. QED
    BY <1>1, <2>1 DEF ConnTypes, WriteFrame
<1>2. CASE WriteIsLost(e)
  BY <1>2 DEF ConnTypes, WriteIsLost
<1>3. QED
  BY <1>1, <1>2

\* The two ways in which a Read ends.
TakesCode(e) ==
  LET p == Peer(e)
      code == Head(frames[p])
  IN
  /\ end[e] # "closed"
  /\ frames[p] # <<>>
  /\ code \in Codes
  /\ told' = [told EXCEPT ![e] = IF @ = "no" THEN Report(e, code) ELSE @]
  /\ frames' = [frames EXCEPT ![p] = Tail(@),
                             ![e] = IF CanAnswer(e) THEN Append(@, code) ELSE @]

LEMMA ReadEndsHow ==
  ASSUME NEW e, ReadEnds(e)
  PROVE  \/ TakesCode(e)
         \/ UNCHANGED frames /\ told' = [told EXCEPT ![e] = IF @ = "no" THEN "lost" ELSE @]
BY DEF ReadEnds, TakesCode

LEMMA ReadTypes ==
  ASSUME ConnTypes, NEW e \in Ends, ReadMessage(e) \/ ReadEnds(e)
  PROVE  /\ frames' \in [Ends -> Seq(Messages \cup Codes)]
         /\ end' \in [Ends -> {"open", "closing", "closed"}]
         /\ told' \in [Ends -> Codes \cup {"no", "answered", "lost"}]
         /\ got' \in [Ends -> Seq(Messages)]
<1>1. Peer(e) \in Ends
  BY PeerFacts
<1>2. frames[Peer(e)] # <<>> => Tail(frames[Peer(e)]) \in Seq(Messages \cup Codes)
  BY <1>1 DEF ConnTypes
<1>3. CASE ReadMessage(e)
  <2>1. Append(got[e], Head(frames[Peer(e)])) \in Seq(Messages)
    BY <1>3 DEF ConnTypes, ReadMessage
  <2>2. QED
    BY <1>1, <1>2, <1>3, <2>1 DEF ConnTypes, ReadMessage
<1>4. CASE ReadEnds(e)
  <2>1. /\ end' \in [Ends -> {"open", "closing", "closed"}]
        /\ got' \in [Ends -> Seq(Messages)]
    BY <1>4 DEF ConnTypes, ReadEnds
  <2>2. CASE UNCHANGED frames /\ told' = [told EXCEPT ![e] = IF @ = "no" THEN "lost" ELSE @]
    BY <2>1, <2>2 DEF ConnTypes
  <2>3. CASE TakesCode(e)
    <3>1. PICK c \in Codes : c = Head(frames[Peer(e)])
      BY <2>3 DEF TakesCode
    <3>2. /\ frames[Peer(e)] # <<>>
          /\ told' = [told EXCEPT ![e] = IF @ = "no" THEN Report(e, c) ELSE @]
          /\ frames' = [frames EXCEPT ![Peer(e)] = Tail(@),
                                     ![e] = IF CanAnswer(e) THEN Append(@, c) ELSE @]
      BY <2>3, <3>1 DEF TakesCode
    <3>3. Append(frames[e], c) \in Seq(Messages \cup Codes)
      BY DEF ConnTypes
    <3>4. frames' \in [Ends -> Seq(Messages \cup Codes)]
      BY <1>1, <1>2, <3>2, <3>3, PeerFacts DEF ConnTypes
    <3>5. told' \in [Ends -> Codes \cup {"no", "answered", "lost"}]
      BY <3>2 DEF ConnTypes, Report
    <3>6. QED
      BY <2>1, <3>4, <3>5
  <2>4. QED
    BY <1>4, <2>2, <2>3, ReadEndsHow
<1>5. QED
  BY <1>3, <1>4

LEMMA TypeStep == TypeOK /\ CallInv /\ [Next]_vars => TypeOK'
<1> SUFFICES ASSUME TypeOK, CallInv, [Next]_vars PROVE TypeOK'
  OBVIOUS
<1>c. ConnTypes
  BY DEF TypeOK, ConnTypes
<1>r. ASSUME NEW e \in Ends, ReadMessage(e) \/ ReadEnds(e)
      PROVE  /\ frames' \in [Ends -> Seq(Messages \cup Codes)]
             /\ end' \in [Ends -> {"open", "closing", "closed"}]
             /\ told' \in [Ends -> Codes \cup {"no", "answered", "lost"}]
             /\ got' \in [Ends -> Seq(Messages)]
  BY <1>c, <1>r, ReadTypes
<1>w. ASSUME NEW e \in Ends, NEW m \in Messages, WriteFrame(e, m) \/ WriteIsLost(e)
      PROVE  /\ frames' \in [Ends -> Seq(Messages \cup Codes)]
             /\ sent' \in [Ends -> Seq(Messages)]
  BY <1>c, <1>w, WriteTypes
<1>e. "server" \in Ends /\ "client" \in Ends /\ "normal" \in Codes /\ "internal" \in Codes
  BY DEF Ends, Codes
<1> USE DEF TypeOK, conn, threads, client, Goto
<1>1. CASE ReadRequest
  <2>1. /\ handler' \in {"request", "serving", "succeeded", "failed"}
        /\ close' \in [Ends -> Codes \cup {"none"}]
    <3>1. CASE CloseWith("failed", "internal")
      BY <3>1, <1>e DEF CloseWith
    <3>2. CASE handler' = "serving" /\ UNCHANGED close
      BY <3>2
    <3>3. QED
      BY <1>1, <3>1, <3>2 DEF ReadRequest
  <2>2. QED
    BY <1>1, <1>r, <1>e, <2>1 DEF ReadRequest
<1>2. CASE RequestFails
  BY <1>2, <1>r, <1>e DEF RequestFails, CloseWith
<1>3. CASE RequestExpires
  BY <1>3, <1>e DEF RequestExpires, CloseWith
<1>4. CASE HandlerReturn
  <2>1. /\ handler' \in {"request", "serving", "succeeded", "failed"}
        /\ close' \in [Ends -> Codes \cup {"none"}]
    <3>1. CASE CloseWith("succeeded", "normal")
      BY <3>1, <1>e DEF CloseWith
    <3>2. CASE CloseWith("failed", "internal")
      BY <3>2, <1>e DEF CloseWith
    <3>3. QED
      BY <1>4, <3>1, <3>2 DEF HandlerReturn
  <2>2. QED
    BY <1>4, <2>1 DEF HandlerReturn
<1>5. ASSUME NEW t \in Threads, NEW m \in Messages, BeginSend(t, m) PROVE TypeOK'
  BY <1>5 DEF BeginSend
<1>6. ASSUME NEW t \in Threads, LockWrite(t) PROVE TypeOK'
  BY <1>6 DEF LockWrite
<1>7. ASSUME NEW t \in Threads, Write(t) PROVE TypeOK'
  <2>1. arg[t] \in Messages
    BY <1>7 DEF Write, CallInv
  <2>2. QED
    BY <1>7, <1>w, <1>e, <2>1 DEF Write
<1>8. ASSUME NEW t \in Threads, BeginReceive(t) PROVE TypeOK'
  BY <1>8 DEF BeginReceive
<1>9. ASSUME NEW t \in Threads, LockRead(t) PROVE TypeOK'
  BY <1>9 DEF LockRead
<1>10. ASSUME NEW t \in Threads, Read(t) PROVE TypeOK'
  BY <1>10, <1>r, <1>e DEF Read
<1>11. ASSUME NEW m \in Messages, ClientSend(m) PROVE TypeOK'
  BY <1>11 DEF ClientSend
<1>12. CASE ClientWrite
  BY <1>12, <1>w, <1>e DEF ClientWrite
<1>13. CASE WriteRequest
  <2>1. /\ frames' \in [Ends -> Seq(Messages \cup Codes)]
        /\ sent' \in [Ends -> Seq(Messages)]
    <3>1. sending \in Messages
      BY <1>13 DEF WriteRequest
    <3>2. QED
      BY <1>13, <1>w, <1>e, <3>1 DEF WriteRequest
  <2>2. close' \in [Ends -> Codes \cup {"none"}]
    <3>1. CASE UNCHANGED close
      BY <3>1
    <3>2. CASE ClientGivesUp
      BY <3>2, <1>e DEF ClientGivesUp
    <3>3. QED
      BY <1>13, <3>1, <3>2 DEF WriteRequest
  <2>3. QED
    BY <1>13, <2>1, <2>2 DEF WriteRequest
<1>14. CASE ClientReceive
  BY <1>14 DEF ClientReceive
<1>15. CASE ClientRead
  BY <1>15, <1>r, <1>e DEF ClientRead
<1>16. CASE Cancel
  BY <1>16 DEF Cancel
<1>17. CASE Close
  BY <1>17, <1>e DEF Close
<1>18. ASSUME NEW e \in Ends, SendCloseFrame(e) PROVE TypeOK'
  <2>1. Append(frames[e], close[e]) \in Seq(Messages \cup Codes)
    BY <1>18 DEF SendCloseFrame
  <2>2. QED
    BY <1>18, <2>1 DEF SendCloseFrame
<1>19. ASSUME NEW e \in Ends, CloseEnds(e) PROVE TypeOK'
  BY <1>19 DEF CloseEnds
<1>20. CASE LoseConnection
  BY <1>20 DEF LoseConnection
<1>21. CASE UNCHANGED vars
  BY <1>21 DEF vars
<1>22. QED
  BY <1>1, <1>2, <1>3, <1>4, <1>5, <1>6, <1>7, <1>8, <1>9, <1>10, <1>11, <1>12,
     <1>13, <1>14, <1>15, <1>16, <1>17, <1>18, <1>19, <1>20, <1>21 DEF Next

-----------------------------------------------------------------------------
(* The calls *)

LEMMA AppendNotEmpty == \A s \in Seq(Messages), m \in Messages : Append(s, m) # <<>>
OBVIOUS

LEMMA CallStep == TypeOK /\ CallInv /\ [Next]_vars => CallInv'
<1> SUFFICES ASSUME TypeOK, CallInv, [Next]_vars PROVE CallInv'
  OBVIOUS
<1>e. "server" \in Ends /\ "client" \in Ends /\ "server" # "client"
  BY DEF Ends
<1> USE DEF TypeOK, CallInv, HasStream, conn, threads, client, Goto
<1>1. CASE ReadRequest
  <2>1. CASE CloseWith("failed", "internal")
    BY <1>1, <1>e, <2>1 DEF ReadRequest, CloseWith
  <2>2. CASE handler' = "serving" /\ UNCHANGED close
    BY <1>1, <2>2 DEF ReadRequest
  <2>3. QED
    BY <1>1, <2>1, <2>2 DEF ReadRequest
<1>2. CASE RequestFails
  BY <1>2, <1>e DEF RequestFails, CloseWith
<1>3. CASE RequestExpires
  BY <1>3, <1>e DEF RequestExpires, CloseWith
<1>4. CASE HandlerReturn
  <2>1. CASE CloseWith("succeeded", "normal")
    BY <1>4, <1>e, <2>1 DEF HandlerReturn, CloseWith, Idle
  <2>2. CASE CloseWith("failed", "internal")
    BY <1>4, <1>e, <2>2 DEF HandlerReturn, CloseWith, Idle
  <2>3. QED
    BY <1>4, <2>1, <2>2 DEF HandlerReturn
<1>5. ASSUME NEW t \in Threads, NEW m \in Messages, BeginSend(t, m) PROVE CallInv'
  BY <1>5 DEF BeginSend
<1>6. ASSUME NEW t \in Threads, LockWrite(t) PROVE CallInv'
  BY <1>6 DEF LockWrite
<1>7. ASSUME NEW t \in Threads, Write(t) PROVE CallInv'
  <2>1. sent'["client"] = sent["client"]
    BY <1>7, <1>e DEF Write, WriteFrame, WriteIsLost
  <2>2. QED
    BY <1>7, <2>1 DEF Write
<1>8. ASSUME NEW t \in Threads, BeginReceive(t) PROVE CallInv'
  BY <1>8 DEF BeginReceive
<1>9. ASSUME NEW t \in Threads, LockRead(t) PROVE CallInv'
  BY <1>9 DEF LockRead
<1>10. ASSUME NEW t \in Threads, Read(t) PROVE CallInv'
  BY <1>10 DEF Read
<1>11. ASSUME NEW m \in Messages, ClientSend(m) PROVE CallInv'
  BY <1>11 DEF ClientSend
<1>12. CASE ClientWrite
  BY <1>12 DEF ClientWrite
<1>13. CASE WriteRequest
  <2>1. /\ kind = "server" /\ sending # None /\ sending' = None
        /\ receiving = "idle" /\ close["client"] = "none"
    BY <1>13 DEF WriteRequest
  <2>2. CASE WriteFrame("client", sending) /\ UNCHANGED close
    <3>1. sent'["client"] = Append(sent["client"], sending)
      BY <1>e, <2>2 DEF WriteFrame
    <3>2. sent["client"] \in Seq(Messages) /\ sending \in Messages
      BY <1>e, <2>1
    <3>3. sent'["client"] # <<>>
      BY <3>1, <3>2, AppendNotEmpty
    <3>4. UNCHANGED <<kind, handler, pc, arg, receiving, close, told, got>>
      BY <1>13, <2>2 DEF WriteRequest
    <3>5. QED
      BY <2>1, <3>3, <3>4
  <2>3. CASE ClientGivesUp
    <3>1. close'["client"] = "internal" /\ close'["server"] = close["server"]
      BY <1>e, <2>3 DEF ClientGivesUp
    <3>2. QED
      BY <1>13, <2>1, <3>1 DEF WriteRequest
  <2>4. QED
    BY <1>13, <2>2, <2>3 DEF WriteRequest
<1>14. CASE ClientReceive
  BY <1>14 DEF ClientReceive
<1>15. CASE ClientRead
  <2>1. told'["server"] = told["server"] /\ got'["server"] = got["server"]
    BY <1>15, <1>e DEF ClientRead, ReadMessage, ReadEnds
  <2>2. QED
    BY <1>15, <2>1 DEF ClientRead
<1>16. CASE Cancel
  BY <1>16 DEF Cancel
<1>17. CASE Close
  BY <1>17, <1>e DEF Close
<1>18. ASSUME NEW e \in Ends, SendCloseFrame(e) PROVE CallInv'
  BY <1>18 DEF SendCloseFrame
<1>19. ASSUME NEW e \in Ends, CloseEnds(e) PROVE CallInv'
  BY <1>19 DEF CloseEnds
<1>20. CASE LoseConnection
  BY <1>20 DEF LoseConnection
<1>21. CASE UNCHANGED vars
  BY <1>21 DEF vars
<1>22. QED
  BY <1>1, <1>2, <1>3, <1>4, <1>5, <1>6, <1>7, <1>8, <1>9, <1>10, <1>11, <1>12,
     <1>13, <1>14, <1>15, <1>16, <1>17, <1>18, <1>19, <1>20, <1>21 DEF Next

-----------------------------------------------------------------------------
(* The wire *)

WireTypes == ConnTypes /\ close \in [Ends -> Codes \cup {"none"}]
WireInvs  == \A e \in Ends : WireInv(e)

\* No end changes the code it closes with.
CloseKept == \A e \in Ends : close[e] # "none" => close'[e] = close[e]

LEMMA AppendFacts ==
  ASSUME NEW S, NEW s \in Seq(S), NEW x \in S
  PROVE  /\ Append(s, x) \in Seq(S)
         /\ Len(s) \in Nat
         /\ Len(Append(s, x)) = Len(s) + 1
         /\ Append(s, x)[Len(s) + 1] = x
         /\ \A i \in 1..Len(s) : Append(s, x)[i] = s[i]
OBVIOUS

LEMMA TailFacts ==
  ASSUME NEW S, NEW s \in Seq(S), s # <<>>
  PROVE  /\ Len(s) \in Nat /\ Len(s) >= 1
         /\ Head(s) = s[1] /\ Head(s) \in S
         /\ Tail(s) \in Seq(S)
         /\ Len(Tail(s)) = Len(s) - 1
         /\ \A i \in 1..(Len(s) - 1) : i + 1 \in 1..Len(s) /\ Tail(s)[i] = s[i + 1]
OBVIOUS

\* Steps that move no frame: an end may drop the connection, or be told that
\* it is lost.
LEMMA QuietStep ==
  ASSUME WireTypes, WireInvs, CloseKept, UNCHANGED <<frames, sent, got>>,
         \A e \in Ends : end'[e] \in {end[e], "closed"},
         \A e \in Ends : told'[e] = told[e] \/ (told'[e] = "lost" /\ end'[e] = "closed")
  PROVE  WireInvs'
<1> SUFFICES ASSUME NEW d \in Ends PROVE WireInv(d)'
  BY DEF WireInvs
<1>1. WireInv(d) /\ Peer(d) \in Ends
  BY PeerFacts DEF WireInvs
<1>2. end'[d] = "open" => end[d] = "open"
  OBVIOUS
<1>3. told'[Peer(d)] \in Codes \cup {"answered"} => told'[Peer(d)] = told[Peer(d)]
  BY <1>1 DEF Codes
<1>4. \A x \in Ends : close[x] \in Codes => close'[x] = close[x]
  BY DEF CloseKept, Codes
<1>5. ASSUME NEW i \in 1..Len(frames[d])
      PROVE  \/ /\ frames[d][i] \in Messages
                /\ Len(got[Peer(d)]) + i <= Len(sent[d])
                /\ frames[d][i] = sent[d][Len(got[Peer(d)]) + i]
             \/ /\ i = Len(frames[d])
                /\ frames[d][i] \in Codes
                /\ frames[d][i] \in {close'[d], close'[Peer(d)]}
                /\ Len(got[Peer(d)]) + Len(frames[d]) = Len(sent[d]) + 1
                /\ end'[d] # "open"
  BY <1>1, <1>2, <1>4 DEF WireInv
<1>6. told'[Peer(d)] # "no" => end'[Peer(d)] = "closed"
  BY <1>1 DEF WireInv
<1>7. /\ told'[Peer(d)] \in Codes => told'[Peer(d)] = close'[d]
      /\ told'[Peer(d)] \in Codes \cup {"answered"} =>
           Len(got[Peer(d)]) = Len(sent[d]) /\ end'[d] # "open"
  BY <1>1, <1>2, <1>3, <1>4 DEF WireInv
<1>8. QED
  BY <1>1, <1>2, <1>5, <1>6, <1>7 DEF WireInv

LEMMA WriteStep ==
  ASSUME WireTypes, WireInvs, NEW e \in Ends, NEW m \in Messages, WriteFrame(e, m),
         UNCHANGED <<close, end, told, got>>
  PROVE  WireInvs'
<1> SUFFICES ASSUME NEW d \in Ends PROVE WireInv(d)'
  BY DEF WireInvs
<1>1. WireInv(d) /\ Peer(d) \in Ends
  BY PeerFacts DEF WireInvs
<1>2. CASE d # e
  <2>1. frames'[d] = frames[d] /\ sent'[d] = sent[d]
    BY <1>2 DEF WireTypes, ConnTypes, WriteFrame
  <2>2. QED
    BY <1>1, <2>1 DEF WireInv
<1>3. CASE d = e
  <2> DEFINE p == Peer(e)
             n == Len(got[p])
             k == Len(frames[e])
             s == Len(sent[e])
  <2>1. /\ frames[e] \in Seq(Messages \cup Codes)
        /\ sent[e] \in Seq(Messages)
        /\ n \in Nat /\ k \in Nat /\ s \in Nat
        /\ frames'[e] = Append(frames[e], m)
        /\ sent'[e] = Append(sent[e], m)
        /\ end[e] = "open"
    BY <1>1, <1>3 DEF WireTypes, ConnTypes, WriteFrame, Writable
  <2>a. /\ Len(frames'[e]) = k + 1
        /\ frames'[e][k + 1] = m
        /\ \A i \in 1..k : frames'[e][i] = frames[e][i]
    BY <2>1, AppendFacts
  <2>b. /\ Len(sent'[e]) = s + 1
        /\ sent'[e][s + 1] = m
        /\ \A i \in 1..s : sent'[e][i] = sent[e][i]
    BY <2>1, AppendFacts
  <2>2. n + k = s /\ told[p] \notin Codes \cup {"answered"}
    BY <1>1, <1>3, <2>1 DEF WireInv
  <2>d. \A i \in 1..k :
          frames[e][i] \in Messages /\ n + i <= s /\ frames[e][i] = sent[e][n + i]
    BY <1>1, <1>3, <2>1 DEF WireInv
  <2>3. \A i \in 1..n : i <= Len(sent'[e]) /\ got[p][i] = sent'[e][i]
    BY <1>1, <1>3, <2>1, <2>2, <2>b DEF WireInv
  <2> HIDE DEF n, k, s
  <2>4. ASSUME NEW i \in 1..(k + 1)
        PROVE  /\ frames'[e][i] \in Messages
               /\ n + i <= Len(sent'[e])
               /\ frames'[e][i] = sent'[e][n + i]
    <3>1. CASE i = k + 1
      <4>1. n + i = s + 1
        BY <2>1, <2>2, <3>1
      <4>2. QED
        BY <2>1, <2>2, <2>a, <2>b, <3>1, <4>1
    <3>2. CASE i # k + 1
      <4>1. i \in 1..k
        BY <2>1, <3>2
      <4>2. /\ frames[e][i] \in Messages
            /\ n + i <= s
            /\ frames[e][i] = sent[e][n + i]
        BY <2>d, <4>1
      <4>3. QED
        <5>1. n + i \in 1..s
          BY <2>1, <4>1, <4>2
        <5>2. QED
          BY <2>1, <2>a, <2>b, <4>1, <4>2, <5>1
    <3>3. QED
      BY <3>1, <3>2
  <2>5. Len(frames'[e]) = k + 1 /\ n + Len(frames'[e]) = Len(sent'[e])
    BY <2>1, <2>2, <2>a, <2>b
  <2> USE DEF n, k, s
  <2>6. told[p] # "no" => end[p] = "closed"
    BY <1>1, <1>3 DEF WireInv
  <2>7. QED
    BY <1>3, <2>2, <2>3, <2>4, <2>5, <2>6 DEF WireInv
<1>4. QED
  BY <1>2, <1>3

LEMMA ReadMessageStep ==
  ASSUME WireTypes, WireInvs, CloseKept, NEW e \in Ends, ReadMessage(e), UNCHANGED sent
  PROVE  WireInvs'
<1> SUFFICES ASSUME NEW d \in Ends PROVE WireInv(d)'
  BY DEF WireInvs
<1>1. /\ WireInv(d) /\ Peer(d) \in Ends
      /\ Peer(e) \in Ends /\ Peer(e) # e /\ Peer(Peer(e)) = e
      /\ Peer(d) # d /\ Peer(Peer(d)) = d
  BY PeerFacts DEF WireInvs
<1>2. \A x \in Ends : close[x] \in Codes => close'[x] = close[x]
  BY DEF CloseKept, Codes
<1>3. UNCHANGED <<told, end>>
  BY DEF ReadMessage
<1>4. CASE d # Peer(e)
  <2>1. Peer(d) # e
    BY <1>1, <1>4
  <2>2. frames'[d] = frames[d] /\ got'[Peer(d)] = got[Peer(d)]
    BY <1>1, <1>4, <2>1 DEF WireTypes, ConnTypes, ReadMessage
  <2>3. QED
    BY <1>1, <1>2, <1>3, <2>2 DEF WireInv
<1>5. CASE d = Peer(e)
  <2> DEFINE n == Len(got[e])
             k == Len(frames[d])
             s == Len(sent[d])
  <2>1. /\ frames[d] \in Seq(Messages \cup Codes) /\ frames[d] # <<>>
        /\ sent[d] \in Seq(Messages)
        /\ got[e] \in Seq(Messages)
        /\ s \in Nat
        /\ Head(frames[d]) \in Messages
        /\ frames'[d] = Tail(frames[d])
        /\ got'[e] = Append(got[e], Head(frames[d]))
        /\ Peer(d) = e
    BY <1>1, <1>5 DEF WireTypes, ConnTypes, ReadMessage
  <2>a. /\ k \in Nat /\ k >= 1 /\ Len(frames'[d]) = k - 1
        /\ frames[d][1] = Head(frames[d])
        /\ \A i \in 1..(k - 1) : i + 1 \in 1..k /\ frames'[d][i] = frames[d][i + 1]
    BY <2>1, TailFacts
  <2>b. /\ n \in Nat /\ Len(got'[e]) = n + 1
        /\ got'[e][n + 1] = Head(frames[d])
        /\ \A i \in 1..n : got'[e][i] = got[e][i]
    BY <2>1, AppendFacts
  <2>c. /\ \A i \in 1..n : i <= s /\ got[e][i] = sent[d][i]
        /\ \A i \in 1..k :
             \/ /\ frames[d][i] \in Messages
                /\ n + i <= s
                /\ frames[d][i] = sent[d][n + i]
             \/ /\ i = k
                /\ frames[d][i] \in Codes
                /\ frames[d][i] \in {close[d], close[e]}
                /\ n + k = s + 1
                /\ end[d] # "open"
        /\ end[d] = "open" => n + k = s
    BY <1>1, <2>1 DEF WireInv
  <2> HIDE DEF n, k, s
  <2>2. n + 1 <= s /\ Head(frames[d]) = sent[d][n + 1]
    <3>1. 1 \in 1..k /\ frames[d][1] \in Messages /\ frames[d][1] \notin Codes
      BY <2>1, <2>a
    <3>2. QED
      BY <2>1, <2>a, <2>c, <3>1
  <2>4. \A i \in 1..(n + 1) : i <= s /\ got'[e][i] = sent[d][i]
    <3>1. SUFFICES ASSUME NEW i \in 1..(n + 1)
                   PROVE  i <= s /\ got'[e][i] = sent[d][i]
      OBVIOUS
    <3>2. CASE i = n + 1
      BY <2>2, <2>b, <3>2
    <3>3. CASE i # n + 1
      <4>1. i \in 1..n
        BY <2>b, <3>3
      <4>2. QED
        BY <2>b, <2>c, <4>1
    <3>4. QED
      BY <3>2, <3>3
  <2>5. ASSUME NEW i \in 1..(k - 1)
        PROVE  \/ /\ frames'[d][i] \in Messages
                  /\ (n + 1) + i <= s
                  /\ frames'[d][i] = sent[d][(n + 1) + i]
               \/ /\ i = k - 1
                  /\ frames'[d][i] \in Codes
                  /\ frames'[d][i] \in {close'[d], close'[e]}
                  /\ (n + 1) + (k - 1) = s + 1
                  /\ end[d] # "open"
    <3>a. i + 1 \in 1..k /\ frames'[d][i] = frames[d][i + 1]
      BY <2>a
    <3>b. n + (i + 1) = (n + 1) + i /\ i \in Nat
      BY <2>a, <2>b
    <3>1. i + 1 \in 1..k /\ frames'[d][i] = frames[d][i + 1] /\ n + (i + 1) = (n + 1) + i
      BY <3>a, <3>b
    <3>2. CASE /\ frames[d][i + 1] \in Messages
               /\ n + (i + 1) <= s
               /\ frames[d][i + 1] = sent[d][n + (i + 1)]
      BY <3>1, <3>2
    <3>3. CASE /\ i + 1 = k
               /\ frames[d][i + 1] \in Codes
               /\ frames[d][i + 1] \in {close[d], close[e]}
               /\ n + k = s + 1
               /\ end[d] # "open"
      BY <1>2, <2>1, <2>a, <2>b, <3>1, <3>3
    <3>4. QED
      BY <2>c, <3>1, <3>2, <3>3
  <2>6. end[d] = "open" => (n + 1) + (k - 1) = s
    BY <2>1, <2>a, <2>b, <2>c
  <2> USE DEF n, k, s
  <2>7. told[e] = "no"
    BY <1>1, <2>1 DEF WireInv, ReadMessage
  <2>8. QED
    BY <1>3, <2>1, <2>a, <2>b, <2>4, <2>5, <2>6, <2>7 DEF WireInv, Codes
<1>6. QED
  BY <1>4, <1>5

\* Tail is shorter than what it is the tail of.
LEMMA TailDiffers ==
  ASSUME NEW S, NEW s \in Seq(S), s # <<>>
  PROVE  Tail(s) # s
<1>1. Len(s) \in Nat /\ Len(Tail(s)) = Len(s) - 1
  BY TailFacts
<1>2. \A n \in Nat : n - 1 # n
  OBVIOUS
<1>3. QED
  BY <1>1, <1>2

LEMMA ReadLostStep ==
  ASSUME WireTypes, WireInvs, CloseKept, NEW e \in Ends, ReadEnds(e), UNCHANGED sent,
         UNCHANGED frames, told' = [told EXCEPT ![e] = IF @ = "no" THEN "lost" ELSE @]
  PROVE  WireInvs'
<1>1. end'[e] = "closed" /\ \A x \in Ends : end'[x] \in {end[x], "closed"}
  BY DEF ReadEnds, WireTypes, ConnTypes
<1>2. ASSUME NEW x \in Ends
      PROVE  told'[x] = told[x] \/ (told'[x] = "lost" /\ end'[x] = "closed")
  <2>1. CASE x = e
    BY <1>1, <2>1 DEF WireTypes, ConnTypes
  <2>2. CASE x # e
    <3>1. told'[x] = told[x]
      BY <2>2 DEF WireTypes, ConnTypes
    <3>2. QED
      BY <3>1
  <2>3. QED
    BY <2>1, <2>2
<1>3. UNCHANGED got
  BY DEF ReadEnds
<1>4. QED
  BY <1>1, <1>2, <1>3, QuietStep

LEMMA ReadEndsStep ==
  ASSUME WireTypes, WireInvs, CloseKept, NEW e \in Ends, ReadEnds(e), UNCHANGED sent
  PROVE  WireInvs'
<1> SUFFICES ASSUME TakesCode(e) PROVE WireInvs'
  BY ReadEndsHow, ReadLostStep
<1> DEFINE p == Peer(e)
<1>1. /\ p \in Ends /\ p # e /\ Peer(p) = e
      /\ WireInv(e) /\ WireInv(p)
  BY PeerFacts DEF WireInvs
<1>2. PICK c \in Codes : c = Head(frames[p])
  BY DEF TakesCode
<1>3. /\ frames[p] \in Seq(Messages \cup Codes) /\ frames[p] # <<>>
      /\ frames'[p] = Tail(frames[p])
      /\ frames'[e] = IF CanAnswer(e) THEN Append(frames[e], c) ELSE frames[e]
      /\ told'[e] = IF told[e] = "no" THEN Report(e, c) ELSE told[e]
      /\ told'[p] = told[p]
  BY <1>1, <1>2 DEF TakesCode, WireTypes, ConnTypes
<1>4. /\ end'[e] = "closed" /\ end'[p] = end[p]
      /\ UNCHANGED got
  BY <1>1 DEF ReadEnds, WireTypes, ConnTypes
<1>5. /\ Len(frames[p]) \in Nat /\ Len(frames[p]) >= 1
      /\ Len(frames'[p]) = Len(frames[p]) - 1
      /\ frames[p][1] = c
  BY <1>2, <1>3, TailFacts
<1>6. Len(got[e]) \in Nat /\ Len(sent[p]) \in Nat
  BY <1>1 DEF WireTypes, ConnTypes
<1>7. frames[p][1] \notin Messages /\ 1 \in 1..Len(frames[p])
  BY <1>2, <1>5
<1>8. /\ Len(frames[p]) = 1
      /\ c \in {close[p], close[e]}
      /\ Len(got[e]) + Len(frames[p]) = Len(sent[p]) + 1
      /\ end[p] # "open"
  BY <1>1, <1>5, <1>7 DEF WireInv
<1>9. Len(frames'[p]) = 0 /\ Len(got[e]) = Len(sent[p])
  BY <1>5, <1>6, <1>8
<1>10. \A x \in Ends : close[x] \in Codes => close'[x] = close[x]
  BY DEF CloseKept, Codes
<1>11. c \in {close'[p], close'[e]}
  BY <1>1, <1>8, <1>10
<1>12. WireInv(p)'
  <2>1. \A i \in 1..Len(got'[e]) : i <= Len(sent'[p]) /\ got'[e][i] = sent'[p][i]
    BY <1>1, <1>4 DEF WireInv
  <2>2. 1..Len(frames'[p]) = {}
    BY <1>9
  <2>3. told'[e] \in Codes => told'[e] = close'[p]
    <3>1. CASE told[e] = "no"
      <4>1. told'[e] \in Codes => told'[e] = c /\ c # close[e]
        BY <1>3, <3>1 DEF Report, Codes
      <4>2. QED
        BY <1>1, <1>8, <1>10, <4>1
    <3>2. CASE told[e] # "no"
      BY <1>1, <1>3, <1>10, <3>2 DEF WireInv
    <3>3. QED
      BY <3>1, <3>2
  <2>4. QED
    BY <1>1, <1>4, <1>8, <1>9, <2>1, <2>2, <2>3 DEF WireInv
<1>13. CASE ~CanAnswer(e)
  <2>1. WireInv(e)'
    BY <1>1, <1>3, <1>4, <1>10, <1>13 DEF WireInv
  <2>2. QED
    BY <1>1, <1>12, <2>1 DEF WireInvs, Ends
<1>14. CASE CanAnswer(e)
  <2> DEFINE n == Len(got[p])
             k == Len(frames[e])
             s == Len(sent[e])
  <2>1. n \in Nat /\ k \in Nat /\ s \in Nat /\ frames[e] \in Seq(Messages \cup Codes)
    BY <1>1 DEF WireTypes, ConnTypes
  <2>2. /\ Len(frames'[e]) = k + 1
        /\ frames'[e][k + 1] = c
        /\ \A i \in 1..k : frames'[e][i] = frames[e][i]
    <3>1. frames'[e] = Append(frames[e], c) /\ c \in Messages \cup Codes
      BY <1>3, <1>14
    <3>2. QED
      BY <2>1, <3>1, AppendFacts
  <2>3. end[e] = "open"
    BY <1>14 DEF CanAnswer, Writable
  <2>4. /\ n + k = s
        /\ told[p] \notin Codes \cup {"answered"}
        /\ \A i \in 1..k :
             frames[e][i] \in Messages /\ n + i <= s /\ frames[e][i] = sent[e][n + i]
        /\ \A i \in 1..n : i <= s /\ got[p][i] = sent[e][i]
        /\ told[p] # "no" => end[p] = "closed"
    BY <1>1, <2>3 DEF WireInv
  <2> HIDE DEF n, k, s
  <2>5. ASSUME NEW i \in 1..(k + 1)
        PROVE  \/ /\ frames'[e][i] \in Messages
                  /\ n + i <= s
                  /\ frames'[e][i] = sent[e][n + i]
               \/ /\ i = k + 1
                  /\ frames'[e][i] \in Codes
                  /\ frames'[e][i] \in {close'[e], close'[p]}
                  /\ n + (k + 1) = s + 1
    <3>1. CASE i = k + 1
      BY <1>11, <2>1, <2>2, <2>4, <3>1
    <3>2. CASE i # k + 1
      <4>1. i \in 1..k
        BY <2>1, <3>2
      <4>2. QED
        BY <2>2, <2>4, <4>1
    <3>3. QED
      BY <3>1, <3>2
  <2> USE DEF n, k, s
  <2>6. WireInv(e)'
    BY <1>3, <1>4, <2>2, <2>4, <2>5 DEF WireInv
  <2>7. QED
    BY <1>1, <1>12, <2>6 DEF WireInvs, Ends
<1>15. QED
  BY <1>13, <1>14

LEMMA CloseFrameStep ==
  ASSUME WireTypes, WireInvs, NEW e \in Ends, SendCloseFrame(e)
  PROVE  WireInvs'
<1> SUFFICES ASSUME NEW d \in Ends PROVE WireInv(d)'
  BY DEF WireInvs
<1>1. WireInv(d) /\ WireInv(e) /\ Peer(d) \in Ends
  BY PeerFacts DEF WireInvs
<1>2. /\ UNCHANGED <<sent, got, told, close>>
      /\ end[e] = "open" /\ end'[e] = "closing"
      /\ close[e] \in Codes
      /\ frames'[e] = Append(frames[e], close[e])
      /\ frames[e] \in Seq(Messages \cup Codes)
  BY DEF SendCloseFrame, Writable, WireTypes, ConnTypes
<1>3. told[e] = "no"
  <2>1. WireInv(Peer(e)) /\ Peer(Peer(e)) = e
    BY PeerFacts DEF WireInvs
  <2>2. QED
    BY <1>2, <2>1 DEF WireInv
<1>4. CASE d # e
  <2>1. frames'[d] = frames[d] /\ end'[d] = end[d]
    BY <1>4 DEF SendCloseFrame, WireTypes, ConnTypes
  <2>2. told[Peer(d)] # "no" => end'[Peer(d)] = "closed"
    BY <1>1, <1>2, <1>3 DEF WireInv, SendCloseFrame, WireTypes, ConnTypes
  <2>3. QED
    BY <1>1, <1>2, <2>1, <2>2 DEF WireInv
<1>5. CASE d = e
  <2> DEFINE n == Len(got[Peer(e)])
             k == Len(frames[e])
             s == Len(sent[e])
  <2>1. n \in Nat /\ k \in Nat /\ s \in Nat
    BY <1>1, <1>2, <1>5 DEF WireTypes, ConnTypes
  <2>2. /\ Len(frames'[e]) = k + 1
        /\ frames'[e][k + 1] = close[e]
        /\ \A i \in 1..k : frames'[e][i] = frames[e][i]
    BY <1>2, AppendFacts
  <2>3. /\ n + k = s
        /\ told[Peer(e)] \notin Codes \cup {"answered"}
        /\ \A i \in 1..k :
             frames[e][i] \in Messages /\ n + i <= s /\ frames[e][i] = sent[e][n + i]
    BY <1>1, <1>2 DEF WireInv
  <2> HIDE DEF n, k, s
  <2>4. ASSUME NEW i \in 1..(k + 1)
        PROVE  \/ /\ frames'[e][i] \in Messages
                  /\ n + i <= s
                  /\ frames'[e][i] = sent[e][n + i]
               \/ /\ i = k + 1
                  /\ frames'[e][i] \in Codes
                  /\ frames'[e][i] \in {close[e], close[Peer(e)]}
                  /\ n + (k + 1) = s + 1
                  /\ end'[e] # "open"
    <3>1. CASE i = k + 1
      <4>1. n + (k + 1) = s + 1
        BY <2>1, <2>3
      <4>2. frames'[e][i] = close[e]
        BY <2>2, <3>1
      <4>3. QED
        BY <1>2, <3>1, <4>1, <4>2
    <3>2. CASE i # k + 1
      <4>1. i \in 1..k
        BY <2>1, <3>2
      <4>2. QED
        BY <2>2, <2>3, <4>1
    <3>3. QED
      BY <3>1, <3>2
  <2> USE DEF n, k, s
  <2>5. /\ \A i \in 1..n : i <= Len(sent[e]) /\ got[Peer(e)][i] = sent[e][i]
        /\ told[Peer(e)] # "no" => end[Peer(e)] = "closed"
    BY <1>1, <1>5 DEF WireInv
  <2>6. end'[Peer(e)] = end[Peer(e)]
    BY <1>1, <1>5, PeerFacts DEF SendCloseFrame, WireTypes, ConnTypes
  <2>7. QED
    BY <1>2, <1>5, <2>2, <2>3, <2>4, <2>5, <2>6 DEF WireInv
<1>6. QED
  BY <1>4, <1>5

StreamInv == TypeOK /\ CallInv /\ WireInvs /\ NoAnswerInv

LEMMA StreamInit == Init => StreamInv
<1> SUFFICES ASSUME Init PROVE StreamInv
  OBVIOUS
<1>1. TypeOK
  <2>1. <<>> \in Seq(Messages) /\ <<>> \in Seq(Messages \cup Codes)
    OBVIOUS
  <2>2. QED
    BY <2>1 DEF Init, TypeOK
<1>2. CallInv
  BY DEF Init, CallInv, HasStream, Ends
<1>3. WireInvs
  BY PeerFacts DEF Init, WireInvs, WireInv, Codes
<1>4. NoAnswerInv
  BY DEF Init, NoAnswerInv, Ends
<1>5. QED
  BY <1>1, <1>2, <1>3, <1>4 DEF StreamInv

\* What every step does to the connection, as one of the lemmas above sees it.
LEMMA WireStep == StreamInv /\ [Next]_vars => WireInvs'
<1> SUFFICES ASSUME StreamInv, [Next]_vars PROVE WireInvs'
  OBVIOUS
<1>t. WireTypes /\ WireInvs /\ CallInv
  BY DEF StreamInv, TypeOK, WireTypes, ConnTypes
<1>e. /\ "server" \in Ends /\ "client" \in Ends
      /\ \A x \in Ends : x = "server" \/ x = "client"
  BY DEF Ends
<1>k. ASSUME UNCHANGED close PROVE CloseKept
  BY <1>k DEF CloseKept
<1>s. ASSUME handler \in {"request", "serving"},
             NEW c \in Codes, close' = [close EXCEPT !["server"] = c]
      PROVE  CloseKept
  BY <1>s, <1>t, <1>e DEF CloseKept, CallInv, WireTypes, Codes
<1>d. ASSUME CloseKept, UNCHANGED <<frames, told, sent, got>>,
             \A x \in Ends : end'[x] \in {end[x], "closed"}
      PROVE  WireInvs'
  <2>1. \A x \in Ends : told'[x] = told[x]
    BY <1>d
  <2>2. QED
    BY <1>d, <1>t, <2>1, QuietStep
<1>q. ASSUME CloseKept, UNCHANGED <<frames, end, told, sent, got>> PROVE WireInvs'
  <2>1. \A x \in Ends : end'[x] \in {end[x], "closed"}
    BY <1>q
  <2>2. QED
    BY <1>q, <1>d, <2>1
<1> USE DEF conn, threads, client
<1>1. CASE ReadRequest
  <2>1. CloseKept
    BY <1>1, <1>k, <1>s DEF ReadRequest, CloseWith, Codes
  <2>2. QED
    BY <1>1, <1>t, <1>e, <2>1, ReadMessageStep DEF ReadRequest
<1>2. CASE RequestFails
  <2>1. CloseKept
    BY <1>2, <1>s DEF RequestFails, CloseWith, Codes
  <2>2. QED
    BY <1>2, <1>t, <1>e, <2>1, ReadEndsStep DEF RequestFails
<1>3. CASE RequestExpires
  <2>1. CloseKept
    BY <1>3, <1>s DEF RequestExpires, CloseWith, Codes
  <2>2. \A x \in Ends : end'[x] \in {end[x], "closed"}
    BY <1>3, <1>t DEF RequestExpires, WireTypes, ConnTypes
  <2>3. \A x \in Ends : told'[x] = told[x] \/ (told'[x] = "lost" /\ end'[x] = "closed")
    <3>1. SUFFICES ASSUME NEW x \in Ends
                   PROVE  told'[x] = told[x] \/ (told'[x] = "lost" /\ end'[x] = "closed")
      OBVIOUS
    <3>2. CASE x = "server"
      BY <1>3, <1>t, <3>2 DEF RequestExpires, WireTypes, ConnTypes
    <3>3. CASE x # "server"
      <4>1. told'[x] = told[x]
        BY <1>3, <1>t, <3>3 DEF RequestExpires, WireTypes, ConnTypes
      <4>2. QED
        BY <4>1
    <3>4. QED
      BY <3>2, <3>3
  <2>4. QED
    BY <1>3, <1>t, <2>1, <2>2, <2>3, QuietStep DEF RequestExpires
<1>4. CASE HandlerReturn
  <2>1. CloseKept
    BY <1>4, <1>s DEF HandlerReturn, CloseWith, Codes
  <2>2. QED
    BY <1>4, <1>q, <2>1 DEF HandlerReturn
<1>5. ASSUME NEW t \in Threads, NEW m \in Messages, BeginSend(t, m) PROVE WireInvs'
  BY <1>5, <1>k, <1>q DEF BeginSend
<1>6. ASSUME NEW t \in Threads, LockWrite(t) PROVE WireInvs'
  BY <1>6, <1>k, <1>q DEF LockWrite
<1>7. ASSUME NEW t \in Threads, Write(t) PROVE WireInvs'
  <2>1. arg[t] \in Messages
    BY <1>7, <1>t DEF Write, CallInv
  <2>2. CASE WriteFrame("server", arg[t])
    BY <1>7, <1>t, <1>e, <2>1, <2>2, WriteStep DEF Write
  <2>3. CASE WriteIsLost("server")
    BY <1>7, <1>k, <1>q, <2>3 DEF Write, WriteIsLost
  <2>4. QED
    BY <1>7, <2>2, <2>3 DEF Write
<1>8. ASSUME NEW t \in Threads, BeginReceive(t) PROVE WireInvs'
  BY <1>8, <1>k, <1>q DEF BeginReceive
<1>9. ASSUME NEW t \in Threads, LockRead(t) PROVE WireInvs'
  BY <1>9, <1>k, <1>q DEF LockRead
<1>10. ASSUME NEW t \in Threads, Read(t) PROVE WireInvs'
  BY <1>10, <1>t, <1>e, <1>k, ReadMessageStep, ReadEndsStep DEF Read
<1>11. ASSUME NEW m \in Messages, ClientSend(m) PROVE WireInvs'
  BY <1>11, <1>k, <1>q DEF ClientSend
<1>12. CASE ClientWrite
  <2>1. sending \in Messages
    BY <1>12 DEF ClientWrite, StreamInv, TypeOK
  <2>2. CASE WriteFrame("client", sending)
    BY <1>12, <1>t, <1>e, <2>1, <2>2, WriteStep DEF ClientWrite
  <2>3. CASE WriteIsLost("client")
    BY <1>12, <1>k, <1>q, <2>3 DEF ClientWrite, WriteIsLost
  <2>4. QED
    BY <1>12, <2>2, <2>3 DEF ClientWrite
<1>13. CASE WriteRequest
  <2>1. sending \in Messages
    BY <1>13 DEF WriteRequest, StreamInv, TypeOK
  <2>2. CASE WriteFrame("client", sending) /\ UNCHANGED close
    BY <1>13, <1>t, <1>e, <2>1, <2>2, WriteStep DEF WriteRequest
  <2>3. CASE ClientGivesUp /\ UNCHANGED <<frames, sent>>
    <3>1. CloseKept
      BY <1>13, <1>t, <1>e, <2>3 DEF WriteRequest, ClientGivesUp, CloseKept, CallInv, WireTypes
    <3>2. QED
      BY <1>13, <1>q, <2>3, <3>1 DEF WriteRequest
  <2>4. QED
    BY <1>13, <2>2, <2>3 DEF WriteRequest, WriteIsLost
<1>14. CASE ClientReceive
  BY <1>14, <1>k, <1>q DEF ClientReceive
<1>15. CASE ClientRead
  BY <1>15, <1>t, <1>e, <1>k, ReadMessageStep, ReadEndsStep DEF ClientRead
<1>16. CASE Cancel
  BY <1>16, <1>k, <1>q DEF Cancel
<1>17. CASE Close
  <2>1. CloseKept
    BY <1>17, <1>t, <1>e DEF Close, CloseKept, WireTypes
  <2>2. QED
    BY <1>17, <1>q, <2>1 DEF Close
<1>18. ASSUME NEW e \in Ends, SendCloseFrame(e) PROVE WireInvs'
  BY <1>18, <1>t, CloseFrameStep
<1>19. ASSUME NEW e \in Ends, CloseEnds(e) PROVE WireInvs'
  <2>1. CloseKept
    BY <1>19, <1>k DEF CloseEnds
  <2>2. \A x \in Ends : end'[x] \in {end[x], "closed"}
    BY <1>19, <1>t DEF CloseEnds, WireTypes, ConnTypes
  <2>3. QED
    BY <1>19, <1>d, <2>1, <2>2 DEF CloseEnds
<1>20. CASE LoseConnection
  BY <1>20, <1>k, <1>q DEF LoseConnection
<1>21. CASE UNCHANGED vars
  BY <1>21, <1>k, <1>q DEF vars
<1>22. QED
  BY <1>1, <1>2, <1>3, <1>4, <1>5, <1>6, <1>7, <1>8, <1>9, <1>10, <1>11, <1>12,
     <1>13, <1>14, <1>15, <1>16, <1>17, <1>18, <1>19, <1>20, <1>21 DEF Next

-----------------------------------------------------------------------------
(* A server-streaming call is answered with nothing but its verdict. *)

\* The codes among what the server has on the wire are its own.
OwnCodes == \A i \in DOMAIN frames["server"] :
              frames["server"][i] \in Codes => frames["server"][i] = close["server"]

\* A step that puts no code on the server's side of the wire keeps it so.
LEMMA OwnCodesKept ==
  ASSUME StreamInv, OwnCodes, [Next]_vars,
         close["server"] \in Codes => close'["server"] = close["server"],
         \/ UNCHANGED frames
         \/ \E m \in Messages : frames'["server"] = Append(frames["server"], m)
         \/ frames'["server"] = frames["server"]
         \/ frames["server"] # <<>> /\ frames'["server"] = Tail(frames["server"])
  PROVE  OwnCodes'
<1>1. frames["server"] \in Seq(Messages \cup Codes)
  BY DEF StreamInv, TypeOK, Ends
<1>2. CASE frames'["server"] = frames["server"]
  BY <1>2 DEF OwnCodes
<1>3. ASSUME NEW m \in Messages, frames'["server"] = Append(frames["server"], m)
      PROVE  OwnCodes'
  <2>1. m \notin Codes /\ m \in Messages \cup Codes
    OBVIOUS
  <2>2. /\ Len(frames["server"]) \in Nat
        /\ Len(frames'["server"]) = Len(frames["server"]) + 1
        /\ frames'["server"][Len(frames["server"]) + 1] = m
        /\ \A i \in 1..Len(frames["server"]) : frames'["server"][i] = frames["server"][i]
        /\ frames'["server"] \in Seq(Messages \cup Codes)
    BY <1>1, <1>3, <2>1, AppendFacts
  <2>3. ASSUME NEW i \in DOMAIN frames'["server"], frames'["server"][i] \in Codes
        PROVE  frames'["server"][i] = close'["server"]
    <3>1. i \in 1..Len(frames["server"])
      BY <2>1, <2>2, <2>3
    <3>2. QED
      BY <1>1, <2>2, <2>3, <3>1 DEF OwnCodes
  <2>4. QED
    BY <2>3 DEF OwnCodes
<1>4. CASE frames["server"] # <<>> /\ frames'["server"] = Tail(frames["server"])
  <2>1. /\ Len(frames["server"]) \in Nat
        /\ Len(frames'["server"]) = Len(frames["server"]) - 1
        /\ frames'["server"] \in Seq(Messages \cup Codes)
        /\ \A i \in 1..(Len(frames["server"]) - 1) :
             /\ i + 1 \in 1..Len(frames["server"])
             /\ frames'["server"][i] = frames["server"][i + 1]
    BY <1>1, <1>4, TailFacts
  <2>2. ASSUME NEW i \in DOMAIN frames'["server"], frames'["server"][i] \in Codes
        PROVE  frames'["server"][i] = close'["server"]
    <3>1. i \in 1..(Len(frames["server"]) - 1)
      BY <2>1
    <3>2. i + 1 \in DOMAIN frames["server"] /\ frames'["server"][i] = frames["server"][i + 1]
      BY <1>1, <2>1, <3>1
    <3>3. QED
      BY <2>2, <3>2 DEF OwnCodes
  <2>3. QED
    BY <2>2 DEF OwnCodes
<1>5. QED
  BY <1>2, <1>3, <1>4

\* A call that ends before its request was read ends with the client's 1011.
LEMMA RequestFailsInternally ==
  ASSUME StreamInv, handler = "request", TakesCode("server")
  PROVE  Head(frames["client"]) = "internal"
<1>1. /\ "server" \in Ends /\ "client" \in Ends
      /\ Peer("client") = "server" /\ Peer("server") = "client"
  BY DEF Ends, Peer
<1>2. PICK c \in Codes : c = Head(frames["client"])
  BY <1>1 DEF TakesCode
<1>3. /\ frames["client"] \in Seq(Messages \cup Codes) /\ frames["client"] # <<>>
      /\ close["server"] \in Codes \cup {"none"} /\ sent["client"] \in Seq(Messages)
  BY <1>1 DEF StreamInv, TypeOK, TakesCode
<1>4. /\ frames["client"][1] = c /\ 1 \in 1..Len(frames["client"])
      /\ Len(frames["client"]) \in Nat /\ Len(sent["client"]) \in Nat
  BY <1>2, <1>3, TailFacts
<1>5. c \notin Messages /\ WireInv("client") /\ got["server"] = <<>> /\ close["server"] = "none"
  BY <1>1, <1>2, <1>3 DEF StreamInv, WireInvs, CallInv, Codes
<1>6. /\ 1 = Len(frames["client"]) /\ c \in {close["client"], "none"}
      /\ Len(got["server"]) + Len(frames["client"]) = Len(sent["client"]) + 1
  BY <1>1, <1>4, <1>5 DEF WireInv
<1>7. Len(sent["client"]) = 0
  <2>1. Len(got["server"]) = 0
    BY <1>5
  <2>2. \A a, b, x \in Nat : a = 0 /\ b = 1 /\ a + b = x + 1 => x = 0
    OBVIOUS
  <2>3. QED
    BY <1>4, <1>6, <2>1, <2>2
<1>8. sent["client"] = <<>>
  BY <1>3, <1>7
<1>9. c # "normal"
  BY <1>6, <1>8 DEF StreamInv, CallInv
<1>10. QED
  BY <1>2, <1>9 DEF Codes

LEMMA NoAnswerStep == StreamInv /\ [Next]_vars => NoAnswerInv'
<1> SUFFICES ASSUME StreamInv, [Next]_vars, kind = "server"
             PROVE  OwnCodes' /\ (told'["client"] = "answered" => handler' = "succeeded")
  BY KindKept DEF NoAnswerInv, OwnCodes
<1>t. TypeOK /\ CallInv /\ OwnCodes /\ (told["client"] = "answered" => handler = "succeeded")
  BY DEF StreamInv, NoAnswerInv, OwnCodes
<1>e. /\ "server" \in Ends /\ "client" \in Ends /\ "server" # "client"
      /\ Peer("client") = "server" /\ Peer("server") = "client"
  BY DEF Ends, Peer
<1>n. handler \in {"request", "serving"} => close["server"] \notin Codes
  BY <1>t DEF CallInv, Codes
<1> DEFINE Kept == close["server"] \in Codes => close'["server"] = close["server"]
           Told == told'["client"] = told["client"]
                   /\ (handler' = handler \/ handler \in {"request", "serving"})
\* Steps that put no code on the server's side of the wire, and tell the
\* client nothing.
<1>q. ASSUME Kept, Told, frames'["server"] = frames["server"]
      PROVE  OwnCodes' /\ (told'["client"] = "answered" => handler' = "succeeded")
  <2>1. OwnCodes'
    BY <1>q, <1>t, OwnCodesKept
  <2>2. QED
    BY <1>q, <1>t, <2>1
<1>s. ASSUME UNCHANGED <<close, told, handler, frames>>
      PROVE  OwnCodes' /\ (told'["client"] = "answered" => handler' = "succeeded")
  BY <1>s, <1>q
<1> HIDE DEF Kept, Told
<1> USE DEF conn, threads, client
<1>1. CASE ReadRequest
  <2>1. Kept /\ Told
    BY <1>1, <1>n DEF ReadRequest, ReadMessage, Kept, Told
  <2>2. frames'["server"] = frames["server"]
    BY <1>1, <1>e, <1>t DEF ReadRequest, ReadMessage, TypeOK
  <2>3. QED
    BY <2>1, <2>2, <1>q
<1>2. CASE RequestFails
  <2>0. handler = "request" /\ ReadEnds("server") /\ CloseWith("failed", "internal")
    BY <1>2 DEF RequestFails
  <2>1. close'["server"] = "internal" /\ told'["client"] = told["client"]
    BY <1>e, <1>t, <2>0 DEF CloseWith, ReadEnds, TypeOK
  <2>2. Kept /\ Told
    BY <1>n, <2>0, <2>1 DEF Kept, Told
  <2>3. CASE UNCHANGED frames
    BY <2>2, <2>3, <1>q
  <2>4. CASE TakesCode("server")
    <3>1. frames'["server"] = frames["server"] \/ frames'["server"] = Append(frames["server"], "internal")
      BY <1>e, <1>t, <2>0, <2>4, RequestFailsInternally DEF TakesCode, TypeOK
    <3>2. CASE frames'["server"] = frames["server"]
      BY <2>2, <3>2, <1>q
    <3>3. CASE frames'["server"] = Append(frames["server"], "internal")
      <4>1. frames["server"] \in Seq(Messages \cup Codes) /\ "internal" \in Messages \cup Codes
        BY <1>e, <1>t DEF TypeOK, Codes
      <4>2. /\ Len(frames["server"]) \in Nat
            /\ Len(frames'["server"]) = Len(frames["server"]) + 1
            /\ frames'["server"] \in Seq(Messages \cup Codes)
            /\ frames'["server"][Len(frames["server"]) + 1] = "internal"
            /\ \A i \in 1..Len(frames["server"]) : frames'["server"][i] = frames["server"][i]
        BY <3>3, <4>1, AppendFacts
      <4>3. ASSUME NEW i \in DOMAIN frames'["server"], frames'["server"][i] \in Codes
            PROVE  frames'["server"][i] = close'["server"]
        <5>1. CASE i = Len(frames["server"]) + 1
          BY <2>1, <4>2, <5>1
        <5>2. CASE i \in 1..Len(frames["server"])
          <6>1. frames["server"][i] = close["server"]
            BY <1>t, <4>1, <4>2, <4>3, <5>2 DEF OwnCodes
          <6>2. QED
            BY <1>n, <2>0, <4>2, <4>3, <5>2, <6>1
        <5>3. QED
          BY <4>2, <5>1, <5>2
      <4>4. OwnCodes'
        BY <4>3 DEF OwnCodes
      <4>5. QED
        BY <1>t, <2>0, <2>1, <4>4 
    <3>4. QED
      BY <3>1, <3>2, <3>3
  <2>5. QED
    BY <2>0, <2>3, <2>4, ReadEndsHow
<1>3. CASE RequestExpires
  <2>1. Kept /\ Told /\ frames'["server"] = frames["server"]
    BY <1>3, <1>n, <1>t, <1>e DEF RequestExpires, TypeOK, Kept, Told
  <2>2. QED
    BY <2>1, <1>q
<1>4. CASE HandlerReturn
  <2>1. Kept /\ Told /\ frames'["server"] = frames["server"]
    BY <1>4, <1>n DEF HandlerReturn, Kept, Told
  <2>2. QED
    BY <2>1, <1>q
<1>5. ASSUME NEW t \in Threads, NEW m \in Messages, BeginSend(t, m)
      PROVE  OwnCodes' /\ (told'["client"] = "answered" => handler' = "succeeded")
  BY <1>5, <1>s DEF BeginSend
<1>6. ASSUME NEW t \in Threads, LockWrite(t) \/ BeginReceive(t) \/ LockRead(t)
      PROVE  OwnCodes' /\ (told'["client"] = "answered" => handler' = "succeeded")
  BY <1>6, <1>s DEF LockWrite, BeginReceive, LockRead
<1>7. ASSUME NEW t \in Threads, Write(t)
      PROVE  OwnCodes' /\ (told'["client"] = "answered" => handler' = "succeeded")
  <2>1. arg[t] \in Messages /\ UNCHANGED <<close, told, handler>>
    BY <1>7, <1>t DEF Write, CallInv
  <2>2. CASE WriteIsLost("server")
    BY <2>1, <2>2, <1>s DEF WriteIsLost
  <2>3. CASE WriteFrame("server", arg[t])
    <3>1. frames'["server"] = Append(frames["server"], arg[t])
      BY <1>e, <1>t, <2>3 DEF WriteFrame, TypeOK
    <3>2. OwnCodes'
      BY <1>t, <2>1, <3>1, OwnCodesKept
    <3>3. QED
      BY <1>t, <2>1, <3>2
  <2>4. QED
    BY <1>7, <2>2, <2>3 DEF Write
<1>8. ASSUME NEW t \in Threads, Read(t)
      PROVE  FALSE
  BY <1>8, <1>t DEF Read, CallInv
<1>9. ASSUME NEW m \in Messages, ClientSend(m)
      PROVE  FALSE
  BY <1>9 DEF ClientSend
<1>10. CASE ClientWrite
  BY <1>10 DEF ClientWrite
<1>11. CASE WriteRequest
  <2>1. UNCHANGED <<told, handler>> /\ close'["server"] = close["server"]
    BY <1>11, <1>e, <1>t DEF WriteRequest, ClientGivesUp, TypeOK
  <2>2. frames'["server"] = frames["server"]
    BY <1>11, <1>e, <1>t DEF WriteRequest, WriteFrame, WriteIsLost, TypeOK
  <2>3. QED
    BY <2>1, <2>2, <1>q DEF Kept, Told
<1>12. CASE ClientReceive \/ Cancel \/ LoseConnection \/ UNCHANGED vars
  BY <1>12, <1>s DEF ClientReceive, Cancel, LoseConnection, vars
<1>13. CASE ClientRead
  <2>1. UNCHANGED <<close, handler>> /\ receiving = "reading" /\ close["client"] # "internal"
    BY <1>13, <1>t DEF ClientRead, CallInv, HasStream
  <2>2. CASE ReadMessage("client")
    <3>1. /\ told' = told /\ frames["server"] # <<>>
          /\ frames'["server"] = Tail(frames["server"])
      BY <1>e, <1>t, <2>2 DEF ReadMessage, TypeOK
    <3>2. OwnCodes'
      BY <1>t, <2>1, <3>1, OwnCodesKept
    <3>3. QED
      BY <1>t, <2>1, <3>1, <3>2
  <2>3. CASE /\ UNCHANGED frames
             /\ told' = [told EXCEPT !["client"] = IF @ = "no" THEN "lost" ELSE @]
    <3>1. told'["client"] \in {told["client"], "lost"}
      BY <1>e, <1>t, <2>3 DEF TypeOK
    <3>2. OwnCodes'
      BY <1>t, <2>1, <2>3, OwnCodesKept
    <3>3. QED
      BY <1>t, <2>1, <3>1, <3>2
  <2>4. CASE TakesCode("client")
    <3>1. /\ frames["server"] # <<>> /\ Head(frames["server"]) \in Codes
          /\ frames'["server"] = Tail(frames["server"])
          /\ told'["client"] \in {told["client"], Report("client", Head(frames["server"]))}
      BY <1>e, <1>t, <2>4 DEF TakesCode, TypeOK
    <3>2. OwnCodes'
      BY <1>t, <2>1, <3>1, OwnCodesKept
    <3>3. Head(frames["server"]) = close["server"]
      <4>1. frames["server"] \in Seq(Messages \cup Codes)
        BY <1>e, <1>t DEF TypeOK
      <4>2. 1 \in DOMAIN frames["server"] /\ Head(frames["server"]) = frames["server"][1]
        BY <3>1, <4>1, TailFacts
      <4>3. QED
        BY <1>t, <3>1, <4>2 DEF OwnCodes
    <3>4. Report("client", Head(frames["server"])) = "answered" => close["server"] = "normal"
      BY <2>1, <3>1, <3>3 DEF Report, Codes
    <3>5. QED
      BY <1>t, <2>1, <3>1, <3>2, <3>4 DEF CallInv
  <2>5. QED
    BY <1>13, <2>2, <2>3, <2>4, ReadEndsHow DEF ClientRead
<1>14. CASE Close
  <2>1. UNCHANGED <<told, handler, frames>> /\ close'["server"] = close["server"]
    BY <1>14, <1>e, <1>t DEF Close, TypeOK
  <2>2. QED
    BY <2>1, <1>q DEF Kept, Told
<1>15. ASSUME NEW e \in Ends, SendCloseFrame(e)
       PROVE  OwnCodes' /\ (told'["client"] = "answered" => handler' = "succeeded")
  <2>1. UNCHANGED <<close, told, handler>> /\ close[e] \in Codes
    BY <1>15, <1>t DEF SendCloseFrame, TypeOK
  <2>2. CASE e = "client"
    <3>1. frames'["server"] = frames["server"]
      BY <1>15, <1>e, <1>t, <2>2 DEF SendCloseFrame, TypeOK
    <3>2. QED
      BY <2>1, <3>1, <1>q DEF Kept, Told
  <2>3. CASE e = "server"
    <3>1. /\ frames["server"] \in Seq(Messages \cup Codes)
          /\ close["server"] \in Messages \cup Codes
          /\ frames'["server"] = Append(frames["server"], close["server"])
      BY <1>15, <1>e, <1>t, <2>1, <2>3 DEF SendCloseFrame, TypeOK
    <3>2. /\ Len(frames["server"]) \in Nat
          /\ Len(frames'["server"]) = Len(frames["server"]) + 1
          /\ frames'["server"] \in Seq(Messages \cup Codes)
          /\ frames'["server"][Len(frames["server"]) + 1] = close["server"]
          /\ \A i \in 1..Len(frames["server"]) : frames'["server"][i] = frames["server"][i]
      BY <3>1, AppendFacts
    <3>3. ASSUME NEW i \in DOMAIN frames'["server"], frames'["server"][i] \in Codes
          PROVE  frames'["server"][i] = close'["server"]
      <4>1. CASE i = Len(frames["server"]) + 1
        BY <2>1, <3>2, <4>1
      <4>2. CASE i \in 1..Len(frames["server"])
        BY <1>t, <2>1, <3>1, <3>2, <3>3, <4>2 DEF OwnCodes
      <4>3. QED
        BY <3>2, <4>1, <4>2
    <3>4. OwnCodes'
      BY <3>3 DEF OwnCodes
    <3>5. QED
      BY <1>t, <2>1, <3>4
  <2>4. QED
    BY <2>2, <2>3 DEF Ends
<1>16. ASSUME NEW e \in Ends, CloseEnds(e)
       PROVE  OwnCodes' /\ (told'["client"] = "answered" => handler' = "succeeded")
  BY <1>16, <1>s DEF CloseEnds
<1>17. QED
  BY <1>1, <1>2, <1>3, <1>4, <1>5, <1>6, <1>7, <1>8, <1>9, <1>10, <1>11, <1>12, <1>13,
     <1>14, <1>15, <1>16 DEF Next

LEMMA StreamStep == StreamInv /\ [Next]_vars => StreamInv'
BY TypeStep, CallStep, WireStep, NoAnswerStep DEF StreamInv

LEMMA StreamCorrect == Spec => []StreamInv
BY StreamInit, StreamStep, PTL DEF Spec

\* The connection's state keeps its types, whoever closes, loses or cancels.
THEOREM TypeCorrect == Spec => []TypeOK
<1>1. StreamInv => TypeOK
  BY DEF StreamInv
<1>2. QED
  BY <1>1, StreamCorrect, PTL

\* conn.Close(1000) and conn.Close(1011) reach the client as what they are:
\* the code that Receive reports is the verdict of the handler, unless it is
\* one the client itself closed a bidi stream with.
THEOREM VerdictIsHandlers == Spec => []VerdictIsTrue
<1>1. StreamInv => VerdictIsTrue
  <2>1. SUFFICES ASSUME StreamInv PROVE VerdictIsTrue
    OBVIOUS
  <2>2. WireInv("server") /\ Peer("server") = "client"
    BY <2>1 DEF StreamInv, WireInvs, Ends, Peer
  <2>3. told["client"] \in Codes => told["client"] = close["server"]
    BY <2>2 DEF WireInv
  <2>4. QED
    BY <2>1, <2>3 DEF StreamInv, CallInv, NoAnswerInv, VerdictIsTrue, Codes
<1>2. QED
  BY <1>1, StreamCorrect, PTL

-----------------------------------------------------------------------------
(* The promise of a direction *)

LEMMA SequencesEqual ==
  ASSUME NEW S, NEW s \in Seq(S), NEW r \in Seq(S), Len(s) = Len(r),
         \A i \in 1..Len(s) : s[i] = r[i]
  PROVE  s = r
OBVIOUS

\* What Receive hands out is the next message the peer has sent.
LEMMA ReadIsNext ==
  ASSUME StreamInv, NEW e \in Ends, ReadMessage(e)
  PROVE  /\ told[e] = "no" /\ told' = told
         /\ Len(got[e]) < Len(sent[Peer(e)])
         /\ got'[e] = Append(got[e], sent[Peer(e)][Len(got[e]) + 1])
         /\ got'[Peer(e)] = got[Peer(e)]
         /\ end' = end
<1> DEFINE p == Peer(e)
<1>1. /\ p \in Ends /\ p # e /\ WireInv(p) /\ Peer(p) = e
      /\ WireInv(e)
  BY PeerFacts DEF StreamInv, WireInvs
<1>2. /\ frames[p] \in Seq(Messages \cup Codes) /\ frames[p] # <<>>
      /\ got \in [Ends -> Seq(Messages)] /\ sent[p] \in Seq(Messages)
  BY <1>1 DEF StreamInv, TypeOK, ReadMessage
<1>3. /\ Len(frames[p]) \in Nat /\ Len(frames[p]) >= 1
      /\ Head(frames[p]) = frames[p][1]
  BY <1>2, TailFacts
<1>4. frames[p][1] \in Messages /\ frames[p][1] \notin Codes
  BY <1>3 DEF ReadMessage, Codes
<1>5. /\ Len(got[e]) + 1 <= Len(sent[p])
      /\ frames[p][1] = sent[p][Len(got[e]) + 1]
  <2>1. 1 \in 1..Len(frames[p])
    BY <1>3
  <2>2. QED
    BY <1>1, <1>4, <2>1 DEF WireInv
<1>6. Len(got[e]) < Len(sent[p])
  <2>1. Len(got[e]) \in Nat /\ Len(sent[p]) \in Nat
    BY <1>2
  <2>2. QED
    BY <1>5, <2>1
<1>7. told[e] = "no"
  BY <1>1 DEF WireInv, ReadMessage
<1>8. got'[e] = Append(got[e], frames[p][1]) /\ got'[p] = got[p]
  BY <1>1, <1>2, <1>3 DEF ReadMessage
<1>9. QED
  BY <1>5, <1>6, <1>7, <1>8 DEF ReadMessage

\* Receive reports an end that is not the normal one, or the normal one after
\* the last message of a peer that has closed.
LEMMA ReadEndIsReal ==
  ASSUME StreamInv, NEW e \in Ends, ReadEnds(e)
  PROVE  /\ told'[Peer(e)] = told[Peer(e)] /\ got' = got
         /\ end'[Peer(e)] = end[Peer(e)]
         /\ \/ told'[e] = told[e]
            \/ told[e] = "no" /\ told'[e] \in {"lost", "internal"}
            \/ /\ told[e] = "no" /\ told'[e] = "normal"
               /\ got[e] = sent[Peer(e)]
               /\ close[Peer(e)] = "normal"
               /\ end[Peer(e)] # "open"
            \/ /\ told[e] = "no" /\ told'[e] = "answered"
               /\ got[e] = sent[Peer(e)]
               /\ close[e] \in Codes
<1> DEFINE p == Peer(e)
<1>1. p \in Ends /\ p # e /\ WireInv(p) /\ Peer(p) = e
  BY PeerFacts DEF StreamInv, WireInvs
<1>2. /\ frames[p] \in Seq(Messages \cup Codes) /\ got[e] \in Seq(Messages)
      /\ sent[p] \in Seq(Messages)
      /\ told \in [Ends -> Codes \cup {"no", "answered", "lost"}]
      /\ end \in [Ends -> {"open", "closing", "closed"}]
  BY <1>1 DEF StreamInv, TypeOK
<1>3. told'[p] = told[p] /\ got' = got /\ end'[p] = end[p]
  BY <1>1, <1>2 DEF ReadEnds
<1>4. CASE told[e] # "no"
  <2>1. told'[e] = told[e]
    BY <1>2, <1>4 DEF ReadEnds
  <2>2. QED
    BY <1>3, <2>1
<1>5. CASE told[e] = "no" /\ told'[e] = "lost"
  BY <1>3, <1>5
<1>6. CASE told[e] = "no" /\ told'[e] # "lost"
  <2>1. /\ frames[p] # <<>> /\ Head(frames[p]) \in Codes
        /\ told'[e] = Report(e, Head(frames[p]))
    BY <1>2, <1>6, ReadEndsHow DEF TakesCode
  <2>2. /\ Len(frames[p]) \in Nat /\ 1 \in 1..Len(frames[p])
        /\ Head(frames[p]) = frames[p][1]
    BY <1>2, <2>1, TailFacts
  <2>3. frames[p][1] \notin Messages
    BY <2>1, <2>2
  <2>4. /\ 1 = Len(frames[p]) /\ frames[p][1] \in {close[p], close[e]} /\ end[p] # "open"
        /\ Len(got[e]) + Len(frames[p]) = Len(sent[p]) + 1
    BY <1>1, <2>2, <2>3 DEF WireInv
  <2>5. Len(got[e]) = Len(sent[p])
    <3>1. Len(got[e]) \in Nat /\ Len(sent[p]) \in Nat
      BY <1>2
    <3>2. \A a, b, c \in Nat : c = 1 /\ a + c = b + 1 => a = b
      OBVIOUS
    <3>3. QED
      BY <2>2, <2>4, <3>1, <3>2
  <2>6. \A i \in 1..Len(got[e]) : got[e][i] = sent[p][i]
    BY <1>1 DEF WireInv
  <2>7. got[e] = sent[p]
    BY <1>2, <2>5, <2>6, SequencesEqual
  <2>8. QED
    BY <1>3, <1>6, <2>1, <2>2, <2>4, <2>7 DEF Codes, Report
<1>7. QED
  BY <1>4, <1>5, <1>6

\* The names the promise has for how Receive ended.
LEMMA EndNames ==
  ASSUME NEW e
  PROVE  /\ told[e] = "no" => End(e) = "no"
         /\ told'[e] = "no" => End(e)' = "no"
         /\ told'[e] = told[e] /\ kind' = kind => End(e)' = End(e)
         /\ told'[e] = "normal" => End(e)' = "eof"
         /\ told'[e] \in {"lost", "internal"} => End(e)' = "failed"
         /\ told'[e] = "answered" => End(e)' = IF kind' = "server" THEN "eof" ELSE "failed"
BY DEF End, Normally

LEMMA ResponsesStep ==
  StreamInv /\ StreamInv' /\ [Next]_vars => [Responses!Next]_(Responses!vars)
<1> SUFFICES ASSUME StreamInv, StreamInv', [Next]_vars PROVE [Responses!Next]_(Responses!vars)
  OBVIOUS
<1>k. kind' = kind
  BY KindKept
<1>t. TypeOK /\ CallInv
  BY DEF StreamInv
<1>e. /\ "server" \in Ends /\ "client" \in Ends
      /\ Peer("server") = "client" /\ Peer("client") = "server"
  BY DEF Ends, Peer
\* Steps that show nothing.
<1>q. ASSUME sent'["server"] = sent["server"], got'["client"] = got["client"],
             told'["client"] = told["client"],
             handler' = handler \/ handler' = "serving" \/ handler' = "failed",
             handler' = handler \/ handler \in {"request", "serving"}
      PROVE  [Responses!Next]_(Responses!vars)
  <2>1. End("client")' = End("client")
    BY <1>q, <1>k, EndNames
  <2>2. QED
    BY <1>q, <2>1 DEF Responses!vars, Responses!Next, Responses!Return
<1>s. ASSUME UNCHANGED <<handler, sent, got, told>> PROVE [Responses!Next]_(Responses!vars)
  BY <1>s, <1>q
\* The server reads, or a request that cannot be read ends the call.
<1>r. ASSUME ReadMessage("server") \/ ReadEnds("server"), sent' = sent,
             handler' = handler \/ handler' = "serving" \/ handler' = "failed",
             handler' = handler \/ handler \in {"request", "serving"}
      PROVE  [Responses!Next]_(Responses!vars)
  <2>1. got'["client"] = got["client"] /\ told'["client"] = told["client"]
    BY <1>r, <1>e, ReadIsNext, ReadEndIsReal
  <2>2. QED
    BY <1>r, <1>q, <2>1
<1> USE DEF conn, threads, client
<1>1. CASE ReadRequest
  BY <1>1, <1>r DEF ReadRequest, CloseWith
<1>2. CASE RequestFails
  BY <1>2, <1>r DEF RequestFails, CloseWith
<1>3. CASE RequestExpires
  <2>1. told'["client"] = told["client"]
    BY <1>3, <1>t, <1>e DEF RequestExpires, TypeOK
  <2>2. QED
    BY <1>3, <2>1, <1>q DEF RequestExpires, CloseWith
<1>4. CASE HandlerReturn
  <2>1. End("client")' = End("client")
    BY <1>4, <1>k, EndNames DEF HandlerReturn
  <2>2. QED
    BY <1>4, <2>1 DEF HandlerReturn, CloseWith, Responses!vars, Responses!Next, Responses!Return
<1>5. ASSUME NEW t \in Threads, NEW m \in Messages, BeginSend(t, m)
      PROVE  [Responses!Next]_(Responses!vars)
  BY <1>5, <1>s DEF BeginSend
<1>6. ASSUME NEW t \in Threads, LockWrite(t) PROVE [Responses!Next]_(Responses!vars)
  BY <1>6, <1>s DEF LockWrite
<1>7. ASSUME NEW t \in Threads, Write(t) PROVE [Responses!Next]_(Responses!vars)
  <2>1. arg[t] \in Messages /\ handler = "serving"
    BY <1>7, <1>t DEF Write, CallInv
  <2>2. CASE WriteIsLost("server")
    BY <1>7, <2>2, <1>s DEF Write, WriteIsLost
  <2>3. CASE WriteFrame("server", arg[t])
    <3>1. sent'["server"] = Append(sent["server"], arg[t])
      BY <1>e, <1>t, <2>3 DEF WriteFrame, TypeOK
    <3>2. End("client")' = End("client")
      BY <1>7, <1>k, EndNames DEF Write
    <3>3. QED
      BY <1>7, <2>1, <3>1, <3>2 DEF Write, Responses!Next, Responses!Send
  <2>4. QED
    BY <1>7, <2>2, <2>3 DEF Write
<1>8. ASSUME NEW t \in Threads, BeginReceive(t) PROVE [Responses!Next]_(Responses!vars)
  BY <1>8, <1>s DEF BeginReceive
<1>9. ASSUME NEW t \in Threads, LockRead(t) PROVE [Responses!Next]_(Responses!vars)
  BY <1>9, <1>s DEF LockRead
<1>10. ASSUME NEW t \in Threads, Read(t) PROVE [Responses!Next]_(Responses!vars)
  BY <1>10, <1>r DEF Read
<1>11. ASSUME NEW m \in Messages, ClientSend(m) PROVE [Responses!Next]_(Responses!vars)
  BY <1>11, <1>s DEF ClientSend
<1>w. ASSUME NEW m \in Messages, WriteFrame("client", m) PROVE sent'["server"] = sent["server"]
  BY <1>w, <1>t, <1>e DEF WriteFrame, TypeOK
<1>12. CASE ClientWrite
  <2>1. sent'["server"] = sent["server"]
    BY <1>12, <1>t, <1>w DEF ClientWrite, TypeOK, WriteIsLost
  <2>2. QED
    BY <1>12, <2>1, <1>q DEF ClientWrite
<1>13. CASE WriteRequest
  <2>1. sent'["server"] = sent["server"]
    BY <1>13, <1>t, <1>w DEF WriteRequest, TypeOK, WriteIsLost
  <2>2. QED
    BY <1>13, <2>1, <1>q DEF WriteRequest
<1>14. CASE ClientReceive
  BY <1>14, <1>s DEF ClientReceive
<1>15. CASE ClientRead
  <2>1. sent' = sent /\ handler' = handler
    BY <1>15 DEF ClientRead
  <2>2. CASE ReadMessage("client")
    <3>1. /\ told["client"] = "no" /\ told' = told
          /\ Len(got["client"]) < Len(sent["server"])
          /\ got'["client"] = Append(got["client"], sent["server"][Len(got["client"]) + 1])
      BY <2>2, <1>e, ReadIsNext
    <3>2. End("client") = "no" /\ End("client")' = "no"
      BY <3>1, EndNames
    <3>3. QED
      BY <2>1, <3>1, <3>2 DEF Responses!Next, Responses!Deliver
  <2>3. CASE ReadEnds("client")
    <3>1. got' = got
      BY <2>3, <1>e, ReadEndIsReal
    <3>2. CASE told'["client"] = told["client"]
      BY <2>1, <3>1, <3>2, <1>q
    <3>3. CASE told["client"] = "no" /\ told'["client"] \in {"lost", "internal"}
      <4>1. End("client") = "no" /\ End("client")' = "failed"
        BY <3>3, EndNames
      <4>2. QED
        BY <2>1, <3>1, <4>1 DEF Responses!Next, Responses!Break
    <3>4. CASE /\ told["client"] = "no" /\ told'["client"] = "normal"
               /\ got["client"] = sent["server"]
               /\ close["server"] = "normal"
      <4>1. End("client") = "no" /\ End("client")' = "eof"
        BY <3>4, EndNames
      <4>2. handler = "succeeded"
        BY <3>4, <1>t DEF CallInv
      <4>3. QED
        BY <2>1, <3>1, <3>4, <4>1, <4>2 DEF Responses!Next, Responses!EndOfStream
    <3>5. CASE /\ told["client"] = "no" /\ told'["client"] = "answered"
               /\ got["client"] = sent["server"]
      <4>1. End("client") = "no"
            /\ End("client")' = IF kind = "server" THEN "eof" ELSE "failed"
        BY <1>k, <3>5, EndNames
      <4>2. kind = "server" => handler = "succeeded"
        BY <1>k, <2>1, <3>5 DEF StreamInv, NoAnswerInv
      <4>3. QED
        BY <2>1, <3>1, <3>5, <4>1, <4>2
           DEF Responses!Next, Responses!EndOfStream, Responses!Break
    <3>6. QED
      BY <2>3, <1>e, <3>2, <3>3, <3>4, <3>5, ReadEndIsReal
  <2>4. QED
    BY <1>15, <2>2, <2>3 DEF ClientRead
<1>16. CASE Cancel
  BY <1>16, <1>s DEF Cancel
<1>17. CASE Close
  BY <1>17, <1>s DEF Close
<1>18. ASSUME NEW e \in Ends, SendCloseFrame(e) PROVE [Responses!Next]_(Responses!vars)
  BY <1>18, <1>s DEF SendCloseFrame
<1>19. ASSUME NEW e \in Ends, CloseEnds(e) PROVE [Responses!Next]_(Responses!vars)
  BY <1>19, <1>s DEF CloseEnds
<1>20. CASE LoseConnection
  BY <1>20, <1>s DEF LoseConnection
<1>21. CASE UNCHANGED vars
  BY <1>21, <1>s DEF vars
<1>22. QED
  BY <1>1, <1>2, <1>3, <1>4, <1>5, <1>6, <1>7, <1>8, <1>9, <1>10, <1>11, <1>12,
     <1>13, <1>14, <1>15, <1>16, <1>17, <1>18, <1>19, <1>20, <1>21 DEF Next

\* What the server sends reaches the client's Receive whole, once and in
\* order, and the code 1000 after all of it and only from a handler that has
\* returned without an error, however the handler's goroutines interleave:
\* but for a bidi stream that the client itself has closed with 1000.
THEOREM StreamImplementsResponses == Spec => ImplementsResponses
<1>1. Init => Responses!Init
  BY DEF Init, Ends, End, Normally, Responses!Init
<1>2. QED
  BY <1>1, StreamCorrect, ResponsesStep, PTL DEF Spec, ImplementsResponses, Responses!Spec

LEMMA RequestsStep == StreamInv /\ [Next]_vars => [Requests!Next]_(Requests!vars)
<1> SUFFICES ASSUME StreamInv, [Next]_vars PROVE [Requests!Next]_(Requests!vars)
  OBVIOUS
<1>k. kind' = kind
  BY KindKept
<1>t. TypeOK /\ CallInv
  BY DEF StreamInv
<1>e. /\ "server" \in Ends /\ "client" \in Ends
      /\ Peer("server") = "client" /\ Peer("client") = "server"
  BY DEF Ends, Peer
\* Steps that show nothing, or that the client has closed.
<1>q. ASSUME sent'["client"] = sent["client"], got'["server"] = got["server"],
             told'["server"] = told["server"],
             end'["client"] = end["client"] \/ end'["client"] # "open"
      PROVE  [Requests!Next]_(Requests!vars)
  <2>1. End("server")' = End("server")
    BY <1>q, <1>k, EndNames
  <2>2. QED
    BY <1>q, <2>1 DEF Requests!vars, Requests!Next, Requests!Return
<1>s. ASSUME UNCHANGED <<end, sent, got, told>> PROVE [Requests!Next]_(Requests!vars)
  BY <1>s, <1>q
\* What the server's Receive, or its first read, does.
<1>m. ASSUME ReadMessage("server"), sent' = sent PROVE [Requests!Next]_(Requests!vars)
  <2>1. /\ told["server"] = "no" /\ told' = told
        /\ Len(got["server"]) < Len(sent["client"])
        /\ got'["server"] = Append(got["server"], sent["client"][Len(got["server"]) + 1])
        /\ end' = end
    BY <1>m, <1>e, ReadIsNext
  <2>2. End("server") = "no" /\ End("server")' = "no"
    BY <2>1, EndNames
  <2>3. QED
    BY <1>m, <2>1, <2>2 DEF Requests!Next, Requests!Deliver
<1>f. ASSUME ReadEnds("server"), sent' = sent, handler \in {"request", "serving"}
      PROVE  [Requests!Next]_(Requests!vars)
  <2>1. got' = got /\ end'["client"] = end["client"]
    BY <1>f, <1>e, ReadEndIsReal
  <2>2. CASE told'["server"] = told["server"]
    BY <1>f, <2>1, <2>2, <1>q
  <2>3. CASE told["server"] = "no" /\ told'["server"] \in {"lost", "internal"}
    <3>1. End("server") = "no" /\ End("server")' = "failed"
      BY <2>3, EndNames
    <3>2. QED
      BY <1>f, <2>1, <3>1 DEF Requests!Next, Requests!Break
  <2>4. CASE /\ told["server"] = "no" /\ told'["server"] = "normal"
             /\ got["server"] = sent["client"]
             /\ end["client"] # "open"
    <3>1. End("server") = "no" /\ End("server")' = "eof"
      BY <2>4, EndNames
    <3>2. QED
      BY <1>f, <2>1, <2>4, <3>1 DEF Requests!Next, Requests!EndOfStream
  <2>5. close["server"] \notin Codes
    BY <1>f, <1>t DEF CallInv, Codes
  <2>6. QED
    BY <1>f, <1>e, <2>2, <2>3, <2>4, <2>5, ReadEndIsReal
<1>w. ASSUME NEW m \in Messages, WriteFrame("client", m),
             end' = end, got' = got, told' = told
      PROVE  [Requests!Next]_(Requests!vars)
  <2>1. sent'["client"] = Append(sent["client"], m) /\ end["client"] = "open"
    BY <1>w, <1>t, <1>e DEF WriteFrame, Writable, TypeOK
  <2>2. End("server")' = End("server")
    BY <1>w, <1>k, EndNames
  <2>3. QED
    BY <1>w, <2>1, <2>2 DEF Requests!Next, Requests!Send
<1> USE DEF conn, threads, client
<1>1. CASE ReadRequest
  BY <1>1, <1>m DEF ReadRequest
<1>2. CASE RequestFails
  BY <1>2, <1>f DEF RequestFails
<1>3. CASE RequestExpires
  <2>1. told["server"] = "no" /\ told'["server"] = "lost" /\ end'["client"] = end["client"]
    BY <1>3, <1>t, <1>e DEF RequestExpires, TypeOK, CallInv
  <2>2. End("server") = "no" /\ End("server")' = "failed"
    BY <2>1, EndNames
  <2>3. QED
    BY <1>3, <2>1, <2>2 DEF RequestExpires, Requests!Next, Requests!Break
<1>4. CASE HandlerReturn
  BY <1>4, <1>s DEF HandlerReturn
<1>5. ASSUME NEW t \in Threads, NEW m \in Messages, BeginSend(t, m)
      PROVE  [Requests!Next]_(Requests!vars)
  BY <1>5, <1>s DEF BeginSend
<1>6. ASSUME NEW t \in Threads, LockWrite(t) PROVE [Requests!Next]_(Requests!vars)
  BY <1>6, <1>s DEF LockWrite
<1>7. ASSUME NEW t \in Threads, Write(t) PROVE [Requests!Next]_(Requests!vars)
  <2>1. sent'["client"] = sent["client"]
    BY <1>7, <1>t, <1>e DEF Write, WriteFrame, WriteIsLost, TypeOK
  <2>2. QED
    BY <1>7, <2>1, <1>q DEF Write
<1>8. ASSUME NEW t \in Threads, BeginReceive(t) PROVE [Requests!Next]_(Requests!vars)
  BY <1>8, <1>s DEF BeginReceive
<1>9. ASSUME NEW t \in Threads, LockRead(t) PROVE [Requests!Next]_(Requests!vars)
  BY <1>9, <1>s DEF LockRead
<1>10. ASSUME NEW t \in Threads, Read(t) PROVE [Requests!Next]_(Requests!vars)
  BY <1>10, <1>t, <1>m, <1>f DEF Read, CallInv
<1>11. ASSUME NEW m \in Messages, ClientSend(m) PROVE [Requests!Next]_(Requests!vars)
  BY <1>11, <1>s DEF ClientSend
<1>12. CASE ClientWrite
  BY <1>12, <1>t, <1>s, <1>w DEF ClientWrite, WriteIsLost, TypeOK
<1>13. CASE WriteRequest
  <2>1. CASE WriteFrame("client", sending)
    BY <1>13, <1>t, <1>w, <2>1 DEF WriteRequest, TypeOK
  <2>2. CASE UNCHANGED <<frames, sent>>
    BY <1>13, <1>s, <2>2 DEF WriteRequest
  <2>3. QED
    BY <1>13, <2>1, <2>2 DEF WriteRequest, WriteIsLost
<1>14. CASE ClientReceive
  BY <1>14, <1>s DEF ClientReceive
<1>15. CASE ClientRead
  <2>1. /\ got'["server"] = got["server"] /\ told'["server"] = told["server"]
        /\ end'["client"] = end["client"] \/ end'["client"] # "open"
    <3>1. CASE ReadMessage("client")
      BY <3>1, <1>e, ReadIsNext
    <3>2. CASE ReadEnds("client")
      <4>1. end'["client"] = "closed"
        BY <3>2, <1>t, <1>e DEF ReadEnds, TypeOK
      <4>2. QED
        BY <3>2, <4>1, <1>e, ReadEndIsReal
    <3>3. QED
      BY <1>15, <3>1, <3>2 DEF ClientRead
  <2>2. QED
    BY <1>15, <2>1, <1>q DEF ClientRead
<1>16. CASE Cancel
  BY <1>16, <1>s DEF Cancel
<1>17. CASE Close
  BY <1>17, <1>s DEF Close
<1>18. ASSUME NEW e \in Ends, SendCloseFrame(e) PROVE [Requests!Next]_(Requests!vars)
  <2>1. end'["client"] = end["client"] \/ end'["client"] # "open"
    BY <1>18, <1>t, <1>e DEF SendCloseFrame, TypeOK
  <2>2. QED
    BY <1>18, <2>1, <1>q DEF SendCloseFrame
<1>19. ASSUME NEW e \in Ends, CloseEnds(e) PROVE [Requests!Next]_(Requests!vars)
  <2>1. end'["client"] = end["client"] \/ end'["client"] # "open"
    BY <1>19, <1>t, <1>e DEF CloseEnds, TypeOK
  <2>2. QED
    BY <1>19, <2>1, <1>q DEF CloseEnds
<1>20. CASE LoseConnection
  BY <1>20, <1>s DEF LoseConnection
<1>21. CASE UNCHANGED vars
  BY <1>21, <1>s DEF vars
<1>22. QED
  BY <1>1, <1>2, <1>3, <1>4, <1>5, <1>6, <1>7, <1>8, <1>9, <1>10, <1>11, <1>12,
     <1>13, <1>14, <1>15, <1>16, <1>17, <1>18, <1>19, <1>20, <1>21 DEF Next

\* The same of the client's messages: a handler that is told code 1000 has
\* received all of them, and the client has closed the stream.
THEOREM StreamImplementsRequests == Spec => ImplementsRequests
<1>1. Init => Requests!Init
  BY DEF Init, Ends, End, Normally, Requests!Init
<1>2. QED
  BY <1>1, StreamCorrect, RequestsStep, PTL DEF Spec, ImplementsRequests, Requests!Spec
============================================================================
