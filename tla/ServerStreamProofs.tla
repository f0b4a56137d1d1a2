-------------------------- MODULE ServerStreamProofs --------------------------
(***************************************************************************)
(* Proofs about BytesPool and ServerStream: the buffers of the pool are    *)
(* exclusive; the senders of the stream use the pool as BytesPool says, so *)
(* what is proved of the pool holds of the stream; every event on the wire *)
(* is whole; and the stream implements ResponseStream.                     *)
(***************************************************************************)
EXTENDS Integers, SequenceTheorems, ServerStream, TLAPS

USE PoolAssumption, StreamAssumption DEF PoolAssumption, StreamAssumption

-----------------------------------------------------------------------------
(* The pool *)

\* What the invariants of the pool keep each other true by.
PoolInv == PoolTypeOK /\ ExclusiveBuffers /\ NoLargePooled

LEMMA PoolInvInit == PoolInit => PoolInv
  BY DEF PoolInit, PoolInv, PoolTypeOK, ExclusiveBuffers, NoLargePooled

LEMMA PoolInvStep == PoolInv /\ [PoolNext]_poolVars => PoolInv'
<1> SUFFICES ASSUME PoolInv, [PoolNext]_poolVars
             PROVE  PoolInv'
  OBVIOUS
<1> USE DEF PoolInv, PoolTypeOK, ExclusiveBuffers, NoLargePooled, Sizes
<1>1. ASSUME NEW u \in Threads, NEW n \in Sizes, GetN(u, n)
      PROVE  PoolInv'
  BY <1>1 DEF GetN, Fits, InUse
<1>2. ASSUME NEW u \in Threads, NEW c \in Messages, Fill(u, c)
      PROVE  PoolInv'
  BY <1>2 DEF Fill
<1>3. ASSUME NEW u \in Threads, Put(u)
      PROVE  PoolInv'
  BY <1>3 DEF Put
<1>4. CASE Collect
  BY <1>4 DEF Collect
<1>5. CASE UNCHANGED poolVars
  BY <1>5 DEF poolVars
<1>6. QED
  BY <1>1, <1>2, <1>3, <1>4, <1>5 DEF PoolNext

\* No two goroutines ever share a pooled buffer, a buffer that was put back is
\* nobody's, and an oversized one does not stay in the pool.
THEOREM PoolSafe == PoolSpec => []PoolIsSafe
<1>1. PoolInv => PoolIsSafe
  BY DEF PoolInv, PoolIsSafe
<1>2. QED
  BY <1>1, PoolInvInit, PoolInvStep, PTL DEF PoolSpec

-----------------------------------------------------------------------------
(* The senders *)

\* A goroutine inside Send has a message to send, and the mutex is held by
\* the goroutine that is writing and by no other.
SendInv ==
  /\ pc \in [Threads -> PCs]
  /\ arg \in [Threads -> Messages \cup {None}]
  /\ \A t \in Threads :
       /\ pc[t] # "idle" => arg[t] \in Messages
       /\ pc[t] \in {"event", "data", "payload", "end", "unlock"} <=> mu = t

LEMMA SendInit == Init => SendInv
  BY DEF Init, SendInv, PCs

LEMMA SendInvStep == SendInv /\ [Next]_vars => SendInv'
<1> SUFFICES ASSUME SendInv, [Next]_vars
             PROVE  SendInv'
  OBVIOUS
<1> USE DEF SendInv, PCs, Goto, sender, server, client, life
<1>1. ASSUME NEW t \in Threads, NEW m \in Messages, BeginSend(t, m)
      PROVE  SendInv'
  BY <1>1 DEF BeginSend
<1>2. ASSUME NEW t \in Threads, GetBuffer(t)
      PROVE  SendInv'
  BY <1>2 DEF GetBuffer
<1>3. ASSUME NEW t \in Threads, Encode(t)
      PROVE  SendInv'
  BY <1>3 DEF Encode
<1>4. ASSUME NEW t \in Threads, Lock(t)
      PROVE  SendInv'
  BY <1>4 DEF Lock
<1>5. ASSUME NEW t \in Threads, WriteEvent(t)
      PROVE  SendInv'
  BY <1>5 DEF WriteEvent, Write
<1>6. ASSUME NEW t \in Threads, WritePrefix(t)
      PROVE  SendInv'
  BY <1>6 DEF WritePrefix, Write
<1>7. ASSUME NEW t \in Threads, WritePayload(t)
      PROVE  SendInv'
  BY <1>7 DEF WritePayload, Write
<1>8. ASSUME NEW t \in Threads, WriteEnd(t)
      PROVE  SendInv'
  BY <1>8 DEF WriteEnd, Write
<1>9. ASSUME NEW t \in Threads, Unlock(t)
      PROVE  SendInv'
  BY <1>9 DEF Unlock, Return
<1>10. ASSUME NEW t \in Threads, PutBuffer(t)
       PROVE  SendInv'
  BY <1>10 DEF PutBuffer, Return
<1>11. CASE HandlerReturn
  BY <1>11 DEF HandlerReturn
<1>12. CASE WriteTimeout
  BY <1>12 DEF WriteTimeout
<1>13. CASE Disconnect
  BY <1>13 DEF Disconnect
<1>14. CASE CollectBuffers
  BY <1>14 DEF CollectBuffers
<1>15. CASE BeginReceive
  BY <1>15 DEF BeginReceive
<1>16. CASE ReadLine
  BY <1>16 DEF ReadLine
<1>17. CASE ReadEnd
  BY <1>17 DEF ReadEnd
<1>18. CASE Cancel
  BY <1>18 DEF Cancel
<1>19. CASE Close
  BY <1>19 DEF Close
<1>20. CASE Watch
  BY <1>20 DEF Watch
<1>21. CASE UNCHANGED vars
  BY <1>21 DEF vars
<1>22. QED
  BY <1>1, <1>2, <1>3, <1>4, <1>5, <1>6, <1>7, <1>8, <1>9, <1>10, <1>11, <1>12, <1>13,
     <1>14, <1>15, <1>16, <1>17, <1>18, <1>19, <1>20, <1>21 DEF Next, SendStep

LEMMA PoolSimulation == SendInv /\ [Next]_vars => [PoolNext]_poolVars
<1> SUFFICES ASSUME SendInv, [Next]_vars
             PROVE  [PoolNext]_poolVars
  OBVIOUS
<1> USE DEF poolVars
<1>1. ASSUME NEW t \in Threads, GetBuffer(t)
      PROVE  PoolNext
  <2>1. \E n \in Sizes : GetN(t, n)
    BY <1>1 DEF GetBuffer, Sizes
  <2>2. QED
    BY <2>1 DEF PoolNext
<1>2. ASSUME NEW t \in Threads, Encode(t)
      PROVE  PoolNext
  <2>1. Fill(t, arg[t]) /\ arg[t] \in Messages
    BY <1>2 DEF Encode, SendInv
  <2>2. QED
    BY <2>1 DEF PoolNext
<1>3. ASSUME NEW t \in Threads, PutBuffer(t)
      PROVE  PoolNext
  BY <1>3 DEF PutBuffer, PoolNext
<1>4. CASE CollectBuffers
  BY <1>4 DEF CollectBuffers, PoolNext
<1>5. ASSUME NEW t \in Threads, NEW m \in Messages, BeginSend(t, m)
      PROVE  UNCHANGED poolVars
  BY <1>5 DEF BeginSend
<1>6. ASSUME NEW t \in Threads,
             \/ Lock(t) \/ WriteEvent(t) \/ WritePrefix(t) \/ WritePayload(t)
             \/ WriteEnd(t) \/ Unlock(t)
      PROVE  UNCHANGED poolVars
  BY <1>6 DEF Lock, WriteEvent, WritePrefix, WritePayload, WriteEnd, Unlock
<1>7. CASE HandlerReturn \/ WriteTimeout \/ Disconnect
  BY <1>7 DEF HandlerReturn, WriteTimeout, Disconnect
<1>8. CASE BeginReceive \/ ReadLine \/ ReadEnd
  BY <1>8 DEF BeginReceive, ReadLine, ReadEnd
<1>9. CASE Cancel \/ Close \/ Watch
  BY <1>9 DEF Cancel, Close, Watch
<1>10. CASE UNCHANGED vars
  BY <1>10 DEF vars
<1>11. QED
  BY <1>1, <1>2, <1>3, <1>4, <1>5, <1>6, <1>7, <1>8, <1>9, <1>10 DEF Next, SendStep

\* The senders of a stream are users of the buffer pool, and nothing else
\* happens to it.
THEOREM StreamUsesPool == Spec => PoolSpec
<1>1. Init => PoolInit
  BY DEF Init
<1>2. QED
  BY <1>1, SendInit, SendInvStep, PoolSimulation, PTL DEF Spec, PoolSpec

\* No two goroutines of a handler encode into the same buffer, and none
\* writes from a buffer that has gone back to the pool.
THEOREM StreamBuffersAreSafe == Spec => []PoolIsSafe
<1>1. QED
  BY StreamUsesPool, PoolSafe, PTL

\* Only one goroutine at a time is between the first and the last chunk of
\* an event.
THEOREM OneWriter == Spec => []SendInv
<1>1. QED
  BY SendInit, SendInvStep, PTL DEF Spec

-----------------------------------------------------------------------------
(* What is written is the message: a buffer keeps what its holder encoded. *)

Encoded == {"lock", "event", "data", "payload", "end", "unlock", "put"}

HoldInv ==
  /\ handler = "returned" => \A t \in Threads : pc[t] = "idle"
  /\ \A t \in Threads :
       /\ pc[t] \in {"get", "fill", "put"} => Encoding = "binary"
       /\ Encoding = "binary" =>
            /\ pc[t] \in {"idle", "get"} <=> buf[t] = None
            /\ pc[t] \in Encoded => data[buf[t]] = arg[t]

LEMMA HoldStep == PoolInv /\ SendInv /\ HoldInv /\ [Next]_vars => HoldInv'
<1> SUFFICES ASSUME PoolInv, SendInv, HoldInv, [Next]_vars
             PROVE  HoldInv'
  OBVIOUS
<1> USE DEF SendInv, HoldInv, PCs, Encoded, Goto, sender, server, client, life, poolVars
<1>1. ASSUME NEW t \in Threads, NEW m \in Messages, BeginSend(t, m)
      PROVE  HoldInv'
  BY <1>1 DEF BeginSend
<1>2. ASSUME NEW t \in Threads, GetBuffer(t)
      PROVE  HoldInv'
  <2>1. PICK b \in Buffers :
          /\ b \in pooled \/ b \notin InUse
          /\ buf' = [buf EXCEPT ![t] = b]
          /\ \A c \in Buffers \ {b} : data'[c] = data[c]
    BY <1>2 DEF GetBuffer, GetN, PoolInv, PoolTypeOK
  <2>2. buf'[t] = b /\ \A u \in Threads \ {t} : buf'[u] = buf[u]
    BY <2>1 DEF PoolInv, PoolTypeOK
  <2>3. \A u \in Threads \ {t} : buf[u] # None => buf[u] \in Buffers /\ buf[u] # b
    BY <2>1 DEF PoolInv, PoolTypeOK, ExclusiveBuffers, InUse
  <2>4. \A u \in Threads \ {t} : buf[u] # None => data'[buf'[u]] = data[buf[u]]
    BY <2>1, <2>2, <2>3
  <2>5. /\ handler' = handler /\ arg' = arg /\ pc' = [pc EXCEPT ![t] = "fill"]
        /\ pc[t] = "get" /\ None \notin Buffers
    BY <1>2 DEF GetBuffer
  <2>6. ASSUME NEW u \in Threads
        PROVE  /\ pc'[u] \in {"get", "fill", "put"} => Encoding = "binary"
               /\ Encoding = "binary" =>
                    /\ pc'[u] \in {"idle", "get"} <=> buf'[u] = None
                    /\ pc'[u] \in Encoded => data'[buf'[u]] = arg'[u]
    <3>1. CASE u = t
      BY <2>2, <2>5, <3>1
    <3>2. CASE u # t
      <4>1. pc'[u] = pc[u] /\ buf'[u] = buf[u]
        BY <2>2, <2>5, <3>2
      <4>2. Encoding = "binary" /\ pc[u] \in Encoded => data'[buf'[u]] = data[buf[u]]
        BY <2>4, <3>2
      <4>3. QED
        BY <2>5, <4>1, <4>2
    <3>3. QED
      BY <3>1, <3>2
  <2>7. QED
    BY <2>5, <2>6
<1>3. ASSUME NEW t \in Threads, Encode(t)
      PROVE  HoldInv'
  BY <1>3 DEF Encode, Fill, PoolInv, PoolTypeOK, ExclusiveBuffers
<1>4. ASSUME NEW t \in Threads, Lock(t)
      PROVE  HoldInv'
  BY <1>4 DEF Lock
<1>5. ASSUME NEW t \in Threads, WriteEvent(t)
      PROVE  HoldInv'
  BY <1>5 DEF WriteEvent, Write
<1>6. ASSUME NEW t \in Threads, WritePrefix(t)
      PROVE  HoldInv'
  BY <1>6 DEF WritePrefix, Write
<1>7. ASSUME NEW t \in Threads, WritePayload(t)
      PROVE  HoldInv'
  BY <1>7 DEF WritePayload, Write
<1>8. ASSUME NEW t \in Threads, WriteEnd(t)
      PROVE  HoldInv'
  BY <1>8 DEF WriteEnd, Write
<1>9. ASSUME NEW t \in Threads, Unlock(t)
      PROVE  HoldInv'
  BY <1>9 DEF Unlock, Return
<1>10. ASSUME NEW t \in Threads, PutBuffer(t)
       PROVE  HoldInv'
  BY <1>10 DEF PutBuffer, Put, Return, PoolInv, PoolTypeOK, ExclusiveBuffers
<1>11. CASE HandlerReturn
  BY <1>11 DEF HandlerReturn
<1>12. CASE WriteTimeout
  BY <1>12 DEF WriteTimeout
<1>13. CASE Disconnect
  BY <1>13 DEF Disconnect
<1>14. CASE CollectBuffers
  BY <1>14 DEF CollectBuffers, Collect, PoolInv, PoolTypeOK, ExclusiveBuffers
<1>15. CASE BeginReceive
  BY <1>15 DEF BeginReceive
<1>16. CASE ReadLine
  BY <1>16 DEF ReadLine
<1>17. CASE ReadEnd
  BY <1>17 DEF ReadEnd
<1>18. CASE Cancel
  BY <1>18 DEF Cancel
<1>19. CASE Close
  BY <1>19 DEF Close
<1>20. CASE Watch
  BY <1>20 DEF Watch
<1>21. CASE UNCHANGED vars
  BY <1>21 DEF vars
<1>22. QED
  BY <1>1, <1>2, <1>3, <1>4, <1>5, <1>6, <1>7, <1>8, <1>9, <1>10, <1>11, <1>12, <1>13,
     <1>14, <1>15, <1>16, <1>17, <1>18, <1>19, <1>20, <1>21 DEF Next, SendStep

-----------------------------------------------------------------------------
(* The wire.  Until the connection is dead its last chunk is where the      *)
(* holder of the mutex has come to; what is read are whole lines; and so    *)
(* every event on it is whole, whoever wrote it.                            *)

Chunks == Messages \cup {"event", "data", "end"}

Follows(c, d) ==
  /\ c = "data" => d \in Messages
  /\ c \in Messages => d = "end"
  /\ c \in {"event", "end"} => d \in {"event", "data"}

WireInv ==
  /\ wire \in Seq(Chunks)
  /\ wire # <<>> => wire[1] \in {"event", "data"}
  /\ \A i \in 1..Len(wire) - 1 : Follows(wire[i], wire[i + 1])

EndsIn(last) == wire # <<>> => wire[Len(wire)] \in last

TailInv ==
  ~Dead =>
    /\ mu = None => EndsIn({"end"})
    /\ \A t \in Threads :
         /\ pc[t] \in {"event", "unlock"} => EndsIn({"end"})
         /\ pc[t] = "data" => EndsIn({"event", "end"})
         /\ pc[t] = "payload" => wire # <<>> /\ EndsIn({"data"})
         /\ pc[t] = "end" => wire # <<>> /\ EndsIn({arg[t]})

\* The places of the events that the client has yet to read, n having been
\* read, in the wire w.
Marks(p, w, s, n) ==
  /\ p \in [1..Len(s) - n -> 1..Len(w)]
  /\ \A j \in DOMAIN p : p[j] > 1 /\ w[p[j]] = "end" /\ w[p[j] - 1] = s[n + j]
  /\ \A i, j \in DOMAIN p : i < j => p[i] < p[j]
  /\ \A i \in 2..Len(w) : w[i] = "end" => \E j \in DOMAIN p : p[j] = i

HistoryTypes == sent \in Seq(Messages) /\ received \in Seq(Messages)

HistoryInv ==
  /\ HistoryTypes
  /\ Len(received) <= Len(sent)
  /\ \A i \in 1..Len(received) : received[i] = sent[i]

PendingInv == \E p \in [1..Len(sent) - Len(received) -> 1..Len(wire)] :
                Marks(p, wire, sent, Len(received))

LEMMA AppendFacts ==
  ASSUME NEW S, NEW s \in Seq(S), NEW x \in S
  PROVE  /\ Append(s, x) \in Seq(S)
         /\ Append(s, x) # <<>>
         /\ Len(Append(s, x)) = Len(s) + 1
         /\ Append(s, x)[Len(s) + 1] = x
         /\ \A i \in 1..Len(s) : Append(s, x)[i] = s[i]
OBVIOUS

\* What is left of a sequence without its first k elements.
LEMMA DropFacts ==
  ASSUME NEW S, NEW s \in Seq(S), NEW k \in 1..Len(s)
  PROVE  LET d == SubSeq(s, k + 1, Len(s)) IN
         /\ d \in Seq(S)
         /\ Len(d) = Len(s) - k
         /\ \A i \in 1..Len(s) - k : d[i] = s[i + k]
OBVIOUS

LEMMA OneElement ==
  ASSUME NEW S, NEW s \in Seq(S), NEW i \in 1..Len(s)
  PROVE  SubSeq(s, i, i) = <<s[i]>>
<1>1. SubSeq(s, i, i) \in Seq(S) /\ Len(SubSeq(s, i, i)) = 1 /\ SubSeq(s, i, i)[1] = s[i]
  OBVIOUS
<1>2. <<s[i]>> \in Seq(S) /\ Len(<<s[i]>>) = 1 /\ <<s[i]>>[1] = s[i]
  OBVIOUS
<1>3. ASSUME NEW a \in Seq(S), NEW b \in Seq(S), Len(a) = 1, Len(b) = 1, a[1] = b[1]
      PROVE  a = b
  <2>1. \A j \in 1..Len(a) : a[j] = b[j]
    BY <1>3
  <2>2. QED
    BY <1>3, <2>1, SeqEqual
<1>4. QED
  BY <1>1, <1>2, <1>3, Zenon

LEMMA ChunkAppended ==
  ASSUME WireInv, NEW c \in Chunks, wire' = Append(wire, c),
         wire = <<>> => c \in {"event", "data"},
         wire # <<>> => Follows(wire[Len(wire)], c)
  PROVE  WireInv'
<1> DEFINE n == Len(wire)
<1>1. wire \in Seq(Chunks) /\ n \in Nat /\ (wire = <<>> <=> n = 0)
  BY DEF WireInv
<1>2. /\ wire' \in Seq(Chunks) /\ wire' # <<>> /\ Len(wire') = n + 1 /\ wire'[n + 1] = c
      /\ \A i \in 1..n : wire'[i] = wire[i]
  BY <1>1, AppendFacts
<1>3. wire'[1] \in {"event", "data"}
  BY <1>1, <1>2 DEF WireInv
<1>4. ASSUME NEW i \in 1..n
      PROVE  Follows(wire'[i], wire'[i + 1])
  <2>1. CASE i = n
    BY <1>1, <1>2, <2>1
  <2>2. CASE i \in 1..n - 1
    <3>1. wire'[i] = wire[i] /\ wire'[i + 1] = wire[i + 1]
      BY <1>1, <1>2, <2>2
    <3>2. QED
      BY <2>2, <3>1 DEF WireInv
  <2>3. QED
    BY <1>1, <2>1, <2>2
<1>5. Len(wire') - 1 = n
  BY <1>1, <1>2
<1>6. QED
  BY <1>2, <1>3, <1>4, <1>5 DEF WireInv, Follows

\* A line that Receive reads is an event: line or a whole data: event.
LEMMA LineShape ==
  ASSUME WireInv, NEW k \in LineEnds, \A i \in LineEnds : k <= i
  PROVE  \/ wire[1] = "event" /\ k = 1
         \/ wire[1] = "data" /\ k = 3 /\ Len(wire) >= 3 /\ wire[2] \in Messages /\ wire[3] = "end"
<1>1. /\ k \in 1..Len(wire) /\ wire[k] \in {"event", "end"} /\ Len(wire) \in Nat
      /\ wire[1] \in {"event", "data"}
  BY DEF LineEnds, WireInv
<1>2. CASE wire[1] = "event"
  BY <1>1, <1>2 DEF LineEnds
<1>3. CASE wire[1] = "data"
  <2>1. k # 1 /\ Len(wire) >= 2
    BY <1>1, <1>3
  <2>2. wire[2] \in Messages
    <3>1. Follows(wire[1], wire[1 + 1])
      BY <1>1, <2>1 DEF WireInv
    <3>2. QED
      BY <1>3, <3>1 DEF Follows
  <2>3. k # 2 /\ Len(wire) >= 3
    BY <1>1, <2>1, <2>2
  <2>4. wire[3] = "end"
    <3>1. Follows(wire[2], wire[2 + 1])
      BY <1>1, <2>3 DEF WireInv
    <3>2. QED
      BY <2>2, <3>1 DEF Follows
  <2>5. k = 3
    BY <1>1, <2>1, <2>3, <2>4 DEF LineEnds
  <2>6. QED
    BY <1>3, <2>2, <2>3, <2>4, <2>5
<1>4. QED
  BY <1>1, <1>2, <1>3

LEMMA LineDropped ==
  ASSUME WireInv, NEW k \in LineEnds, wire' = SubSeq(wire, k + 1, Len(wire))
  PROVE  WireInv'
<1>1. /\ k \in 1..Len(wire) /\ wire[k] \in {"event", "end"} /\ Len(wire) \in Nat
      /\ wire \in Seq(Chunks)
  BY DEF LineEnds, WireInv
<1>2. /\ wire' \in Seq(Chunks) /\ Len(wire') = Len(wire) - k
      /\ \A i \in 1..Len(wire) - k : wire'[i] = wire[i + k]
  BY <1>1, DropFacts
<1>3. ASSUME NEW i \in 1..Len(wire') - 1
      PROVE  Follows(wire'[i], wire'[i + 1])
  <2>1. /\ wire'[i] = wire[i + k] /\ wire'[i + 1] = wire[(i + k) + 1]
        /\ i + k \in 1..Len(wire) - 1
    BY <1>1, <1>2
  <2>2. Follows(wire[i + k], wire[(i + k) + 1])
    BY <2>1 DEF WireInv
  <2>3. QED
    BY <2>1, <2>2
<1>4. ASSUME wire' # <<>>
      PROVE  wire'[1] \in {"event", "data"}
  <2>1. wire'[1] = wire[k + 1] /\ k \in 1..Len(wire) - 1
    BY <1>1, <1>2, <1>4
  <2>2. Follows(wire[k], wire[k + 1])
    BY <2>1 DEF WireInv
  <2>3. QED
    BY <1>1, <2>1, <2>2 DEF Follows
<1>5. QED
  BY <1>2, <1>3, <1>4 DEF WireInv, Follows

\* What a goroutine writes belongs where it writes it.
LEMMA WriteFits ==
  ASSUME SendInv, HoldInv, WireInv, TailInv, NEW t \in Threads,
         NEW c, NEW next, Write(t, c, next), ~Dead,
         \/ pc[t] = "event" /\ c = "event"
         \/ pc[t] = "data" /\ c = "data"
         \/ pc[t] = "payload" /\ c = (IF Encoding = "binary" THEN data[buf[t]] ELSE arg[t])
         \/ pc[t] = "end" /\ c = "end"
  PROVE  /\ wire' = Append(wire, c) /\ c \in Chunks
         /\ pc[t] = "payload" => c = arg[t]
         /\ WireInv'
<1>1. wire' = Append(wire, c)
  BY DEF Write
<1>2. arg[t] \in Messages /\ (pc[t] = "payload" => c = arg[t])
  BY DEF SendInv, HoldInv, Encoded
<1>3. c \in Chunks
  BY <1>2 DEF Chunks
<1>4. wire = <<>> => c \in {"event", "data"}
  BY DEF TailInv
<1>5. wire # <<>> => Follows(wire[Len(wire)], c)
  BY <1>2 DEF TailInv, EndsIn, Follows
<1>6. QED
  BY <1>1, <1>2, <1>3, <1>4, <1>5, ChunkAppended

LEMMA WireStep == SendInv /\ HoldInv /\ TailInv /\ WireInv /\ [Next]_vars => WireInv'
<1> SUFFICES ASSUME SendInv, HoldInv, TailInv, WireInv, [Next]_vars
             PROVE  WireInv'
  OBVIOUS
<1>1. CASE UNCHANGED wire
  BY <1>1 DEF WireInv
<1>2. ASSUME NEW t \in Threads,
             WriteEvent(t) \/ WritePrefix(t) \/ WritePayload(t) \/ WriteEnd(t)
      PROVE  WireInv'
  <2>1. CASE Dead
    BY <1>1, <1>2, <2>1 DEF WriteEvent, WritePrefix, WritePayload, WriteEnd, Write
  <2>2. CASE ~Dead
    <3>1. CASE WriteEvent(t)
      BY <2>2, <3>1, WriteFits DEF WriteEvent
    <3>2. CASE WritePrefix(t)
      BY <2>2, <3>2, WriteFits DEF WritePrefix
    <3>3. CASE WritePayload(t)
      BY <2>2, <3>3, WriteFits DEF WritePayload
    <3>4. CASE WriteEnd(t)
      BY <2>2, <3>4, WriteFits DEF WriteEnd
    <3>5. QED
      BY <1>2, <3>1, <3>2, <3>3, <3>4
  <2>3. QED
    BY <2>1, <2>2
<1>3. CASE ReadLine
  <2>1. PICK k \in LineEnds : wire' = SubSeq(wire, k + 1, Len(wire))
    BY <1>3 DEF ReadLine
  <2>2. QED
    BY <2>1, LineDropped
<1>4. ASSUME NEW t \in Threads, NEW m \in Messages, BeginSend(t, m)
      PROVE  UNCHANGED wire
  BY <1>4 DEF BeginSend
<1>5. ASSUME NEW t \in Threads,
             GetBuffer(t) \/ Encode(t) \/ Lock(t) \/ Unlock(t) \/ PutBuffer(t)
      PROVE  UNCHANGED wire
  BY <1>5 DEF GetBuffer, Encode, Lock, Unlock, PutBuffer
<1>6. CASE HandlerReturn \/ WriteTimeout \/ Disconnect \/ CollectBuffers
  BY <1>1, <1>6 DEF HandlerReturn, WriteTimeout, Disconnect, CollectBuffers
<1>7. CASE BeginReceive \/ ReadEnd \/ Cancel \/ Close \/ Watch
  BY <1>1, <1>7 DEF BeginReceive, ReadEnd, Cancel, Close, Watch
<1>8. CASE UNCHANGED vars
  BY <1>1, <1>8 DEF vars
<1>9. QED
  BY <1>1, <1>2, <1>3, <1>4, <1>5, <1>6, <1>7, <1>8 DEF Next, SendStep

\* The connection does not come back.
LEMMA DeadForGood == Dead /\ [Next]_vars => Dead'
<1> SUFFICES ASSUME Dead, [Next]_vars
             PROVE  Dead'
  OBVIOUS
<1> USE DEF Dead, Gone, server, life
<1>1. ASSUME NEW t \in Threads, NEW m \in Messages, BeginSend(t, m)
      PROVE  Dead'
  BY <1>1 DEF BeginSend
<1>2. ASSUME NEW t \in Threads, SendStep(t)
      PROVE  Dead'
  BY <1>2 DEF SendStep, GetBuffer, Encode, Lock, WriteEvent, WritePrefix, WritePayload, WriteEnd,
              Unlock, PutBuffer
<1>3. CASE HandlerReturn \/ WriteTimeout \/ Disconnect \/ CollectBuffers
  BY <1>3 DEF HandlerReturn, WriteTimeout, Disconnect, CollectBuffers
<1>4. CASE BeginReceive \/ ReadLine \/ ReadEnd \/ Cancel \/ Close \/ Watch
  BY <1>4 DEF BeginReceive, ReadLine, ReadEnd, Cancel, Close, Watch
<1>5. CASE UNCHANGED vars
  BY <1>5 DEF vars
<1>6. QED
  BY <1>1, <1>2, <1>3, <1>4, <1>5 DEF Next

LEMMA TailStep == SendInv /\ HoldInv /\ WireInv /\ TailInv /\ [Next]_vars => TailInv'
<1> SUFFICES ASSUME SendInv, HoldInv, WireInv, TailInv, [Next]_vars, ~Dead', ~Dead
             PROVE  TailInv'
  BY DeadForGood DEF TailInv
<1> USE DEF EndsIn, Goto
<1>1. ASSUME UNCHANGED <<wire, mu>>,
             \A t \in Threads : pc'[t] # pc[t] => pc'[t] \in {"idle", "get", "fill", "lock"},
             \A t \in Threads : pc[t] = "end" => arg'[t] = arg[t]
      PROVE  TailInv'
  BY <1>1 DEF TailInv
<1>2. ASSUME NEW t \in Threads, NEW m \in Messages, BeginSend(t, m)
      PROVE  TailInv'
  <2>1. /\ \A u \in Threads : pc'[u] # pc[u] => pc'[u] \in {"get", "lock"}
        /\ \A u \in Threads : pc[u] = "end" => arg'[u] = arg[u]
    BY <1>2 DEF BeginSend, SendInv
  <2>2. UNCHANGED <<wire, mu>>
    BY <1>2 DEF BeginSend
  <2>3. QED
    BY <1>1, <2>1, <2>2
<1>3. ASSUME NEW t \in Threads, GetBuffer(t) \/ Encode(t)
      PROVE  TailInv'
  BY <1>1, <1>3 DEF GetBuffer, Encode, SendInv
<1>4. ASSUME NEW t \in Threads, Lock(t)
      PROVE  TailInv'
  BY <1>4 DEF Lock, TailInv, SendInv, sender, server
<1>5. ASSUME NEW t \in Threads, WriteEvent(t)
      PROVE  TailInv'
  <2>1. /\ wire' = Append(wire, "event") /\ pc' = [pc EXCEPT ![t] = "data"]
        /\ "event" \in Chunks /\ wire \in Seq(Chunks)
    BY <1>5 DEF WriteEvent, Write, Chunks, WireInv
  <2>2. wire' # <<>> /\ wire'[Len(wire')] = "event"
    BY <2>1, AppendFacts
  <2>3. QED
    BY <1>5, <2>1, <2>2 DEF WriteEvent, TailInv, SendInv
<1>6. ASSUME NEW t \in Threads, WritePrefix(t)
      PROVE  TailInv'
  <2>1. /\ wire' = Append(wire, "data") /\ pc' = [pc EXCEPT ![t] = "payload"]
        /\ "data" \in Chunks /\ wire \in Seq(Chunks)
    BY <1>6 DEF WritePrefix, Write, Chunks, WireInv
  <2>2. wire' # <<>> /\ wire'[Len(wire')] = "data"
    BY <2>1, AppendFacts
  <2>3. QED
    BY <1>6, <2>1, <2>2 DEF WritePrefix, TailInv, SendInv
<1>7. ASSUME NEW t \in Threads, WritePayload(t)
      PROVE  TailInv'
  <2>1. /\ wire' = Append(wire, arg[t]) /\ pc' = [pc EXCEPT ![t] = "end"]
        /\ arg[t] \in Chunks /\ wire \in Seq(Chunks)
    <3> DEFINE c == IF Encoding = "binary" THEN data[buf[t]] ELSE arg[t]
    <3>1. Write(t, c, "end") /\ pc[t] = "payload"
      BY <1>7 DEF WritePayload
    <3>2. wire' = Append(wire, c) /\ c \in Chunks /\ c = arg[t]
      BY <3>1, WriteFits
    <3>3. QED
      BY <3>1, <3>2 DEF Write, WireInv
  <2>2. wire' # <<>> /\ wire'[Len(wire')] = arg[t]
    BY <2>1, AppendFacts
  <2>3. QED
    BY <1>7, <2>1, <2>2 DEF WritePayload, TailInv, SendInv
<1>8. ASSUME NEW t \in Threads, WriteEnd(t)
      PROVE  TailInv'
  <2>1. /\ wire' = Append(wire, "end") /\ pc' = [pc EXCEPT ![t] = "unlock"]
        /\ "end" \in Chunks /\ wire \in Seq(Chunks)
    BY <1>8 DEF WriteEnd, Write, Chunks, WireInv
  <2>2. wire' # <<>> /\ wire'[Len(wire')] = "end"
    BY <2>1, AppendFacts
  <2>3. QED
    BY <1>8, <2>1, <2>2 DEF WriteEnd, TailInv, SendInv
<1>9. ASSUME NEW t \in Threads, Unlock(t)
      PROVE  TailInv'
  BY <1>9 DEF Unlock, Return, TailInv, SendInv
<1>10. ASSUME NEW t \in Threads, PutBuffer(t)
       PROVE  TailInv'
  BY <1>1, <1>10 DEF PutBuffer, Return, SendInv
<1>11. CASE ReadLine
  <2>1. PICK k \in LineEnds : wire' = SubSeq(wire, k + 1, Len(wire))
    BY <1>11 DEF ReadLine
  <2>2. /\ k \in 1..Len(wire) /\ Len(wire) \in Nat /\ wire[k] \in {"event", "end"}
        /\ wire \in Seq(Chunks) /\ UNCHANGED <<pc, mu, arg>>
    BY <1>11 DEF LineEnds, WireInv, ReadLine, sender
  <2>3. /\ wire' \in Seq(Chunks) /\ Len(wire') = Len(wire) - k
        /\ \A i \in 1..Len(wire) - k : wire'[i] = wire[i + k]
    BY <2>1, <2>2, DropFacts
  <2>4. wire' # <<>> => wire'[Len(wire')] = wire[Len(wire)]
    BY <2>2, <2>3
  <2>5. wire' = <<>> => wire[Len(wire)] \in {"event", "end"}
    BY <2>2, <2>3
  <2>6. ASSUME NEW t \in Threads, pc[t] \in {"payload", "end"}
        PROVE  wire' # <<>>
    BY <2>2, <2>5, <2>6 DEF TailInv, SendInv
  <2>7. wire # <<>>
    BY <2>2
  <2>8. QED
    BY <2>2, <2>4, <2>6, <2>7 DEF TailInv
<1>12. CASE HandlerReturn \/ WriteTimeout \/ Disconnect \/ CollectBuffers
  BY <1>1, <1>12 DEF HandlerReturn, WriteTimeout, Disconnect, CollectBuffers, sender
<1>13. CASE BeginReceive \/ ReadEnd \/ Cancel \/ Close \/ Watch
  BY <1>1, <1>13 DEF BeginReceive, ReadEnd, Cancel, Close, Watch, sender
<1>14. CASE UNCHANGED vars
  BY <1>1, <1>14 DEF vars, sender
<1>15. QED
  BY <1>2, <1>3, <1>4, <1>5, <1>6, <1>7, <1>8, <1>9, <1>10, <1>11, <1>12, <1>13, <1>14
     DEF Next, SendStep

-----------------------------------------------------------------------------
(* The events that the client has yet to read are the messages that were    *)
(* sent and not received.                                                   *)

LEMMA MarksKept ==
  ASSUME NEW w \in Seq(Chunks), NEW c \in Chunks, NEW s, NEW n, NEW p, Marks(p, w, s, n),
         c # "end"
  PROVE  Marks(p, Append(w, c), s, n)
<1> DEFINE v == Append(w, c)
<1>1. /\ Len(v) = Len(w) + 1 /\ v[Len(w) + 1] = c /\ Len(w) \in Nat
      /\ \A i \in 1..Len(w) : v[i] = w[i]
      /\ w = <<>> <=> Len(w) = 0
  BY AppendFacts
<1> HIDE DEF v
<1>2. p \in [1..Len(s) - n -> 1..Len(w)]
  BY DEF Marks
<1>3. p \in [1..Len(s) - n -> 1..Len(v)]
  BY <1>1, <1>2
<1>4. ASSUME NEW j \in DOMAIN p
      PROVE  p[j] > 1 /\ v[p[j]] = "end" /\ v[p[j] - 1] = s[n + j]
  <2>1. p[j] \in 1..Len(w) /\ p[j] > 1 /\ w[p[j]] = "end" /\ w[p[j] - 1] = s[n + j]
    BY <1>2 DEF Marks
  <2>2. p[j] - 1 \in 1..Len(w)
    BY <1>1, <2>1
  <2>3. QED
    BY <1>1, <2>1, <2>2
<1>5. ASSUME NEW i \in 2..Len(v), v[i] = "end"
      PROVE  \E j \in DOMAIN p : p[j] = i
  <2>1. CASE i \in 2..Len(w)
    <3>1. w[i] = "end"
      BY <1>1, <1>5, <2>1
    <3>2. QED
      BY <2>1, <3>1 DEF Marks
  <2>2. CASE i = Len(w) + 1
    BY <1>1, <1>5, <2>2
  <2>3. QED
    BY <1>1, <2>1, <2>2
<1>6. \A i, j \in DOMAIN p : i < j => p[i] < p[j]
  BY DEF Marks
<1>7. QED
  BY <1>3, <1>4, <1>5, <1>6 DEF Marks, v

LEMMA MarkAdded ==
  ASSUME NEW w \in Seq(Chunks), w # <<>>, NEW s \in Seq(Messages), NEW n \in Nat, n <= Len(s),
         w[Len(w)] \in Messages, NEW p, Marks(p, w, s, n)
  PROVE  \E q : Marks(q, Append(w, "end"), Append(s, w[Len(w)]), n)
<1> DEFINE v == Append(w, "end")
           r == Append(s, w[Len(w)])
<1>1. PICK l \in Nat \ {0} : l = Len(w)
  OBVIOUS
<1>2. PICK k \in Nat : k = Len(s) - n
  OBVIOUS
<1>3. /\ Len(v) = l + 1 /\ v[l + 1] = "end"
      /\ \A i \in 1..l : v[i] = w[i]
  BY <1>1, AppendFacts DEF Chunks
<1>4. /\ Len(r) - n = k + 1 /\ r[n + (k + 1)] = w[l]
      /\ \A j \in 1..k : r[n + j] = s[n + j]
  <2>1. /\ Len(r) = Len(s) + 1 /\ r[Len(s) + 1] = w[l]
        /\ \A i \in 1..Len(s) : r[i] = s[i]
    BY <1>1, AppendFacts
  <2>2. Len(s) + 1 = n + (k + 1) /\ \A j \in 1..k : n + j \in 1..Len(s)
    BY <1>2
  <2>3. QED
    BY <1>2, <2>1, <2>2
<1> HIDE DEF v, r
<1>5. /\ p \in [1..k -> 1..l]
      /\ \A j \in 1..k : p[j] > 1 /\ w[p[j]] = "end" /\ w[p[j] - 1] = s[n + j]
      /\ \A i, j \in 1..k : i < j => p[i] < p[j]
      /\ \A i \in 2..l : w[i] = "end" => \E j \in 1..k : p[j] = i
  BY <1>1, <1>2 DEF Marks
<1>6. PICK q \in [1..k + 1 -> 1..l + 1] : q[k + 1] = l + 1 /\ \A j \in 1..k : q[j] = p[j]
  <2> DEFINE f == [j \in 1..k + 1 |-> IF j = k + 1 THEN l + 1 ELSE p[j]]
  <2>1. \A j \in 1..k + 1 : f[j] \in 1..l + 1
    BY <1>5
  <2>2. \A j \in 1..k : f[j] = p[j]
    OBVIOUS
  <2>3. f[k + 1] = l + 1
    OBVIOUS
  <2>4. f \in [1..k + 1 -> 1..l + 1]
    BY <2>1
  <2>5. QED
    BY <2>2, <2>3, <2>4
<1>7. ASSUME NEW j \in 1..k + 1
      PROVE  q[j] > 1 /\ v[q[j]] = "end" /\ v[q[j] - 1] = r[n + j]
  <2>1. CASE j \in 1..k
    <3>1. q[j] = p[j] /\ p[j] \in 1..l /\ p[j] - 1 \in 1..l
      BY <1>5, <1>6, <2>1
    <3>2. v[p[j]] = w[p[j]] /\ v[p[j] - 1] = w[p[j] - 1] /\ r[n + j] = s[n + j]
      BY <1>3, <1>4, <2>1, <3>1
    <3>3. p[j] > 1 /\ w[p[j]] = "end" /\ w[p[j] - 1] = s[n + j]
      BY <1>5, <2>1
    <3>4. QED
      BY <3>1, <3>2, <3>3
  <2>2. CASE j = k + 1
    <3>1. q[j] = l + 1 /\ q[j] - 1 = l /\ l \in 1..l
      BY <1>6, <2>2
    <3>2. QED
      BY <1>3, <1>4, <2>2, <3>1
  <2>3. QED
    BY <2>1, <2>2
<1>8. ASSUME NEW i \in 1..k + 1, NEW j \in 1..k + 1, i < j
      PROVE  q[i] < q[j]
  <2>1. i \in 1..k /\ q[i] = p[i] /\ p[i] \in 1..l
    BY <1>5, <1>6, <1>8
  <2>2. CASE j \in 1..k
    BY <1>5, <1>6, <1>8, <2>1, <2>2
  <2>3. CASE j = k + 1
    BY <1>6, <2>1, <2>3
  <2>4. QED
    BY <2>2, <2>3
<1>9. ASSUME NEW i \in 2..l + 1, v[i] = "end"
      PROVE  \E j \in 1..k + 1 : q[j] = i
  <2>1. CASE i \in 2..l
    <3>1. i \in 1..l /\ i - 1 \in 1..l
      BY <2>1
    <3>2. PICK j \in 1..k : p[j] = i
      BY <1>3, <1>5, <1>9, <2>1, <3>1
    <3>3. j \in 1..k + 1 /\ q[j] = i
      BY <1>6, <3>2
    <3>4. QED
      BY <3>3
  <2>2. CASE i = l + 1
    BY <1>6, <2>2
  <2>3. QED
    BY <2>1, <2>2
<1>10. Marks(q, v, r, n)
  BY <1>3, <1>4, <1>6, <1>7, <1>8, <1>9 DEF Marks
<1>11. QED
  BY <1>10 DEF v, r

\* Chunks that hold none of the marks are taken off the wire.
LEMMA MarksShifted ==
  ASSUME NEW w \in Seq(Chunks), NEW k \in 1..Len(w), NEW s \in Seq(Messages), NEW n \in Nat,
         n <= Len(s), NEW p, Marks(p, w, s, n), \A j \in DOMAIN p : p[j] > k + 1
  PROVE  \E q : Marks(q, SubSeq(w, k + 1, Len(w)), s, n)
<1> DEFINE v == SubSeq(w, k + 1, Len(w))
<1>1. PICK l \in Nat : l = Len(w)
  OBVIOUS
<1>2. PICK m \in Nat : m = Len(s) - n
  OBVIOUS
<1>3. Len(v) = l - k /\ \A i \in 1..l - k : v[i] = w[i + k]
  BY <1>1, DropFacts
<1> HIDE DEF v
<1>4. /\ p \in [1..m -> 1..l]
      /\ \A j \in 1..m : p[j] > k + 1 /\ w[p[j]] = "end" /\ w[p[j] - 1] = s[n + j]
      /\ \A i, j \in 1..m : i < j => p[i] < p[j]
      /\ \A i \in 2..l : w[i] = "end" => \E j \in 1..m : p[j] = i
  BY <1>1, <1>2 DEF Marks
<1>5. PICK q \in [1..m -> 1..l - k] : \A j \in 1..m : q[j] = p[j] - k
  <2> DEFINE f == [j \in 1..m |-> p[j] - k]
  <2>1. ASSUME NEW j \in 1..m
        PROVE  p[j] - k \in 1..l - k
    <3>1. p[j] \in 1..l /\ p[j] > k + 1
      BY <1>4
    <3>2. QED
      BY <1>1, <3>1
  <2>2. f \in [1..m -> 1..l - k] /\ \A j \in 1..m : f[j] = p[j] - k
    BY <2>1
  <2>3. QED
    BY <2>2
<1>6. ASSUME NEW j \in 1..m
      PROVE  q[j] > 1 /\ v[q[j]] = "end" /\ v[q[j] - 1] = s[n + j]
  <2>1. p[j] \in 1..l /\ p[j] > k + 1 /\ w[p[j]] = "end" /\ w[p[j] - 1] = s[n + j]
    BY <1>4
  <2>2. /\ q[j] \in 1..l - k /\ q[j] + k = p[j] /\ q[j] > 1
        /\ q[j] - 1 \in 1..l - k /\ (q[j] - 1) + k = p[j] - 1
    <3>1. PICK x \in 1..l : x = p[j] /\ x > k + 1
      BY <2>1
    <3>2. PICK y \in 1..l - k : y = q[j]
      BY <1>5
    <3>3. y = x - k /\ k \in Nat
      BY <1>5, <3>1, <3>2
    <3>4. x > k + 1 /\ x \in Int /\ y \in Int
      BY <3>1
    <3>5. y + k = x /\ y > 1
      BY <3>3, <3>4
    <3>6. (y - 1) + k = x - 1
      BY <3>3, <3>4
    <3>7. y - 1 \in 1..l - k
      BY <3>4, <3>5
    <3>8. QED
      BY <3>1, <3>2, <3>5, <3>6, <3>7
  <2>3. v[q[j]] = w[p[j]] /\ v[q[j] - 1] = w[p[j] - 1]
    BY <1>3, <2>2
  <2>4. QED
    BY <2>1, <2>2, <2>3
<1>7. ASSUME NEW i \in 1..m, NEW j \in 1..m, i < j
      PROVE  q[i] < q[j]
  <2>1. p[i] < p[j] /\ p[i] \in 1..l /\ p[j] \in 1..l
    BY <1>4, <1>7
  <2>2. QED
    BY <1>5, <2>1
<1>8. ASSUME NEW i \in 2..l - k, v[i] = "end"
      PROVE  \E j \in 1..m : q[j] = i
  <2>1. /\ i \in 1..l - k /\ i - 1 \in 1..l - k /\ i + k \in 2..l
        /\ (i - 1) + k = (i + k) - 1 /\ (i + k) - k = i
    BY <1>1
  <2>2. w[i + k] = "end"
    BY <1>3, <1>8, <2>1
  <2>3. PICK j \in 1..m : p[j] = i + k
    BY <1>4, <2>1, <2>2
  <2>4. QED
    BY <1>5, <2>1, <2>3
<1>9. Marks(q, v, s, n)
  BY <1>2, <1>3, <1>5, <1>6, <1>7, <1>8 DEF Marks
<1>10. QED
  BY <1>9 DEF v

\* A whole event is taken off the wire: its message is the next one.
LEMMA FirstMark ==
  ASSUME NEW w \in Seq(Chunks), Len(w) >= 3, NEW s \in Seq(Messages), NEW n \in Nat, n <= Len(s),
         w[1] = "data", w[2] \in Messages, w[3] = "end", NEW p, Marks(p, w, s, n)
  PROVE  /\ n < Len(s) /\ s[n + 1] = w[2]
         /\ \E q : Marks(q, SubSeq(w, 4, Len(w)), s, n + 1)
<1> DEFINE v == SubSeq(w, 4, Len(w))
<1>1. PICK l \in Nat : l = Len(w) /\ l >= 3
  OBVIOUS
<1>2. PICK m \in Nat : m = Len(s) - n
  <2>1. Len(s) \in Nat /\ \A a, b \in Nat : b <= a => a - b \in Nat
    OBVIOUS
  <2>2. Len(s) - n \in Nat
    BY <2>1
  <2>3. QED
    BY <2>2
<1>3. Len(v) = l - 3 /\ \A i \in 1..l - 3 : v[i] = w[i + 3]
  <2>1. 3 \in 1..Len(w) /\ 3 + 1 = 4
    BY <1>1
  <2>2. QED
    BY <1>1, <2>1, DropFacts
<1> HIDE DEF v
<1>4. /\ p \in [1..m -> 1..l]
      /\ \A j \in 1..m : p[j] > 1 /\ w[p[j]] = "end" /\ w[p[j] - 1] = s[n + j]
      /\ \A i, j \in 1..m : i < j => p[i] < p[j]
      /\ \A i \in 2..l : w[i] = "end" => \E j \in 1..m : p[j] = i
  BY <1>1, <1>2 DEF Marks
<1>5. \A j \in 1..m : p[j] \in 1..l /\ p[j] >= 3
  BY <1>1, <1>4
<1>6. m >= 1 /\ p[1] = 3
  <2>1. 3 \in 2..l /\ 3 - 1 = 2
    BY <1>1
  <2>2. PICK j \in 1..m : p[j] = 3
    BY <1>4, <2>1
  <2>3. 1 \in 1..m
    BY <2>2
  <2>4. j = 1
    <3>1. ~(1 < j)
      BY <1>4, <1>5, <2>2, <2>3
    <3>2. QED
      BY <3>1
  <2>5. QED
    BY <2>2, <2>3, <2>4
<1>7. n < Len(s) /\ s[n + 1] = w[2]
  BY <1>2, <1>4, <1>6
<1>8. ASSUME NEW j \in 1..m - 1
      PROVE  j + 1 \in 1..m /\ p[j + 1] > 4
  <2>1. j + 1 \in 1..m /\ 1 \in 1..m /\ 1 < j + 1
    OBVIOUS
  <2>2. p[j + 1] > 3 /\ p[j + 1] \in 1..l /\ w[p[j + 1] - 1] = s[n + (j + 1)]
    BY <1>4, <1>6, <2>1
  <2>3. s[n + (j + 1)] \in Messages
    BY <1>2, <2>1
  <2>4. p[j + 1] # 4
    <3>1. ASSUME p[j + 1] = 4
          PROVE  FALSE
      <4>1. p[j + 1] - 1 = 3
        BY <3>1
      <4>2. QED
        BY <2>2, <2>3, <4>1
    <3>2. QED
      BY <3>1
  <2>5. QED
    BY <2>1, <2>2, <2>4
<1>9. PICK q \in [1..m - 1 -> 1..l - 3] : \A j \in 1..m - 1 : q[j] = p[j + 1] - 3
  <2> DEFINE f == [j \in 1..m - 1 |-> p[j + 1] - 3]
  <2>1. ASSUME NEW j \in 1..m - 1
        PROVE  p[j + 1] - 3 \in 1..l - 3
    <3>1. p[j + 1] \in 1..l /\ p[j + 1] > 4
      BY <1>5, <1>8
    <3>2. QED
      BY <1>1, <3>1
  <2>2. f \in [1..m - 1 -> 1..l - 3] /\ \A j \in 1..m - 1 : f[j] = p[j + 1] - 3
    BY <2>1
  <2>3. QED
    BY <2>2
<1>10. ASSUME NEW j \in 1..m - 1
       PROVE  q[j] > 1 /\ v[q[j]] = "end" /\ v[q[j] - 1] = s[(n + 1) + j]
  <2>1. /\ p[j + 1] \in 1..l /\ p[j + 1] > 4 /\ w[p[j + 1]] = "end"
        /\ w[p[j + 1] - 1] = s[n + (j + 1)] /\ n + (j + 1) = (n + 1) + j
    <3>1. j + 1 \in 1..m /\ p[j + 1] > 4
      BY <1>8
    <3>2. /\ p[j + 1] \in 1..l /\ w[p[j + 1]] = "end"
          /\ w[p[j + 1] - 1] = s[n + (j + 1)]
      BY <1>4, <1>5, <3>1
    <3>3. n + (j + 1) = (n + 1) + j
      OBVIOUS
    <3>4. QED
      BY <3>1, <3>2, <3>3
  <2>2. /\ q[j] \in 1..l - 3 /\ q[j] + 3 = p[j + 1] /\ q[j] > 1
        /\ q[j] - 1 \in 1..l - 3 /\ (q[j] - 1) + 3 = p[j + 1] - 1
    <3>1. PICK x \in 1..l : x = p[j + 1] /\ x > 3 + 1
      BY <2>1
    <3>2. PICK y \in 1..l - 3 : y = q[j]
      BY <1>9
    <3>3. y = x - 3
      BY <1>9, <3>1, <3>2
    <3>4. x > 3 + 1 /\ x \in Int /\ y \in Int
      BY <3>1
    <3>5. y + 3 = x /\ y > 1
      BY <3>3, <3>4
    <3>6. (y - 1) + 3 = x - 1
      BY <3>3, <3>4
    <3>7. y - 1 \in 1..l - 3
      BY <3>4, <3>5
    <3>8. QED
      BY <3>1, <3>2, <3>5, <3>6, <3>7
  <2>3. v[q[j]] = w[p[j + 1]] /\ v[q[j] - 1] = w[p[j + 1] - 1]
    BY <1>3, <2>2
  <2>4. QED
    BY <2>1, <2>2, <2>3
<1>11. ASSUME NEW i \in 1..m - 1, NEW j \in 1..m - 1, i < j
       PROVE  q[i] < q[j]
  <2>1. i + 1 \in 1..m /\ j + 1 \in 1..m /\ i + 1 < j + 1
    BY <1>11
  <2>2. p[i + 1] < p[j + 1] /\ p[i + 1] \in 1..l /\ p[j + 1] \in 1..l
    BY <1>4, <2>1
  <2>3. QED
    BY <1>9, <2>2
<1>12. ASSUME NEW i \in 2..l - 3, v[i] = "end"
       PROVE  \E j \in 1..m - 1 : q[j] = i
  <2>1. /\ i \in 1..l - 3 /\ i - 1 \in 1..l - 3 /\ i + 3 \in 2..l
        /\ (i - 1) + 3 = (i + 3) - 1 /\ (i + 3) - 3 = i
    BY <1>1
  <2>2. w[i + 3] = "end"
    BY <1>3, <1>12, <2>1
  <2>3. PICK j \in 1..m : p[j] = i + 3
    BY <1>4, <2>1, <2>2
  <2>4. j # 1
    BY <1>6, <2>3
  <2>5. j - 1 \in 1..m - 1 /\ (j - 1) + 1 = j
    BY <2>4
  <2>6. q[j - 1] = i
    BY <1>9, <2>1, <2>3, <2>5
  <2>7. QED
    BY <2>5, <2>6
<1>13. Len(s) - (n + 1) = m - 1
  BY <1>2
<1>14. Marks(q, v, s, n + 1)
  BY <1>3, <1>9, <1>10, <1>11, <1>12, <1>13 DEF Marks
<1>15. QED
  BY <1>7, <1>14 DEF v

\* A line that holds no message holds no mark.
LEMMA NoMarkInLine ==
  ASSUME NEW p, Marks(p, wire, sent, Len(received)), wire[1] = "event", WireInv, HistoryInv
  PROVE  \A j \in DOMAIN p : p[j] > 2
<1> SUFFICES ASSUME NEW j \in DOMAIN p
             PROVE  p[j] > 2
  OBVIOUS
<1>1. PICK m \in Nat : m = Len(sent) - Len(received)
  <2>1. \A a, b \in Nat : b <= a => a - b \in Nat
    OBVIOUS
  <2>2. Len(sent) \in Nat /\ Len(received) \in Nat /\ Len(received) <= Len(sent)
    BY DEF HistoryInv, HistoryTypes
  <2>3. QED
    BY <2>1, <2>2
<1>2. j \in 1..m /\ p[j] \in 1..Len(wire)
  BY <1>1 DEF Marks
<1>3. p[j] > 1 /\ wire[p[j] - 1] = sent[Len(received) + j]
  BY DEF Marks
<1>4. wire[p[j] - 1] \in Messages
  <2>1. Len(received) + j \in 1..Len(sent)
    BY <1>1, <1>2 DEF HistoryInv, HistoryTypes
  <2>2. QED
    BY <1>3, <2>1 DEF HistoryInv, HistoryTypes
<1>5. PICK x \in Nat : x = p[j] /\ x > 1 /\ wire[x - 1] \in Messages
  BY <1>2, <1>3, <1>4
<1>6. "event" \notin Messages
  BY StreamAssumption
<1>7. x # 2
  <2>1. x = 2 => x - 1 = 1
    OBVIOUS
  <2>2. QED
    BY <1>5, <1>6, <2>1
<1>8. QED
  BY <1>5, <1>7

\* A chunk written other than the end of a message leaves the history alone.
LEMMA ChunkKeepsHistory ==
  ASSUME WireInv, HistoryInv, PendingInv, NEW c \in Chunks,
         c # "end",
         wire' = Append(wire, c), UNCHANGED <<sent, received>>
  PROVE  HistoryInv' /\ PendingInv'
<1>1. PICK p : Marks(p, wire, sent, Len(received))
  BY DEF PendingInv
<1>2. Marks(p, Append(wire, c), sent, Len(received))
  BY <1>1, MarksKept DEF WireInv
<1>3. Marks(p, wire', sent', Len(received'))
  BY <1>2
<1>4. PendingInv'
  BY <1>3 DEF PendingInv, Marks
<1>5. QED
  BY <1>4 DEF HistoryInv, HistoryTypes

LEMMA EndAddsMark ==
  ASSUME SendInv, WireInv, TailInv, HistoryInv, PendingInv, ~Dead,
         NEW t \in Threads, pc[t] = "end",
         wire' = Append(wire, "end"), sent' = Append(sent, arg[t]), UNCHANGED received
  PROVE  HistoryInv' /\ PendingInv'
<1>1. arg[t] \in Messages /\ wire # <<>> /\ wire[Len(wire)] = arg[t]
  BY DEF SendInv, TailInv, EndsIn
<1>2. /\ sent' \in Seq(Messages) /\ Len(sent') = Len(sent) + 1
      /\ \A i \in 1..Len(sent) : sent'[i] = sent[i]
      /\ Len(sent) \in Nat
  BY <1>1, AppendFacts DEF HistoryInv, HistoryTypes
<1>3. HistoryInv'
  <2>1. \A i \in 1..Len(received) : i \in 1..Len(sent)
    BY <1>2 DEF HistoryInv, HistoryTypes
  <2>2. QED
    BY <1>2, <2>1 DEF HistoryInv, HistoryTypes
<1>4. PICK p : Marks(p, wire, sent, Len(received))
  BY DEF PendingInv
<1>5. /\ wire \in Seq(Chunks) /\ sent \in Seq(Messages) /\ Len(received) \in Nat
      /\ Len(received) <= Len(sent)
  BY DEF WireInv, HistoryInv, HistoryTypes
<1>6. \E q : Marks(q, Append(wire, "end"), Append(sent, wire[Len(wire)]), Len(received))
  BY <1>1, <1>4, <1>5, MarkAdded
<1>7. PICK q : Marks(q, wire', sent', Len(received'))
  BY <1>1, <1>6
<1>8. PendingInv'
  BY <1>7 DEF PendingInv, Marks
<1>9. QED
  BY <1>3, <1>8

\* Receive skips a line that is no data, and an empty one; it reports the
\* message of any other, and never a piece of one.
LEMMA LineRead ==
  ASSUME WireInv, received \in Seq(Messages), ReadLine
  PROVE  \E k \in 1..Len(wire) :
           /\ wire' = SubSeq(wire, k + 1, Len(wire))
           /\ \/ k = 1 /\ wire[1] = "event" /\ UNCHANGED received
              \/ /\ k = 3 /\ wire[1] = "data" /\ wire[2] \in Messages /\ wire[3] = "end"
                 /\ \/ wire[2] \in Blank /\ UNCHANGED received
                    \/ wire[2] \notin Blank /\ received' = Append(received, wire[2])
<1>1. PICK k \in LineEnds :
        /\ \A i \in LineEnds : k <= i
        /\ wire' = SubSeq(wire, k + 1, Len(wire))
        /\ LET payload == SubSeq(wire, 2, k - 1) IN
             \/ /\ wire[1] # "data" \/ (Len(payload) = 1 /\ payload[1] \in Blank)
                /\ UNCHANGED <<rcv, received>>
             \/ /\ wire[1] = "data" /\ Len(payload) = 1
                /\ payload[1] \notin Blank
                /\ ReceiveReturns(payload)
             \/ /\ wire[1] = "data" /\ Len(payload) # 1
                /\ ReceiveReturns(<<"garbled">>)
  BY DEF ReadLine
<1>2. k \in 1..Len(wire) /\ wire \in Seq(Chunks) /\ Len(wire) \in Nat
  BY DEF LineEnds, WireInv
<1>3. CASE wire[1] = "event" /\ k = 1
  BY <1>1, <1>2, <1>3
<1>4. CASE wire[1] = "data" /\ k = 3 /\ Len(wire) >= 3 /\ wire[2] \in Messages /\ wire[3] = "end"
  <2>1. SubSeq(wire, 2, k - 1) = <<wire[2]>>
    <3>1. k - 1 = 2 /\ 2 \in 1..Len(wire)
      BY <1>2, <1>4
    <3>2. SubSeq(wire, 2, 2) = <<wire[2]>>
      BY <1>2, <3>1, OneElement
    <3>3. QED
      BY <3>1, <3>2
  <2>2. PICK payload : payload = SubSeq(wire, 2, k - 1)
    OBVIOUS
  <2>3. Len(payload) = 1 /\ payload[1] = wire[2]
    <3>1. Len(<<wire[2]>>) = 1 /\ <<wire[2]>>[1] = wire[2]
      OBVIOUS
    <3>2. payload = <<wire[2]>>
      BY <2>1, <2>2
    <3>3. QED
      BY <3>1, <3>2, Zenon
  <2>4. CASE wire[2] \in Blank
    BY <1>1, <1>2, <1>4, <2>2, <2>3, <2>4
  <2>5. CASE wire[2] \notin Blank
    <3>1. ReceiveReturns(payload)
      BY <1>1, <1>4, <2>2, <2>3, <2>5
    <3>2. received' = received \o <<wire[2]>>
      BY <2>1, <2>2, <3>1 DEF ReceiveReturns
    <3>3. received' = Append(received, wire[2])
      BY <1>4, <3>2
    <3>4. QED
      BY <1>1, <1>2, <1>4, <2>5, <3>3
  <2>6. QED
    BY <2>4, <2>5
<1>5. QED
  BY <1>1, <1>3, <1>4, LineShape

LEMMA TypesStep == SendInv /\ WireInv /\ HistoryTypes /\ [Next]_vars => HistoryTypes'
<1> SUFFICES ASSUME SendInv, WireInv, HistoryTypes, [Next]_vars
             PROVE  HistoryTypes'
  OBVIOUS
<1> USE DEF HistoryTypes
<1>1. ASSUME NEW t \in Threads, WriteEnd(t)
      PROVE  HistoryTypes'
  <2>1. arg[t] \in Messages /\ UNCHANGED received
    BY <1>1 DEF WriteEnd, SendInv, client
  <2>2. UNCHANGED sent \/ sent' = Append(sent, arg[t])
    BY <1>1 DEF WriteEnd
  <2>3. QED
    BY <2>1, <2>2, AppendFacts
<1>2. CASE ReadLine
  <2>1. UNCHANGED sent
    BY <1>2 DEF ReadLine
  <2>2. \/ UNCHANGED received
        \/ \E m \in Messages : received' = Append(received, m)
    BY <1>2, LineRead
  <2>3. QED
    BY <2>1, <2>2, AppendFacts
<1>3. CASE ReadEnd
  <2>1. received' = received \o <<>> /\ UNCHANGED sent
    BY <1>3 DEF ReadEnd, ReceiveReturns
  <2>2. QED
    BY <2>1, ConcatEmptySeq
<1>4. ASSUME UNCHANGED <<sent, received>>
      PROVE  HistoryTypes'
  BY <1>4
<1>5. ASSUME NEW t \in Threads, NEW m \in Messages, BeginSend(t, m)
      PROVE  HistoryTypes'
  BY <1>5 DEF BeginSend, client
<1>6. ASSUME NEW t \in Threads,
             \/ GetBuffer(t) \/ Encode(t) \/ Lock(t) \/ Unlock(t) \/ PutBuffer(t)
             \/ WriteEvent(t) \/ WritePrefix(t) \/ WritePayload(t)
      PROVE  HistoryTypes'
  BY <1>4, <1>6 DEF GetBuffer, Encode, Lock, Unlock, PutBuffer, WriteEvent, WritePrefix,
                    WritePayload, client
<1>7. CASE HandlerReturn \/ WriteTimeout \/ Disconnect \/ CollectBuffers
  BY <1>4, <1>7 DEF HandlerReturn, WriteTimeout, Disconnect, CollectBuffers, client
<1>8. CASE BeginReceive \/ Cancel \/ Close \/ Watch
  BY <1>4, <1>8 DEF BeginReceive, Cancel, Close, Watch, client
<1>9. CASE UNCHANGED vars
  BY <1>4, <1>9 DEF vars, client
<1>10. QED
  BY <1>1, <1>2, <1>3, <1>5, <1>6, <1>7, <1>8, <1>9 DEF Next, SendStep

\* When no message encodes to nothing, Receive skips a line without a
\* message, and reports the message of any other: the next that was sent.
LEMMA LineSkippedOrNext ==
  ASSUME Blank = {}, WireInv, HistoryInv, PendingInv, ReadLine
  PROVE  /\ HistoryInv' /\ PendingInv'
         /\ \/ UNCHANGED received
            \/ /\ Len(received) < Len(sent)
               /\ received' = Append(received, sent[Len(received) + 1])
<1>1. PICK k \in 1..Len(wire) :
        /\ wire' = SubSeq(wire, k + 1, Len(wire))
        /\ \/ k = 1 /\ wire[1] = "event" /\ UNCHANGED received
           \/ /\ k = 3 /\ wire[1] = "data" /\ wire[2] \in Messages /\ wire[3] = "end"
              /\ received' = Append(received, wire[2])
  BY LineRead DEF HistoryInv, HistoryTypes
<1>2. UNCHANGED sent
  BY DEF ReadLine
<1>3. wire \in Seq(Chunks) /\ Len(wire) \in Nat
  BY DEF WireInv
<1>4. PICK p : Marks(p, wire, sent, Len(received))
  BY DEF PendingInv
<1>5. /\ sent \in Seq(Messages) /\ Len(received) \in Nat /\ Len(received) <= Len(sent)
      /\ received \in Seq(Messages)
  BY DEF HistoryInv, HistoryTypes
<1>6. CASE wire[1] = "event" /\ k = 1 /\ UNCHANGED received
  <2>1. \A j \in DOMAIN p : p[j] > k + 1
    BY <1>4, <1>6, NoMarkInLine
  <2>2. PICK q : Marks(q, SubSeq(wire, k + 1, Len(wire)), sent, Len(received))
    BY <1>3, <1>4, <1>5, <2>1, MarksShifted
  <2>3. Marks(q, wire', sent', Len(received'))
    BY <1>1, <1>2, <1>6, <2>2
  <2>4. PendingInv'
    BY <2>3 DEF PendingInv, Marks
  <2>5. QED
    BY <1>2, <1>6, <2>4 DEF HistoryInv, HistoryTypes
<1>7. CASE /\ k = 3 /\ wire[1] = "data" /\ wire[2] \in Messages /\ wire[3] = "end"
           /\ received' = Append(received, wire[2])
  <2>1. /\ Len(received) < Len(sent) /\ sent[Len(received) + 1] = wire[2]
        /\ \E q : Marks(q, SubSeq(wire, 4, Len(wire)), sent, Len(received) + 1)
    BY <1>3, <1>4, <1>5, <1>7, FirstMark
  <2>2. /\ received' \in Seq(Messages) /\ Len(received') = Len(received) + 1
        /\ received'[Len(received) + 1] = wire[2]
        /\ \A i \in 1..Len(received) : received'[i] = received[i]
    BY <1>5, <1>7, AppendFacts
  <2>3. PICK q : Marks(q, wire', sent', Len(received'))
    <3>1. wire' = SubSeq(wire, 4, Len(wire))
      BY <1>1, <1>7
    <3>2. QED
      BY <1>2, <2>1, <2>2, <3>1
  <2>4. PendingInv'
    BY <2>3 DEF PendingInv, Marks
  <2>5. HistoryInv'
    <3>1. Len(received') <= Len(sent)
      BY <1>5, <2>1, <2>2
    <3>2. ASSUME NEW i \in 1..Len(received')
          PROVE  received'[i] = sent[i]
      <4>1. i \in 1..Len(received) \/ i = Len(received) + 1
        BY <1>5, <2>2
      <4>2. QED
        BY <2>1, <2>2, <4>1 DEF HistoryInv, HistoryTypes
    <3>3. QED
      BY <1>2, <1>5, <2>2, <3>1, <3>2 DEF HistoryInv, HistoryTypes
  <2>6. QED
    BY <1>7, <2>1, <2>4, <2>5
<1>8. QED
  BY <1>1, <1>6, <1>7

LEMMA HistoryStep ==
  /\ Blank = {} /\ SendInv /\ HoldInv /\ WireInv /\ TailInv /\ HistoryInv /\ PendingInv
  /\ [Next]_vars
  => HistoryInv' /\ PendingInv'
<1> SUFFICES ASSUME Blank = {}, SendInv, HoldInv, WireInv, TailInv, HistoryInv, PendingInv, [Next]_vars
             PROVE  HistoryInv' /\ PendingInv'
  OBVIOUS
<1>1. ASSUME UNCHANGED <<wire, sent, received>>
      PROVE  HistoryInv' /\ PendingInv'
  <2>1. PICK p : Marks(p, wire, sent, Len(received))
    BY DEF PendingInv
  <2>2. Marks(p, wire', sent', Len(received'))
    BY <1>1, <2>1
  <2>3. PendingInv'
    BY <2>2 DEF PendingInv, Marks
  <2>4. QED
    BY <1>1, <2>3 DEF HistoryInv, HistoryTypes
<1>2. ASSUME NEW t \in Threads, WriteEvent(t) \/ WritePrefix(t) \/ WritePayload(t)
      PROVE  HistoryInv' /\ PendingInv'
  <2>1. UNCHANGED <<sent, received>>
    BY <1>2 DEF WriteEvent, WritePrefix, WritePayload, client
  <2>2. CASE Dead
    BY <1>1, <1>2, <2>1, <2>2 DEF WriteEvent, WritePrefix, WritePayload, Write
  <2>3. CASE ~Dead
    <3>1. \E c \in Chunks : c # "end" /\ wire' = Append(wire, c)
      <4>1. CASE WriteEvent(t)
        BY <2>3, <4>1 DEF WriteEvent, Write, Chunks
      <4>2. CASE WritePrefix(t)
        BY <2>3, <4>2 DEF WritePrefix, Write, Chunks
      <4>3. CASE WritePayload(t)
        <5>1. PICK c : Write(t, c, "end") /\ c = IF Encoding = "binary" THEN data[buf[t]] ELSE arg[t]
          BY <4>3 DEF WritePayload
        <5>2. pc[t] = "payload"
          BY <4>3 DEF WritePayload
        <5>3. wire' = Append(wire, c) /\ c = arg[t]
          BY <2>3, <5>1, <5>2, WriteFits
        <5>4. arg[t] \in Messages
          BY <5>2 DEF SendInv
        <5>5. QED
          BY <5>3, <5>4 DEF Chunks
      <4>4. QED
        BY <1>2, <4>1, <4>2, <4>3
    <3>2. QED
      BY <2>1, <3>1, ChunkKeepsHistory
  <2>4. QED
    BY <2>2, <2>3
<1>3. ASSUME NEW t \in Threads, WriteEnd(t)
      PROVE  HistoryInv' /\ PendingInv'
  <2>1. UNCHANGED received /\ pc[t] = "end"
    BY <1>3 DEF WriteEnd, client
  <2>2. CASE Dead
    <3>1. UNCHANGED <<wire, sent>>
      BY <1>3, <2>2 DEF WriteEnd, Write
    <3>2. QED
      BY <1>1, <2>1, <3>1
  <2>3. CASE ~Dead
    <3>1. wire' = Append(wire, "end") /\ "end" \in Chunks
      BY <1>3, <2>3 DEF WriteEnd, Write, Chunks
    <3>2. wire' # wire
      <4>1. Len(wire') = Len(wire) + 1 /\ Len(wire) \in Nat
        BY <3>1, AppendFacts DEF WireInv
      <4>2. QED
        BY <4>1
    <3>3. sent' = Append(sent, arg[t])
      BY <1>3, <3>2 DEF WriteEnd
    <3>4. QED
      BY <2>1, <2>3, <3>1, <3>3, EndAddsMark
  <2>4. QED
    BY <2>2, <2>3
<1>4. CASE ReadLine
  BY <1>4, LineSkippedOrNext
<1>5. CASE ReadEnd
  <2>1. received' = received \o <<>> /\ received \in Seq(Messages) /\ UNCHANGED <<wire, sent>>
    BY <1>5 DEF ReadEnd, ReceiveReturns, HistoryInv, HistoryTypes
  <2>2. UNCHANGED received
    BY <2>1, ConcatEmptySeq
  <2>3. QED
    BY <1>1, <2>1, <2>2
<1>6. ASSUME NEW t \in Threads, NEW m \in Messages, BeginSend(t, m)
      PROVE  HistoryInv' /\ PendingInv'
  BY <1>1, <1>6 DEF BeginSend, client
<1>7. ASSUME NEW t \in Threads,
             GetBuffer(t) \/ Encode(t) \/ Lock(t) \/ Unlock(t) \/ PutBuffer(t)
      PROVE  HistoryInv' /\ PendingInv'
  BY <1>1, <1>7 DEF GetBuffer, Encode, Lock, Unlock, PutBuffer, client
<1>8. CASE HandlerReturn \/ WriteTimeout \/ Disconnect \/ CollectBuffers
  BY <1>1, <1>8 DEF HandlerReturn, WriteTimeout, Disconnect, CollectBuffers, client
<1>9. CASE BeginReceive \/ Cancel \/ Close \/ Watch
  BY <1>1, <1>9 DEF BeginReceive, Cancel, Close, Watch, client
<1>10. CASE UNCHANGED vars
  BY <1>1, <1>10 DEF vars, client
<1>11. QED
  BY <1>2, <1>3, <1>4, <1>5, <1>6, <1>7, <1>8, <1>9, <1>10 DEF Next, SendStep

-----------------------------------------------------------------------------
\* The variables that no other part of the invariant types.
RestOK ==
  /\ sends \in 0..MaxSends /\ mu \in Threads \cup {None}
  /\ handler \in {"serving", "returned"}
  /\ deadline \in {"ahead", "passed"} /\ conn \in {"up", "down"}
  /\ Len(wire) <= Window
  /\ rcv \in {"idle", "reading"} /\ told \in {"no", "eof", "failed"}
  /\ ctx \in {"live", "cancelled"} /\ done \in {"open", "closed"}
  /\ body \in {"open", "closed"} /\ watcher \in {"waiting", "exited"}

LEMMA RestStep == SendInv /\ WireInv /\ RestOK /\ [Next]_vars => RestOK'
<1> SUFFICES ASSUME SendInv, WireInv, RestOK, [Next]_vars
             PROVE  RestOK'
  OBVIOUS
<1> USE DEF RestOK, sender, server, client, life
<1>1. ASSUME NEW t \in Threads, NEW m \in Messages, BeginSend(t, m)
      PROVE  RestOK'
  BY <1>1 DEF BeginSend
<1>2. ASSUME NEW t \in Threads,
             GetBuffer(t) \/ Encode(t) \/ Lock(t) \/ Unlock(t) \/ PutBuffer(t)
      PROVE  RestOK'
  BY <1>2 DEF GetBuffer, Encode, Lock, Unlock, PutBuffer
<1>3. ASSUME NEW t \in Threads, NEW c, NEW next, Write(t, c, next)
      PROVE  Len(wire') <= Window
  <2>1. CASE Dead
    BY <1>3, <2>1 DEF Write
  <2>2. CASE ~Dead
    <3>1. Len(wire') = Len(wire) + 1 /\ Len(wire) < Window /\ Len(wire) \in Nat
      BY <1>3, <2>2 DEF Write, WireInv
    <3>2. QED
      BY <3>1
  <2>3. QED
    BY <2>1, <2>2
<1>4. ASSUME NEW t \in Threads,
             WriteEvent(t) \/ WritePrefix(t) \/ WritePayload(t) \/ WriteEnd(t)
      PROVE  RestOK'
  <2>1. \E c, next : Write(t, c, next)
    BY <1>4 DEF WriteEvent, WritePrefix, WritePayload, WriteEnd
  <2>2. Len(wire') <= Window
    BY <1>3, <2>1
  <2>3. QED
    BY <1>4, <2>2 DEF WriteEvent, WritePrefix, WritePayload, WriteEnd
<1>5. CASE ReadLine
  <2>1. PICK k \in LineEnds : wire' = SubSeq(wire, k + 1, Len(wire))
    BY <1>5 DEF ReadLine
  <2>2. k \in 1..Len(wire) /\ wire \in Seq(Chunks) /\ Len(wire) \in Nat
    BY DEF LineEnds, WireInv
  <2>3. Len(wire') = Len(wire) - k
    BY <2>1, <2>2, DropFacts
  <2>4. Len(wire') <= Window
    BY <2>2, <2>3
  <2>5. rcv' \in {"idle", "reading"}
    BY <1>5 DEF ReadLine, ReceiveReturns
  <2>6. QED
    BY <1>5, <2>4, <2>5 DEF ReadLine
<1>6. CASE ReadEnd
  BY <1>6 DEF ReadEnd, ReceiveReturns
<1>7. CASE HandlerReturn \/ WriteTimeout \/ Disconnect \/ CollectBuffers
  BY <1>7 DEF HandlerReturn, WriteTimeout, Disconnect, CollectBuffers
<1>8. CASE BeginReceive \/ Cancel \/ Close \/ Watch
  BY <1>8 DEF BeginReceive, Cancel, Close, Watch
<1>9. CASE UNCHANGED vars
  BY <1>9 DEF vars
<1>10. QED
  BY <1>1, <1>2, <1>4, <1>5, <1>6, <1>7, <1>8, <1>9 DEF Next, SendStep

\* The inductive invariant of the stream.
OrderInv == Blank = {} => HistoryInv /\ PendingInv

StreamInv ==
  PoolInv /\ SendInv /\ HoldInv /\ WireInv /\ TailInv /\ HistoryTypes /\ OrderInv /\ RestOK

LEMMA StreamInvInit == Init => StreamInv
<1> SUFFICES ASSUME Init
             PROVE  StreamInv
  OBVIOUS
<1>1. PoolInv /\ SendInv
  BY PoolInvInit, SendInit DEF Init
<1>2. HoldInv
  BY DEF Init, PoolInit, HoldInv, Encoded
<1>3. wire = <<>> /\ sent = <<>> /\ received = <<>>
  BY DEF Init
<1>4. WireInv /\ HistoryInv
  BY <1>3, EmptySeq DEF WireInv, HistoryInv, HistoryTypes
<1>5. TailInv
  BY DEF Init, TailInv, EndsIn
<1>6. PendingInv
  <2>1. Len(wire) = 0 /\ Len(sent) = 0 /\ Len(received) = 0
    BY <1>3
  <2>2. PICK p : p = [j \in 1..0 |-> 0]
    OBVIOUS
  <2>3. p \in [1..Len(sent) - Len(received) -> 1..Len(wire)]
    BY <2>1, <2>2
  <2>4. Marks(p, wire, sent, Len(received))
    BY <2>1, <2>2, <2>3 DEF Marks
  <2>5. QED
    BY <2>3, <2>4 DEF PendingInv
<1>7. RestOK
  BY <1>3 DEF Init, RestOK
<1>8. QED
  BY <1>1, <1>2, <1>4, <1>5, <1>6, <1>7 DEF StreamInv, OrderInv, HistoryInv

LEMMA StreamInvStep == StreamInv /\ [Next]_vars => StreamInv'
  BY PoolInvStep, PoolSimulation, SendInvStep, HoldStep, WireStep, TailStep, TypesStep,
     HistoryStep, RestStep DEF StreamInv, OrderInv

LEMMA StreamInvariant == Spec => []StreamInv
<1>1. QED
  BY StreamInvInit, StreamInvStep, PTL DEF Spec

\* Every variable keeps its type, the buffer in each goroutine's hands and
\* the chunks on the wire included.
THEOREM StreamTypes == Spec => []TypeOK
<1>1. StreamInv => TypeOK
  <2> SUFFICES ASSUME StreamInv
               PROVE  TypeOK
    OBVIOUS
  <2>1. received \in Seq(Messages \cup {"garbled"})
    BY SeqMonotonic DEF StreamInv, HistoryTypes
  <2>2. sent \in Seq(Messages)
    BY SeqMonotonic DEF StreamInv, HistoryTypes
  <2>3. wire \in Seq(Messages \cup {"event", "data", "end"})
    BY DEF StreamInv, WireInv, Chunks
  <2>4. QED
    BY <2>1, <2>2, <2>3 DEF StreamInv, PoolInv, SendInv, RestOK, TypeOK
<1>2. QED
  BY <1>1, StreamInvariant, PTL

-----------------------------------------------------------------------------
(* What the client has is what was promised. *)

\* With no line left to read, everything that was sent was received.
LEMMA NothingPending ==
  ASSUME WireInv, HistoryInv, PendingInv, LineEnds = {}
  PROVE  received = sent
<1>1. PICK p : Marks(p, wire, sent, Len(received))
  BY DEF PendingInv
<1>2. /\ Len(sent) \in Nat /\ Len(received) \in Nat /\ Len(received) <= Len(sent)
      /\ sent \in Seq(Messages) /\ received \in Seq(Messages)
      /\ \A i \in 1..Len(received) : received[i] = sent[i]
  BY DEF HistoryInv, HistoryTypes
<1>3. ASSUME Len(received) < Len(sent)
      PROVE  FALSE
  <2>1. 1 \in 1..Len(sent) - Len(received)
    BY <1>2, <1>3
  <2>2. p[1] \in 1..Len(wire) /\ wire[p[1]] = "end"
    BY <1>1, <2>1 DEF Marks
  <2>3. QED
    BY <2>2 DEF LineEnds
<1>4. Len(received) = Len(sent)
  BY <1>2, <1>3
<1>5. QED
  BY <1>2, <1>4, SeqEqual

LEMMA ResponsesStep ==
  Blank = {} /\ StreamInv /\ [Next]_vars => [Responses!Next]_(Responses!vars)
<1> SUFFICES ASSUME Blank = {}, StreamInv, [Next]_vars
             PROVE  [Responses!Next]_(Responses!vars)
  OBVIOUS
<1> DEFINE Stutter == UNCHANGED <<sent, received, handler, told>>
<1>1. Stutter => [Responses!Next]_(Responses!vars)
  BY DEF Responses!vars
<1> HIDE DEF Stutter
<1>2. ASSUME NEW t \in Threads, WriteEnd(t)
      PROVE  [Responses!Next]_(Responses!vars)
  <2>1. CASE UNCHANGED sent
    <3>1. Stutter
      BY <1>2, <2>1 DEF WriteEnd, server, client, Stutter
    <3>2. QED
      BY <1>1, <3>1
  <2>2. CASE sent' # sent
    <3>1. sent' = Append(sent, arg[t]) /\ pc[t] = "end"
      BY <1>2, <2>2 DEF WriteEnd
    <3>2. arg[t] \in Messages
      BY <3>1 DEF StreamInv, SendInv
    <3>3. handler = "serving"
      BY <3>1 DEF StreamInv, HoldInv, RestOK
    <3>4. UNCHANGED <<received, handler, told>>
      BY <1>2 DEF WriteEnd, server, client
    <3>5. Responses!Send
      BY <3>1, <3>2, <3>3, <3>4 DEF Responses!Send
    <3>6. QED
      BY <3>5 DEF Responses!Next
  <2>3. QED
    BY <2>1, <2>2
<1>3. CASE ReadLine
  <2>1. UNCHANGED <<sent, handler, told>> /\ told = "no"
    BY <1>3 DEF ReadLine, server
  <2>2. \/ UNCHANGED received
        \/ /\ Len(received) < Len(sent)
           /\ received' = Append(received, sent[Len(received) + 1])
    BY <1>3, LineSkippedOrNext DEF StreamInv, OrderInv
  <2>3. CASE UNCHANGED received
    BY <1>1, <2>1, <2>3 DEF Stutter
  <2>4. CASE /\ Len(received) < Len(sent)
             /\ received' = Append(received, sent[Len(received) + 1])
    <3>1. Responses!Deliver
      BY <2>1, <2>4 DEF Responses!Deliver
    <3>2. QED
      BY <3>1 DEF Responses!Next
  <2>5. QED
    BY <2>2, <2>3, <2>4
<1>4. CASE ReadEnd
  <2>1. PICK how \in {"eof", "failed"} : BodyEnds(how) /\ told' = how
    BY <1>4 DEF ReadEnd
  <2>2. UNCHANGED <<sent, handler, received>>
    <3>1. received' = received \o <<>> /\ received \in Seq(Messages)
      BY <1>4 DEF ReadEnd, ReceiveReturns, StreamInv, HistoryTypes
    <3>2. UNCHANGED received
      BY <3>1, ConcatEmptySeq
    <3>3. QED
      BY <1>4, <3>2 DEF ReadEnd, server
  <2>3. CASE told # "no"
    BY <1>1, <2>1, <2>2, <2>3 DEF BodyEnds, Stutter
  <2>4. CASE told = "no" /\ how = "failed"
    <3>1. Responses!Break
      BY <2>1, <2>2, <2>4 DEF Responses!Break
    <3>2. QED
      BY <3>1 DEF Responses!Next
  <2>5. CASE told = "no" /\ how = "eof"
    <3>1. LineEnds = {} /\ handler = "returned"
      BY <2>1, <2>5 DEF BodyEnds
    <3>2. received = sent
      BY <3>1, NothingPending DEF StreamInv, OrderInv
    <3>3. Responses!EndOfStream
      BY <2>1, <2>2, <2>5, <3>1, <3>2 DEF Responses!EndOfStream
    <3>4. QED
      BY <3>3 DEF Responses!Next
  <2>6. QED
    BY <2>1, <2>3, <2>4, <2>5
<1>5. CASE HandlerReturn
  <2>1. Responses!Return
    BY <1>5 DEF HandlerReturn, Responses!Return, client
  <2>2. QED
    BY <2>1 DEF Responses!Next
<1>6. ASSUME NEW t \in Threads, NEW m \in Messages, BeginSend(t, m)
      PROVE  Stutter
  BY <1>6 DEF BeginSend, server, client, Stutter
<1>7. ASSUME NEW t \in Threads,
             \/ GetBuffer(t) \/ Encode(t) \/ Lock(t) \/ Unlock(t) \/ PutBuffer(t)
             \/ WriteEvent(t) \/ WritePrefix(t) \/ WritePayload(t)
      PROVE  Stutter
  BY <1>7 DEF GetBuffer, Encode, Lock, Unlock, PutBuffer, WriteEvent, WritePrefix, WritePayload,
              server, client, Stutter
<1>8. CASE WriteTimeout \/ Disconnect \/ CollectBuffers
  <2>1. Stutter
    BY <1>8 DEF WriteTimeout, Disconnect, CollectBuffers, server, client, Stutter
  <2>2. QED
    BY <1>1, <2>1
<1>9. CASE BeginReceive \/ Cancel \/ Close \/ Watch
  <2>1. Stutter
    BY <1>9 DEF BeginReceive, Cancel, Close, Watch, server, client, Stutter
  <2>2. QED
    BY <1>1, <2>1
<1>10. CASE UNCHANGED vars
  <2>1. Stutter
    BY <1>10 DEF vars, server, client, Stutter
  <2>2. QED
    BY <1>1, <2>1
<1>11. QED
  BY <1>1, <1>2, <1>3, <1>4, <1>5, <1>6, <1>7, <1>8, <1>9, <1>10 DEF Next, SendStep

\* When no message encodes to no bytes, then whatever the handler's
\* goroutines, the pool of buffers, the deadline and the client do, Receive
\* reports the messages that were sent, whole, once and in order, and the end
\* of the stream only after the last of them.
THEOREM StreamImplementsResponses == Blank = {} => (Spec => ImplementsResponses)
<1> SUFFICES ASSUME Blank = {}
             PROVE  Spec => ImplementsResponses
  OBVIOUS
<1>1. Init => Responses!Init
  BY DEF Init, Responses!Init
<1>2. StreamInv /\ [Next]_vars => [Responses!Next]_(Responses!vars)
  BY ResponsesStep
<1>3. QED
  BY <1>1, <1>2, StreamInvariant, PTL DEF Spec, ImplementsResponses, Responses!Spec
===============================================================================
