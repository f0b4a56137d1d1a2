-------------------------- MODULE ClientStreamProofs --------------------------
(***************************************************************************)
(* Proofs about ClientStream, for every set of threads and messages and    *)
(* every bound.  The inductive invariant is the conjunction of TypeOK,     *)
(* CallInv, ResultInv and WireInv: TypeOK alone is not inductive, because  *)
(* the line the pipe takes is the argument of the thread inside it.        *)
(***************************************************************************)
EXTENDS ClientStream, TLAPS

USE ConstantsAssumption DEF ConstantsAssumption

-----------------------------------------------------------------------------
(* Types, and who holds the mutex and the pipe *)

LEMMA TypeStep == TypeOK /\ CallInv /\ [Next]_vars => TypeOK'
<1> SUFFICES ASSUME TypeOK, CallInv, [Next]_vars
             PROVE  TypeOK'
  OBVIOUS
<1> USE DEF TypeOK, PCs, Returns, Results, Replies, caller, stream, pipe, wire, server,
            Goto, Enter, Return
<1>1. ASSUME NEW t \in Threads, NEW m \in Messages, BeginSend(t, m)
      PROVE  TypeOK'
  BY <1>1 DEF BeginSend
<1>2. ASSUME NEW t \in Threads, TakeResult(t)
      PROVE  TypeOK'
  BY <1>2 DEF TakeResult
<1>3. ASSUME NEW t \in Threads, FailFast(t)
      PROVE  TypeOK'
  BY <1>3 DEF FailFast
<1>4. ASSUME NEW t \in Threads, Write(t)
      PROVE  TypeOK'
  BY <1>4 DEF Write
<1>5. ASSUME NEW t \in Threads, WriteAborted(t)
      PROVE  TypeOK'
  BY <1>5 DEF WriteAborted
<1>6. ASSUME NEW t \in Threads, BeginCloseAndReceive(t)
      PROVE  TypeOK'
  BY <1>6 DEF BeginCloseAndReceive
<1>7. ASSUME NEW t \in Threads, Close(t)
      PROVE  TypeOK'
  BY <1>7 DEF Close
<1>8. ASSUME NEW t \in Threads, LockResult(t)
      PROVE  TypeOK'
  BY <1>8 DEF LockResult
<1>9. ASSUME NEW t \in Threads, AwaitResult(t)
      PROVE  TypeOK'
  BY <1>9 DEF AwaitResult
<1>10. ASSUME NEW t \in Threads, Decode(t)
      PROVE  TypeOK'
  <2>1. ASSUME NEW v \in {"doError", "rpcError", "success", "decodeError"},
               NEW b \in {"none", "unread", "closed"}, Finish(t, v, b)
        PROVE  TypeOK'
    BY <2>1, <1>10 DEF Finish, Decode
  <2>2. QED
    BY <1>10, <2>1 DEF Decode, Readings
<1>11. CASE TakePiece
  BY <1>11 DEF TakePiece
<1>12. CASE TakeLine
  <2>1. writer \in Threads /\ writer # None
    BY <1>12 DEF TakeLine
  <2>2. arg[writer] \in Messages
    BY <2>1 DEF CallInv
  <2>3. QED
    BY <1>12, <2>1, <2>2 DEF TakeLine
<1>13. CASE TakeEOF
  BY <1>13 DEF TakeEOF
<1>14. CASE StopBody
  BY <1>14 DEF StopBody
<1>15. CASE Respond
  BY <1>15 DEF Respond
<1>16. CASE DoFail
  BY <1>16 DEF DoFail
<1>17. CASE Disconnect
  BY <1>17 DEF Disconnect
<1>18. CASE Authorize
  BY <1>18 DEF Authorize
<1>19. CASE ReceiveLine
  BY <1>19 DEF ReceiveLine
<1>20. CASE ReceiveEnd
  BY <1>20 DEF ReceiveEnd
<1>21. CASE HandlerReturn
  BY <1>21 DEF HandlerReturn
<1>22. CASE UNCHANGED vars
  BY <1>22 DEF vars
<1>23. QED
  BY <1>1, <1>2, <1>3, <1>4, <1>5, <1>6, <1>7, <1>8, <1>9, <1>10, <1>11, <1>12, <1>13, <1>14, <1>15, <1>16, <1>17, <1>18, <1>19, <1>20, <1>21, <1>22 DEF Next, CallStep

LEMMA CallStepInv == TypeOK /\ CallInv /\ [Next]_vars => CallInv'
<1> SUFFICES ASSUME TypeOK, CallInv, [Next]_vars
             PROVE  CallInv'
  OBVIOUS
<1> USE DEF TypeOK, CallInv, PCs, caller, stream, pipe, wire, server, Goto, Enter, Return
<1>1. ASSUME NEW t \in Threads, NEW m \in Messages, BeginSend(t, m)
      PROVE  CallInv'
  BY <1>1 DEF BeginSend
<1>2. ASSUME NEW t \in Threads, TakeResult(t)
      PROVE  CallInv'
  BY <1>2 DEF TakeResult
<1>3. ASSUME NEW t \in Threads, FailFast(t)
      PROVE  CallInv'
  BY <1>3 DEF FailFast
<1>4. ASSUME NEW t \in Threads, Write(t)
      PROVE  CallInv'
  BY <1>4 DEF Write
<1>5. ASSUME NEW t \in Threads, WriteAborted(t)
      PROVE  CallInv'
  BY <1>5 DEF WriteAborted
<1>6. ASSUME NEW t \in Threads, BeginCloseAndReceive(t)
      PROVE  CallInv'
  BY <1>6 DEF BeginCloseAndReceive
<1>7. ASSUME NEW t \in Threads, Close(t)
      PROVE  CallInv'
  BY <1>7 DEF Close
<1>8. ASSUME NEW t \in Threads, LockResult(t)
      PROVE  CallInv'
  BY <1>8 DEF LockResult
<1>9. ASSUME NEW t \in Threads, AwaitResult(t)
      PROVE  CallInv'
  BY <1>9 DEF AwaitResult
<1>10. ASSUME NEW t \in Threads, Decode(t)
      PROVE  CallInv'
  <2>1. ASSUME NEW v \in {"doError", "rpcError", "success", "decodeError"},
               NEW b \in {"none", "unread", "closed"}, Finish(t, v, b)
        PROVE  CallInv'
    BY <2>1, <1>10 DEF Finish, Decode
  <2>2. QED
    BY <1>10, <2>1 DEF Decode, Readings
<1>11. CASE TakePiece
  BY <1>11 DEF TakePiece
<1>12. CASE TakeLine
  BY <1>12 DEF TakeLine
<1>13. CASE TakeEOF
  BY <1>13 DEF TakeEOF
<1>14. CASE StopBody
  BY <1>14 DEF StopBody
<1>15. CASE Respond
  BY <1>15 DEF Respond
<1>16. CASE DoFail
  BY <1>16 DEF DoFail
<1>17. CASE Disconnect
  BY <1>17 DEF Disconnect
<1>18. CASE Authorize
  BY <1>18 DEF Authorize
<1>19. CASE ReceiveLine
  BY <1>19 DEF ReceiveLine
<1>20. CASE ReceiveEnd
  BY <1>20 DEF ReceiveEnd
<1>21. CASE HandlerReturn
  BY <1>21 DEF HandlerReturn
<1>22. CASE UNCHANGED vars
  BY <1>22 DEF vars
<1>23. QED
  BY <1>1, <1>2, <1>3, <1>4, <1>5, <1>6, <1>7, <1>8, <1>9, <1>10, <1>11, <1>12, <1>13, <1>14, <1>15, <1>16, <1>17, <1>18, <1>19, <1>20, <1>21, <1>22 DEF Next, CallStep

\* The stream's variables stay within their types: in particular no call
\* looks into a response that is not there.
THEOREM TypeCorrect == Spec => []TypeOK
<1>1. Init => TypeOK /\ CallInv
  BY DEF Init, TypeOK, CallInv, PCs, Returns, Results, Replies
<1>2. QED
  BY <1>1, TypeStep, CallStepInv, PTL DEF Spec

\* At most one goroutine holds mu across the receive, at most one is inside
\* pipe.Write, and a goroutine inside it is sending a message of its caller.
THEOREM CallDiscipline == Spec => []CallInv
<1>1. Init => TypeOK /\ CallInv
  BY DEF Init, TypeOK, CallInv, PCs, Returns, Results, Replies
<1>2. QED
  BY <1>1, TypeStep, CallStepInv, PTL DEF Spec

-----------------------------------------------------------------------------
(* The one response *)

LEMMA ResultStep == TypeOK /\ CallInv /\ ResultInv /\ [Next]_vars => ResultInv'
<1> SUFFICES ASSUME TypeOK, CallInv, ResultInv, [Next]_vars
             PROVE  ResultInv'
  OBVIOUS
<1> USE DEF TypeOK, CallInv, ResultInv, PCs, Results, Replies, caller, stream, pipe, wire, server,
            Goto, Enter, Return
<1>1. ASSUME NEW t \in Threads, NEW m \in Messages, BeginSend(t, m)
      PROVE  ResultInv'
  BY <1>1 DEF BeginSend
<1>2. ASSUME NEW t \in Threads, TakeResult(t)
      PROVE  ResultInv'
  BY <1>2 DEF TakeResult
<1>3. ASSUME NEW t \in Threads, FailFast(t)
      PROVE  ResultInv'
  BY <1>3 DEF FailFast
<1>4. ASSUME NEW t \in Threads, Write(t)
      PROVE  ResultInv'
  BY <1>4 DEF Write
<1>5. ASSUME NEW t \in Threads, WriteAborted(t)
      PROVE  ResultInv'
  BY <1>5 DEF WriteAborted
<1>6. ASSUME NEW t \in Threads, BeginCloseAndReceive(t)
      PROVE  ResultInv'
  BY <1>6 DEF BeginCloseAndReceive
<1>7. ASSUME NEW t \in Threads, Close(t)
      PROVE  ResultInv'
  BY <1>7 DEF Close
<1>8. ASSUME NEW t \in Threads, LockResult(t)
      PROVE  ResultInv'
  BY <1>8 DEF LockResult
<1>9. ASSUME NEW t \in Threads, AwaitResult(t)
      PROVE  ResultInv'
  BY <1>9 DEF AwaitResult
<1>10. ASSUME NEW t \in Threads, Decode(t)
      PROVE  ResultInv'
  <2>1. ASSUME NEW v \in {"doError", "rpcError", "success", "decodeError"},
               NEW b \in {"none", "unread", "closed"}, Finish(t, v, b)
        PROVE  ResultInv'
    BY <2>1, <1>10 DEF Finish, Decode
  <2>2. QED
    BY <1>10, <2>1 DEF Decode, Readings
<1>11. CASE TakePiece
  BY <1>11 DEF TakePiece
<1>12. CASE TakeLine
  BY <1>12 DEF TakeLine
<1>13. CASE TakeEOF
  BY <1>13 DEF TakeEOF
<1>14. CASE StopBody
  BY <1>14 DEF StopBody
<1>15. CASE Respond
  BY <1>15 DEF Respond
<1>16. CASE DoFail
  BY <1>16 DEF DoFail
<1>17. CASE Disconnect
  BY <1>17 DEF Disconnect
<1>18. CASE Authorize
  BY <1>18 DEF Authorize
<1>19. CASE ReceiveLine
  BY <1>19 DEF ReceiveLine
<1>20. CASE ReceiveEnd
  BY <1>20 DEF ReceiveEnd
<1>21. CASE HandlerReturn
  BY <1>21 DEF HandlerReturn
<1>22. CASE UNCHANGED vars
  BY <1>22 DEF vars
<1>23. QED
  BY <1>1, <1>2, <1>3, <1>4, <1>5, <1>6, <1>7, <1>8, <1>9, <1>10, <1>11, <1>12, <1>13, <1>14, <1>15, <1>16, <1>17, <1>18, <1>19, <1>20, <1>21, <1>22 DEF Next, CallStep

LEMMA BodyStep ==
  TypeOK /\ CallInv /\ ResultInv /\ BodyReleased /\ [Next]_vars => BodyReleased'
<1> SUFFICES ASSUME TypeOK, CallInv, ResultInv, BodyReleased, [Next]_vars
             PROVE  BodyReleased'
  OBVIOUS
<1> USE DEF TypeOK, CallInv, ResultInv, BodyReleased, PCs, Results, Replies, caller, stream, pipe, wire, server,
            Goto, Enter, Return
<1>1. ASSUME NEW t \in Threads, NEW m \in Messages, BeginSend(t, m)
      PROVE  BodyReleased'
  BY <1>1 DEF BeginSend
<1>2. ASSUME NEW t \in Threads, TakeResult(t)
      PROVE  BodyReleased'
  BY <1>2 DEF TakeResult
<1>3. ASSUME NEW t \in Threads, FailFast(t)
      PROVE  BodyReleased'
  BY <1>3 DEF FailFast
<1>4. ASSUME NEW t \in Threads, Write(t)
      PROVE  BodyReleased'
  BY <1>4 DEF Write
<1>5. ASSUME NEW t \in Threads, WriteAborted(t)
      PROVE  BodyReleased'
  BY <1>5 DEF WriteAborted
<1>6. ASSUME NEW t \in Threads, BeginCloseAndReceive(t)
      PROVE  BodyReleased'
  BY <1>6 DEF BeginCloseAndReceive
<1>7. ASSUME NEW t \in Threads, Close(t)
      PROVE  BodyReleased'
  BY <1>7 DEF Close
<1>8. ASSUME NEW t \in Threads, LockResult(t)
      PROVE  BodyReleased'
  BY <1>8 DEF LockResult
<1>9. ASSUME NEW t \in Threads, AwaitResult(t)
      PROVE  BodyReleased'
  BY <1>9 DEF AwaitResult
<1>10. ASSUME NEW t \in Threads, Decode(t)
      PROVE  BodyReleased'
  BY <1>10 DEF Decode, Finish, Readings
<1>11. CASE TakePiece
  BY <1>11 DEF TakePiece
<1>12. CASE TakeLine
  BY <1>12 DEF TakeLine
<1>13. CASE TakeEOF
  BY <1>13 DEF TakeEOF
<1>14. CASE StopBody
  BY <1>14 DEF StopBody
<1>15. CASE Respond
  BY <1>15 DEF Respond
<1>16. CASE DoFail
  BY <1>16 DEF DoFail
<1>17. CASE Disconnect
  BY <1>17 DEF Disconnect
<1>18. CASE Authorize
  BY <1>18 DEF Authorize
<1>19. CASE ReceiveLine
  BY <1>19 DEF ReceiveLine
<1>20. CASE ReceiveEnd
  BY <1>20 DEF ReceiveEnd
<1>21. CASE HandlerReturn
  BY <1>21 DEF HandlerReturn
<1>22. CASE UNCHANGED vars
  BY <1>22 DEF vars
<1>23. QED
  BY <1>1, <1>2, <1>3, <1>4, <1>5, <1>6, <1>7, <1>8, <1>9, <1>10, <1>11, <1>12, <1>13, <1>14, <1>15, <1>16, <1>17, <1>18, <1>19, <1>20, <1>21, <1>22 DEF Next, CallStep

\* There is one response per call, it is the server's, and it is in one
\* place at a time; a caller waits for it only after closing the request.
THEOREM OneResult == Spec => []ResultInv
<1>1. Init => TypeOK /\ CallInv /\ ResultInv
  BY DEF Init, TypeOK, CallInv, ResultInv, PCs, Returns, Results, Replies
<1>2. QED
  BY <1>1, TypeStep, CallStepInv, ResultStep, PTL DEF Spec

\* Whichever call took the response out of respCh, a Send that failed fast or
\* a CloseAndReceive, its body is closed once nobody is looking at it.
THEOREM NoLeakedBody == Spec => []BodyReleased
<1>1. Init => TypeOK /\ CallInv /\ ResultInv /\ BodyReleased
  BY DEF Init, TypeOK, CallInv, ResultInv, BodyReleased, PCs, Returns, Results, Replies
<1>2. QED
  BY <1>1, TypeStep, CallStepInv, ResultStep, BodyStep, PTL DEF Spec

-----------------------------------------------------------------------------
(* The end of the stream *)

LEMMA WireStep == TypeOK /\ CallInv /\ WireInv /\ [Next]_vars => WireInv'
<1> SUFFICES ASSUME TypeOK, CallInv, WireInv, [Next]_vars
             PROVE  WireInv'
  OBVIOUS
<1> USE DEF TypeOK, CallInv, WireInv, PCs, Results, Replies, caller, stream, pipe, wire, server,
            Goto, Enter, Return
<1>1. ASSUME NEW t \in Threads, NEW m \in Messages, BeginSend(t, m)
      PROVE  WireInv'
  BY <1>1 DEF BeginSend
<1>2. ASSUME NEW t \in Threads, TakeResult(t)
      PROVE  WireInv'
  BY <1>2 DEF TakeResult
<1>3. ASSUME NEW t \in Threads, FailFast(t)
      PROVE  WireInv'
  BY <1>3 DEF FailFast
<1>4. ASSUME NEW t \in Threads, Write(t)
      PROVE  WireInv'
  BY <1>4 DEF Write
<1>5. ASSUME NEW t \in Threads, WriteAborted(t)
      PROVE  WireInv'
  BY <1>5 DEF WriteAborted
<1>6. ASSUME NEW t \in Threads, BeginCloseAndReceive(t)
      PROVE  WireInv'
  BY <1>6 DEF BeginCloseAndReceive
<1>7. ASSUME NEW t \in Threads, Close(t)
      PROVE  WireInv'
  BY <1>7 DEF Close
<1>8. ASSUME NEW t \in Threads, LockResult(t)
      PROVE  WireInv'
  BY <1>8 DEF LockResult
<1>9. ASSUME NEW t \in Threads, AwaitResult(t)
      PROVE  WireInv'
  BY <1>9 DEF AwaitResult
<1>10. ASSUME NEW t \in Threads, Decode(t)
      PROVE  WireInv'
  BY <1>10 DEF Decode, Finish
<1>11. CASE TakePiece
  BY <1>11 DEF TakePiece
<1>12. CASE TakeLine
  <2>1. writer \in Threads /\ writer # None
    BY <1>12 DEF TakeLine
  <2>2. arg[writer] \in Messages
    BY <2>1 DEF CallInv
  <2>3. QED
    BY <1>12, <2>1, <2>2 DEF TakeLine
<1>13. CASE TakeEOF
  BY <1>13 DEF TakeEOF
<1>14. CASE StopBody
  BY <1>14 DEF StopBody
<1>15. CASE Respond
  BY <1>15 DEF Respond
<1>16. CASE DoFail
  BY <1>16 DEF DoFail
<1>17. CASE Disconnect
  BY <1>17 DEF Disconnect
<1>18. CASE Authorize
  BY <1>18 DEF Authorize
<1>19. CASE ReceiveLine
  BY <1>19 DEF ReceiveLine, CanReceive
<1>20. CASE ReceiveEnd
  BY <1>20 DEF ReceiveEnd
<1>21. CASE HandlerReturn
  BY <1>21 DEF HandlerReturn
<1>22. CASE UNCHANGED vars
  BY <1>22 DEF vars
<1>23. QED
  BY <1>1, <1>2, <1>3, <1>4, <1>5, <1>6, <1>7, <1>8, <1>9, <1>10, <1>11, <1>12, <1>13, <1>14, <1>15, <1>16, <1>17, <1>18, <1>19, <1>20, <1>21, <1>22 DEF Next, CallStep

LEMMA EOFStep ==
  ASSUME Blank = {}
  PROVE  TypeOK /\ WireInv /\ EOFMeansFinished /\ [Next]_vars => EOFMeansFinished'
<1> SUFFICES ASSUME TypeOK, WireInv, EOFMeansFinished, [Next]_vars
             PROVE  EOFMeansFinished'
  OBVIOUS
<1> USE DEF TypeOK, WireInv, EOFMeansFinished, Replies, caller, stream, pipe, wire, server,
            Goto, Enter, Return
<1>1. ASSUME NEW t \in Threads, NEW m \in Messages, BeginSend(t, m)
      PROVE  EOFMeansFinished'
  BY <1>1 DEF BeginSend
<1>2. ASSUME NEW t \in Threads, TakeResult(t)
      PROVE  EOFMeansFinished'
  BY <1>2 DEF TakeResult
<1>3. ASSUME NEW t \in Threads, FailFast(t)
      PROVE  EOFMeansFinished'
  BY <1>3 DEF FailFast
<1>4. ASSUME NEW t \in Threads, Write(t)
      PROVE  EOFMeansFinished'
  BY <1>4 DEF Write
<1>5. ASSUME NEW t \in Threads, WriteAborted(t)
      PROVE  EOFMeansFinished'
  BY <1>5 DEF WriteAborted
<1>6. ASSUME NEW t \in Threads, BeginCloseAndReceive(t)
      PROVE  EOFMeansFinished'
  BY <1>6 DEF BeginCloseAndReceive
<1>7. ASSUME NEW t \in Threads, Close(t)
      PROVE  EOFMeansFinished'
  BY <1>7 DEF Close
<1>8. ASSUME NEW t \in Threads, LockResult(t)
      PROVE  EOFMeansFinished'
  BY <1>8 DEF LockResult
<1>9. ASSUME NEW t \in Threads, AwaitResult(t)
      PROVE  EOFMeansFinished'
  BY <1>9 DEF AwaitResult
<1>10. ASSUME NEW t \in Threads, Decode(t)
      PROVE  EOFMeansFinished'
  BY <1>10 DEF Decode, Finish
<1>11. CASE TakePiece
  BY <1>11 DEF TakePiece
<1>12. CASE TakeLine
  <2>1. ended # "eof"
    BY <1>12 DEF TakeLine, PipeOpen
  <2>2. QED
    BY <1>12, <2>1 DEF TakeLine
<1>13. CASE TakeEOF
  BY <1>13 DEF TakeEOF
<1>14. CASE StopBody
  BY <1>14 DEF StopBody
<1>15. CASE Respond
  BY <1>15 DEF Respond
<1>16. CASE DoFail
  BY <1>16 DEF DoFail
<1>17. CASE Disconnect
  BY <1>17 DEF Disconnect
<1>18. CASE Authorize
  BY <1>18 DEF Authorize
<1>19. CASE ReceiveLine
  BY <1>19 DEF ReceiveLine, CanReceive
<1>20. CASE ReceiveEnd
  BY <1>20 DEF ReceiveEnd, CanReceive
<1>21. CASE HandlerReturn
  BY <1>21 DEF HandlerReturn
<1>22. CASE UNCHANGED vars
  BY <1>22 DEF vars
<1>23. QED
  BY <1>1, <1>2, <1>3, <1>4, <1>5, <1>6, <1>7, <1>8, <1>9, <1>10, <1>11, <1>12, <1>13, <1>14, <1>15, <1>16, <1>17, <1>18, <1>19, <1>20, <1>21, <1>22 DEF Next, CallStep

\* With a codec that never encodes a message to nothing, io.EOF tells the
\* handler the truth: the caller has closed the stream, and the handler has
\* received every message whose Send returned nil.
THEOREM EOFIsTheEnd ==
  ASSUME Blank = {}
  PROVE  Spec => []EOFMeansFinished
<1>1. Init => TypeOK /\ CallInv /\ WireInv /\ EOFMeansFinished
  BY DEF Init, TypeOK, CallInv, WireInv, EOFMeansFinished, PCs, Returns, Results, Replies
<1>2. TypeOK /\ WireInv /\ EOFMeansFinished /\ [Next]_vars => EOFMeansFinished'
  BY EOFStep
<1>3. QED
  BY <1>1, <1>2, TypeStep, CallStepInv, WireStep, PTL DEF Spec

-----------------------------------------------------------------------------
(* ClientStream implements StreamCall *)

LEMMA ToldUnion ==
  \A S, v : {Told(a) : a \in S \cup {v}} = {Told(a) : a \in S} \cup {Told(v)}
  OBVIOUS

LEMMA CallSimulation ==
  ASSUME Blank = {}
  PROVE  TypeOK /\ CallInv /\ ResultInv /\ WireInv /\ [Next]_vars => [Call!Next]_(Call!vars)
<1> SUFFICES ASSUME TypeOK, CallInv, ResultInv, WireInv, [Next]_vars
             PROVE  [Call!Next]_(Call!vars)
  OBVIOUS
<1> USE DEF TypeOK, Replies, caller, stream, pipe, wire, server, Goto, Enter, Return
<1>1. ASSUME NEW t \in Threads, NEW m \in Messages, BeginSend(t, m)
      PROVE  [Call!Next]_(Call!vars)
  BY <1>1 DEF BeginSend, Call!vars
<1>2. ASSUME NEW t \in Threads, TakeResult(t)
      PROVE  [Call!Next]_(Call!vars)
  BY <1>2 DEF TakeResult, Call!vars
<1>3. ASSUME NEW t \in Threads, FailFast(t)
      PROVE  [Call!Next]_(Call!vars)
  BY <1>3 DEF FailFast, Call!vars
<1>4. ASSUME NEW t \in Threads, Write(t)
      PROVE  [Call!Next]_(Call!vars)
  BY <1>4 DEF Write, Call!vars
<1>5. ASSUME NEW t \in Threads, WriteAborted(t)
      PROVE  [Call!Next]_(Call!vars)
  BY <1>5 DEF WriteAborted, Call!vars
<1>6. ASSUME NEW t \in Threads, BeginCloseAndReceive(t)
      PROVE  [Call!Next]_(Call!vars)
  BY <1>6 DEF BeginCloseAndReceive, Call!Next, Call!CloseSend
<1>7. ASSUME NEW t \in Threads, Close(t)
      PROVE  [Call!Next]_(Call!vars)
  BY <1>7 DEF Close, Call!Next, Call!CloseSend
<1>8. ASSUME NEW t \in Threads, LockResult(t)
      PROVE  [Call!Next]_(Call!vars)
  BY <1>8 DEF LockResult, Call!vars
<1>9. ASSUME NEW t \in Threads, AwaitResult(t)
      PROVE  [Call!Next]_(Call!vars)
  BY <1>9 DEF AwaitResult, Call!vars
<1>10. ASSUME NEW t \in Threads, Decode(t)
      PROVE  [Call!Next]_(Call!vars)
  <2>1. ASSUME NEW v \in {"doError", "rpcError", "success", "decodeError"},
               NEW b \in {"none", "unread", "closed"}, Finish(t, v, b),
               v = "success" => reply = "ok",
               v = "rpcError" => reply = "err"
        PROVE  Call!Answer
    <3>1. {Told(a) : a \in answers'} = {Told(a) : a \in answers} \cup {Told(v)}
      BY <2>1, ToldUnion DEF Finish
    <3>2. Told(v) \in Call!Answers
      BY <2>1 DEF Told, Call!Answers
    <3>3. sendSide = "closed"
      BY <1>10 DEF Decode, ResultInv
    <3>4. Told(v) = "success" => reply = "ok"
      BY <2>1 DEF Told
    <3>5. Told(v) = "rpcError" => reply = "err"
      BY <2>1 DEF Told
    <3>6. UNCHANGED <<written, got, sendSide, ended, reply>>
      BY <2>1 DEF Finish, pipe, wire, server
    <3>7. QED
      BY <3>1, <3>2, <3>3, <3>4, <3>5, <3>6 DEF Call!Answer
  <2>2. Call!Answer
    BY <1>10, <2>1 DEF Decode, Readings, ResultInv
  <2>3. QED
    BY <2>2 DEF Call!Next
<1>11. CASE TakePiece
  BY <1>11 DEF TakePiece, Call!vars
<1>12. CASE TakeLine
  <2>1. writer \in Threads /\ writer # None
    BY <1>12 DEF TakeLine
  <2>2. arg[writer] \in Messages
    BY <2>1 DEF CallInv
  <2>3. Call!Send
    BY <1>12, <2>1, <2>2 DEF TakeLine, PipeOpen, Call!Send
  <2>4. QED
    BY <2>3 DEF Call!Next
<1>13. CASE TakeEOF
  BY <1>13 DEF TakeEOF, Call!vars
<1>14. CASE StopBody
  BY <1>14 DEF StopBody, Call!vars
<1>15. CASE Respond
  BY <1>15 DEF Respond, Call!vars
<1>16. CASE DoFail
  BY <1>16 DEF DoFail, Call!vars
<1>17. CASE Disconnect
  BY <1>17 DEF Disconnect, Call!vars
<1>18. CASE Authorize
  BY <1>18 DEF Authorize, ResultInv, Call!Next, Call!Decide, Call!Verdicts, Call!vars
<1>19. CASE ReceiveLine
  <2>1. reply = "none" /\ ended = "no" /\ got < Len(written)
    BY <1>19 DEF ReceiveLine, CanReceive, ResultInv
  <2>2. CASE got' = got + 1 /\ UNCHANGED ended
    BY <1>19, <2>1, <2>2 DEF ReceiveLine, Call!Next, Call!Deliver
  <2>3. CASE ended' = "error" /\ UNCHANGED got
    BY <1>19, <2>1, <2>3 DEF ReceiveLine, Call!Next, Call!Break
  <2>4. QED
    BY <1>19, <2>2, <2>3 DEF ReceiveLine
<1>20. CASE ReceiveEnd
  <2>1. reply = "none" /\ ended = "no"
    BY <1>20 DEF ReceiveEnd, CanReceive, ResultInv
  <2>2. CASE transport = "eof" /\ got = Len(written) /\ ended' = "eof"
    BY <1>20, <2>1, <2>2 DEF ReceiveEnd, WireInv, Call!Next, Call!EndOfStream
  <2>3. CASE conn = "down" /\ ended' = "error"
    BY <1>20, <2>1, <2>3 DEF ReceiveEnd, Call!Next, Call!Break
  <2>4. QED
    BY <1>20, <2>2, <2>3 DEF ReceiveEnd
<1>21. CASE HandlerReturn
  BY <1>21 DEF HandlerReturn, ResultInv, Call!Next, Call!Decide, Call!Verdicts
<1>22. CASE UNCHANGED vars
  BY <1>22 DEF vars, Call!vars
<1>23. QED
  BY <1>1, <1>2, <1>3, <1>4, <1>5, <1>6, <1>7, <1>8, <1>9, <1>10, <1>11, <1>12, <1>13, <1>14, <1>15, <1>16, <1>17, <1>18, <1>19, <1>20, <1>21, <1>22 DEF Next, CallStep

\* Whatever its goroutines, the pipe and the transport do, a call keeps the
\* promises of StreamCall: the handler reads a prefix of what was sent, is
\* told of the end only at the end, decides once, and a caller that closed
\* and waited is told that decision or that it is lost.
THEOREM StreamImplementsCall ==
  ASSUME Blank = {}
  PROVE  Spec => ImplementsCall
<1>1. Init => Call!Init
  BY DEF Init, Call!Init
<1>2. Init => TypeOK /\ CallInv /\ ResultInv /\ WireInv
  BY DEF Init, TypeOK, CallInv, ResultInv, WireInv, PCs, Returns, Results, Replies
<1>3. TypeOK /\ CallInv /\ ResultInv /\ WireInv /\ [Next]_vars => [Call!Next]_(Call!vars)
  BY CallSimulation
<1>4. QED
  BY <1>1, <1>2, <1>3, TypeStep, CallStepInv, ResultStep, WireStep, PTL
     DEF Spec, ImplementsCall, Call!Spec
===============================================================================
