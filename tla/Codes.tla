-------------------------------- MODULE Codes --------------------------------
(***************************************************************************)
(* RPC codes, and errors on their way from a handler to the caller: as a   *)
(* JSON body with a status header over HTTP (kernel.writeError and         *)
(* status.FromHTTP), and as a gRPC status (grpcbridge.ToGRPC and           *)
(* status.FromGRPCStatus).                                                 *)
(*                                                                         *)
(* An error is [kind, code, message, details]; kind "rpc" is an            *)
(* *status.Error somewhere in the chain of wrapped errors, "raw" is any    *)
(* other, and "grpc" is an error of grpc-go.  NoText is the empty string.  *)
(***************************************************************************)
EXTENDS Integers, Sequences

NoText == <<>>

CodeNames ==
  <<"ok", "canceled", "unknown", "invalid_argument", "deadline_exceeded", "not_found",
    "already_exists", "permission_denied", "resource_exhausted", "failed_precondition",
    "aborted", "out_of_range", "unimplemented", "internal", "unavailable", "data_loss",
    "unauthenticated">>
KnownCodes == 0..16
CodeOf(name) == (CHOOSE i \in 1..17 : CodeNames[i] = name) - 1

\* String and CodeFromString; the latter as the set of codes of that name.
CodeName(c) == IF c \in KnownCodes THEN CodeNames[c + 1] ELSE "unknown"
CodeFromString(name) == {c \in KnownCodes : CodeName(c) = name}

HTTPStatus(c) ==
  LET Is(names) == CodeName(c) \in names IN
  CASE Is({"ok"}) -> 200
    [] Is({"canceled"}) -> 499
    [] Is({"invalid_argument", "failed_precondition", "out_of_range"}) -> 400
    [] Is({"deadline_exceeded"}) -> 504
    [] Is({"not_found"}) -> 404
    [] Is({"already_exists", "aborted"}) -> 409
    [] Is({"permission_denied"}) -> 403
    [] Is({"resource_exhausted"}) -> 429
    [] Is({"unimplemented"}) -> 501
    [] Is({"unavailable"}) -> 503
    [] Is({"unauthenticated"}) -> 401
    [] OTHER -> 500

\* Not an inverse: where several codes share a status it picks one of them.
CodeFromHTTPStatus(status) ==
  CodeOf(CASE status = 409 -> "aborted"
           [] status = 400 -> "invalid_argument"
           [] status = 500 -> "internal"
           [] OTHER -> IF \E c \in KnownCodes : HTTPStatus(c) = status
                       THEN CodeNames[1 + CHOOSE c \in KnownCodes : HTTPStatus(c) = status]
                       ELSE "unknown")

-----------------------------------------------------------------------------
(* Errors *)

NewError(name, message) ==
  [kind |-> "rpc", code |-> CodeOf(name), message |-> message, details |-> <<>>]
RawError(message) == [kind |-> "raw", code |-> 0, message |-> message, details |-> <<>>]

\* What an application may return.
Texts == Seq(STRING)
Errors ==
  [kind : {"rpc"}, code : KnownCodes \ {CodeOf("ok")}, message : Texts, details : Seq(Texts)]
    \cup [kind : {"raw"}, code : {0}, message : Texts, details : {<<>>}]

\* status.Code
Code(err) == IF err.kind = "rpc" THEN err.code ELSE CodeOf("unknown")
Message(err) == IF err.message # NoText THEN err.message ELSE <<CodeName(Code(err))>>
\* Error()
ErrorText(err) ==
  IF err.kind = "rpc" THEN <<"rpc error", CodeName(err.code)>> \o Message(err) ELSE err.message

-----------------------------------------------------------------------------
(* google.rpc.Status on the wire: a sequence of <<field number, value>> *)

MarshalStatus(err) ==
  <<<<1, err.code>>, <<2, Message(err)>>>>
    \o [i \in DOMAIN err.details |-> <<3, err.details[i]>>]

NoStatus == [code |-> 0, message |-> NoText, details |-> <<>>]

\* A later code or message replaces an earlier one; unknown fields are skipped.
ReadField(st, field) ==
  CASE field[1] = 1 -> [st EXCEPT !.code = field[2]]
    [] field[1] = 2 -> [st EXCEPT !.message = field[2]]
    [] field[1] = 3 -> [st EXCEPT !.details = Append(@, field[2])]
    [] OTHER -> st
\* read[n]: what the first n fields say.
UnmarshalStatus(wire) ==
  LET read[n \in 0..Len(wire)] == IF n = 0 THEN NoStatus ELSE ReadField(read[n - 1], wire[n])
  IN read[Len(wire)]

-----------------------------------------------------------------------------
(* Over HTTP *)

\* writeError, with a body that a client decodes as JSON, and the header
\* grpc-status-details-bin, which is there when there are details.
WriteError(err) ==
  LET rpcErr == IF err.kind = "rpc" THEN err ELSE NewError("unknown", err.message) IN
  [status |-> HTTPStatus(Code(err)),
   body |-> "json", code |-> CodeName(Code(err)), message |-> Message(rpcErr),
   header |-> IF rpcErr.details # <<>> THEN MarshalStatus(rpcErr) ELSE <<>>]

\* The answer of something else, a proxy or net/http itself.
PlainAnswer(status) ==
  [status |-> status, body |-> "text", code |-> "", message |-> NoText, header |-> <<>>]

\* FromHTTP; the status line is the message of last resort.
FromHTTP_BodyOnly(resp) ==
  [kind |-> "rpc",
   code |-> IF CodeFromString(resp.code) # {} THEN CodeOf(resp.code) ELSE CodeOf("unknown"),
   message |-> resp.message, details |-> <<>>]
FromHTTP(resp) ==
  LET named == IF resp.body = "json" THEN CodeFromString(resp.code) ELSE {}
      said == IF resp.body = "json" THEN resp.message ELSE NoText
      st == UnmarshalStatus(resp.header)
  IN
  [kind |-> "rpc",
   code |-> IF st.code # 0 THEN st.code
            ELSE IF named # {} THEN CHOOSE c \in named : TRUE ELSE CodeOf("unknown"),
   message |-> IF st.message # NoText THEN st.message
               ELSE IF said # NoText THEN said ELSE <<"status line">>,
   details |-> st.details]

-----------------------------------------------------------------------------
(* Over gRPC *)

\* ToGRPC; an *Error is not a gRPC status error for grpc-go, although it has a
\* method GRPCStatus: the type that this returns is its own.
ToGRPC(err) ==
  IF err.kind = "grpc" THEN err
  ELSE [kind |-> "grpc", code |-> Code(err), message |-> ErrorText(err),
        details |-> IF err.kind = "rpc" THEN err.details ELSE <<>>]

\* FromGRPCStatus: errors that have a method GRPCStatus, ours and grpc-go's.
FromGRPCStatus(err) ==
  IF err.kind = "raw" THEN err ELSE [err EXCEPT !.kind = "rpc", !.message =
    IF err.kind = "rpc" THEN Message(err) ELSE err.message]
===============================================================================
