---------------------------- MODULE MCClientStream ----------------------------
(* Small instances of ClientStream for TLC. *)
EXTENDS ClientStream, TLC

CONSTANTS t1, t2, plain, refused, garbled, empty

MCThreads == {t1, t2}
MCMessages == {plain, refused, garbled}

\* One goroutine, and a message with no field set beside an ordinary one.
MCOneThread == {t1}
MCBinaryMessages == {plain, empty}
MCBlank == {empty}
===============================================================================
