---------------------------- MODULE MCServerStream ----------------------------
(* A small instance of ServerStream for TLC. *)
EXTENDS ServerStream, TLC

CONSTANTS t1, t2, b1, b2, bulky, plain

MCThreads == {t1, t2}
MCBuffers == {b1, b2}
===============================================================================
