-------------------------- MODULE MCWebSocketStream --------------------------
(* A small instance of WebSocketStream for TLC. *)
EXTENDS WebSocketStream, TLC

CONSTANTS t1, t2, m1, bad

MCThreads == {t1, t2}
MCOneThread == {t1}
MCMessages == {m1, bad}
===============================================================================
