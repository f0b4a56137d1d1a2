------------------------------ MODULE MCUnaryCall ------------------------------
(* Small instances of UnaryCall for TLC. *)
EXTENDS UnaryCall, TLC

CONSTANTS c1, c2

MCCalls == {c1, c2}
===============================================================================
