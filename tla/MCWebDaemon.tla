----------------------------- MODULE MCWebDaemon -----------------------------
(* Instances of WebDaemon for TLC. *)
EXTENDS WebDaemon

CONSTANTS w1, w2

\* The connects are to two targets, each with a local port of its own.
OwnPorts == [c \in Conn |-> IF c = w2 THEN "8002" ELSE "8001"]
=============================================================================
