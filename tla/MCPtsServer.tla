---------------------------- MODULE MCPtsServer ----------------------------
(* A small instance of PtsServer.                                          *)
EXTENDS PtsServer

CONSTANTS p1, c1, v1, v2
============================================================================
