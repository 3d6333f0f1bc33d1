--------------------------- MODULE MCHttpServer ---------------------------
(* HttpServer for TLC: a small pool. *)
EXTENDS HttpServer, TLC

CONSTANTS T1, T2, T3, C1, C2, C3
=============================================================================
