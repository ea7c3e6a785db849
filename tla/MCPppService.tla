---------------------------- MODULE MCPppService ----------------------------
(***************************************************************************)
(* TLC instance of PppService: every code the engine may report.           *)
(***************************************************************************)
EXTENDS PppService

AllErrors == {-5, -6, -7, -8}
=============================================================================
