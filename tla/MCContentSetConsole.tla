-------------------------- MODULE MCContentSetConsole --------------------------
(* Instances of ContentSetConsole for TLC.                                       *)
EXTENDS ContentSetConsoleProperties

TwoCalls == 1..2
=============================================================================
