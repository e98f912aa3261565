-------------------------- MODULE MCConsoleStream --------------------------
(* Instances of ConsoleStream for TLC.                                     *)
EXTENDS ConsoleStream
=============================================================================
