-------------------------- MODULE MCServerProcess --------------------------
(* An instance of ServerProcess for TLC: any number of browsers is          *)
(* independent of each other, so one or two will do.                        *)
EXTENDS ServerProcess
=============================================================================
