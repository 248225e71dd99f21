-------------------------- MODULE MCToolRegistry ---------------------------
(* Three callers, a builtin and an authored tool in two versions, one       *)
(* binary; the first restart is the server's start.                         *)
EXTENDS ToolRegistry, TLC

CONSTANTS bash, forged

MCVersion == {1, 2}
MCName == {<<bash, 1>>, <<forged, 1>>, <<forged, 2>>}

\* The properties say nothing of what follows a race: neither does the run.
NotRaced == ~raced

Callers == Permutations(Caller)
=============================================================================
