---------------------------- MODULE MCTopologies ----------------------------
(* Three rounds of questions and two messages per chat: enough for a second *)
(* contradiction, a topic shift and a reset.  The plan repeats an ID and    *)
(* names one of the mandatory probes, and the cap cuts the rest short.      *)
EXTENDS Topologies

ProbesDef == <<"git", "python3">>
PlanDef == <<"git", "os-name", "git">>
MandatoryDef == <<"os-name", "user", "home", "hostname">>
=============================================================================
