---------------------------- MODULE MCHostGate -----------------------------
(***************************************************************************)
(* Two firings, one of them without a HITL channel, and five operations: a *)
(* dangerous one, one of the caution band, a safe one that executes a      *)
(* file, the same wrapped in sh -c, and a kill.  The safe list of the      *)
(* policy file is at its cap; of the policies that may be put, one has an  *)
(* empty safe list, the other leaves no budget.                            *)
(***************************************************************************)
EXTENDS HostGate

CONSTANTS rm, mv, curl, sh, kill, bin, none

const_Cmd == {rm, mv, curl, sh, kill}
const_Inner == [c \in const_Cmd |-> IF c = sh THEN curl ELSE c]
const_Covers == [c \in const_Cmd |-> {c}]
const_BinaryOf == [c \in const_Cmd |-> IF c = curl THEN bin ELSE none]
const_InitPolicy == [forbidden |-> {}, dangerous |-> {rm}, caution |-> {mv}, safe |-> {curl},
                     nsafe |-> 1, nforbidden |-> 0, headroom |-> TRUE]
const_Policies == {[const_InitPolicy EXCEPT !.safe = {}, !.nsafe = 0],
                   [const_InitPolicy EXCEPT !.headroom = FALSE]}
=============================================================================
