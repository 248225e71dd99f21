----------------------------- MODULE TokenGame -----------------------------
(***************************************************************************)
(* What CPN.Run promises to the nets it executes, without goroutines,      *)
(* rounds, retries or children: tokens are taken from all input places of  *)
(* a transition at once, whoever took them puts tokens only into that      *)
(* transition's places and only until the work is over, and Run gives one  *)
(* verdict, after which nothing is taken any more.                         *)
(***************************************************************************)
EXTENDS Naturals

CONSTANTS
  Place, Transition,
  In, Out,     \* the places a transition takes from and puts into
  Watched,     \* the places that observers put events into
  Starts       \* the token counts a run may start with

VARIABLES
  tokens,      \* tokens in each place
  open,        \* firings of each transition that are not over
  verdict      \* what Run has returned

gameVars == <<tokens, open, verdict>>

Sinks == {p \in Place : \A t \in Transition : p \notin In[t]}

Init ==
  /\ tokens \in Starts
  /\ open = [t \in Transition |-> 0]
  /\ verdict = "none"

(* A transition takes one token from each of its input places.               *)
Take(t) ==
  /\ verdict = "none"
  /\ In[t] # {} /\ \A p \in In[t] : tokens[p] > 0
  /\ tokens' = [p \in Place |-> IF p \in In[t] THEN tokens[p] - 1 ELSE tokens[p]]
  /\ open' = [open EXCEPT ![t] = @ + 1]
  /\ UNCHANGED verdict

(* A firing that is not over puts a token, even after the verdict (a child   *)
(* may outlive Run).                                                          *)
Put(t, p) ==
  /\ open[t] > 0 /\ p \in Out[t]
  /\ tokens' = [tokens EXCEPT ![p] = @ + 1]
  /\ UNCHANGED <<open, verdict>>

(* Firings end, several at a time.                                           *)
Finish ==
  /\ open' \in [Transition -> Nat]
  /\ \A t \in Transition : open'[t] <= open[t]
  /\ UNCHANGED <<tokens, verdict>>

(* Observers turn events into tokens while Run is going on.                  *)
Observe ==
  /\ verdict = "none"
  /\ tokens' \in [Place -> Nat]
  /\ \A p \in Place : IF p \in Watched THEN tokens'[p] >= tokens[p] ELSE tokens'[p] = tokens[p]
  /\ UNCHANGED <<open, verdict>>

(* Completed: every sink is marked.  Deadlock: nobody is left who could put  *)
(* a token.  Any other error may come at any time.                           *)
Judge ==
  /\ verdict = "none"
  /\ \/ verdict' = "completed" /\ Sinks # {} /\ \A p \in Sinks : tokens[p] > 0
     \/ verdict' = "deadlock" /\ \A t \in Transition : open[t] = 0
     \/ verdict' = "failed"
  /\ UNCHANGED <<tokens, open>>

(* The next run starts afresh; firings of the last one may still be open.    *)
Again ==
  /\ verdict # "none"
  /\ tokens' \in Starts
  /\ open' \in [Transition -> Nat]
  /\ \A t \in Transition : open'[t] <= open[t]
  /\ verdict' = "none"

Next ==
  \/ \E t \in Transition : Take(t) \/ \E p \in Out[t] : Put(t, p)
  \/ Finish \/ Observe \/ Judge \/ Again

Spec == Init /\ [][Next]_gameVars
=============================================================================
