----------------------------- MODULE MCSession -----------------------------
(***************************************************************************)
(* Instances of SessionService.  Requests are interchangeable.             *)
(***************************************************************************)
EXTENDS SessionService

ProcSymmetry == Permutations(Proc)

(* One client at a time, without a cache, whose runs flush several times.    *)
Serial ==
  [clients |-> 1, ops |-> {"get", "send", "delete"}, cache |-> FALSE, awakening |-> FALSE, fork |-> 0,
   faulty |-> {"flush", "get"}, maxOps |-> 2, maxRun |-> 2, maxFirings |-> 2]

(* Two requests of any kind at once, with the cache and an awakening.        *)
Concurrent ==
  [clients |-> 2, ops |-> OpKind, cache |-> TRUE, awakening |-> TRUE, fork |-> 0,
   faulty |-> {"user", "after", "awaken", "get"}, maxOps |-> 2, maxRun |-> 1, maxFirings |-> 0]

(* A forked session, behind the cache, that is sent to and loaded again.     *)
Forked ==
  [clients |-> 1, ops |-> {"get", "send", "rename"}, cache |-> TRUE, awakening |-> FALSE, fork |-> 2,
   faulty |-> {}, maxOps |-> 2, maxRun |-> 1, maxFirings |-> 1]

AnyLoad == {Serial, Concurrent, Forked}
=============================================================================
