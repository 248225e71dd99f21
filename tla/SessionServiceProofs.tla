------------------------ MODULE SessionServiceProofs ------------------------
(***************************************************************************)
(* What the session service promises, proved for every number of objects,  *)
(* runs, firings and restarts.                                             *)
(*                                                                         *)
(* To a client that sends one request at a time: one run per session       *)
(* object (ErrSessionBusy), none that outlives the session uncancelled     *)
(* (DeleteSession), every row of a run handed over to the session exactly  *)
(* once (flushHistory), and a session that is rehydrated after a restart   *)
(* with every saved message (loadFromPersist).  To any number of clients:  *)
(* types, and that what persistAfterRun was given is saved and billed.     *)
(*                                                                         *)
(* The first part is about control, the second about the folds over        *)
(* messages that the code writes as loops, the rest about the messages.    *)
(***************************************************************************)
EXTENDS SessionService, FiniteSetTheorems, SequenceTheorems, WellFoundedInduction, TLAPS

(* The part of the types that the control of requests and runs rests on.    *)
Control ==
  /\ load \in Loads
  /\ live \in 0..MaxObj /\ nobj \in 0..MaxObj /\ live <= nobj
  /\ busy \in [Obj -> BOOLEAN] /\ cancel \in [Obj -> 0..MaxRun]
  /\ pc \in [Proc -> PC] /\ got \in [Proc -> 0..MaxObj] /\ mine \in [Proc -> 0..MaxRun]
  /\ ret \in [Proc -> {"free", "build", "title", "update"}]
  /\ phase \in [Run -> Phase] /\ runObj \in [Run -> Obj] /\ ctxDone \in [Run -> BOOLEAN]
  /\ nrun \in 0..MaxRun

(* Runs are numbered in order and run objects that exist.                   *)
Numbered ==
  \A r \in Run : /\ r > nrun => phase[r] = "none"
                 /\ phase[r] # "none" => runObj[r] <= nobj

(* A request is between SendMessage's busy check and the start of its run.  *)
Sending(p) ==
  \/ pc[p] \in {"append", "appenddb", "title", "reset", "arm", "launch"}
  \/ pc[p] \in {"cacheget", "dbget", "fill"} /\ ret[p] = "title"
  \/ pc[p] = "invalidate" /\ op[p] = "send"

(* A request is in UpdateSession; it is none that sends.                     *)
Updating(p) ==
  \/ pc[p] \in {"exists", "update"}
  \/ pc[p] \in {"cacheget", "dbget", "fill"} /\ ret[p] = "update"

Updates == \A p \in Proc : Updating(p) => op[p] # "send"

(* One request at a time. *)
Single == \A p, q \in Proc : pc[p] # "free" /\ pc[q] # "free" => p = q

(* It works on the session in the maps, and that one is not busy.           *)
Found ==
  \A p \in Proc : /\ Sending(p) \/ pc[p] = "check" => got[p] = live /\ live # 0
                  /\ Sending(p) => ~busy[got[p]]

(* The run it prepares is its own.                                          *)
Prepared ==
  \A p \in Proc : pc[p] \in {"arm", "launch"} =>
    /\ mine[p] \in Run /\ phase[mine[p]] = "armed" /\ runObj[mine[p]] = got[p]
    /\ pc[p] = "launch" => cancel[got[p]] = mine[p]

(* An object that is about to enter the maps has no run.                    *)
Unused ==
  \A p \in Proc : pc[p] = "insert" =>
    /\ got[p] \in Obj /\ got[p] <= nobj
    /\ \A r \in Run : phase[r] # "none" => runObj[r] # got[p]

(* An executing run keeps its object busy, and is the only one there.       *)
Exclusive ==
  /\ \A r \in Run : phase[r] \in Executing => busy[runObj[r]]
  /\ \A r, q \in Run :
       phase[r] \in Executing /\ phase[q] \in Executing /\ runObj[r] = runObj[q] => r = q

(* A run that may go on is cancelled, or in reach of st.cancel: through the *)
(* maps or through the request that has just taken it out of them.          *)
Held ==
  \A r \in Run : phase[r] \in {"run", "flush", "add"} =>
    \/ ctxDone[r]
    \/ /\ cancel[runObj[r]] = r
       /\ runObj[r] = live \/ \E p \in Proc : pc[p] = "cancel" /\ got[p] = runObj[r]

Alone == Single /\ Found /\ Prepared /\ Unused /\ Exclusive /\ Held

(* The invariant of a server with one client. *)
IInv == load.clients = 1 /\ Control /\ Numbered /\ Updates /\ Alone

(* What the steps of requests and of the repository leave alone.            *)
held == <<load, live, nobj, busy, cancel, got, mine, phase, runObj, ctxDone, nrun>>
-----------------------------------------------------------------------------
(* Steps that only move one request along: who else is affected, and where  *)
(* the request may come to.                                                 *)
Moves(p) ==
  /\ UNCHANGED held
  /\ \A q \in Proc \ {p} : /\ pc'[q] = pc[q] \/ pc'[q] = "free"
                           /\ ret'[q] = ret[q] /\ op'[q] = op[q]
  /\ \A q \in Proc : pc[q] = "cancel" => pc'[q] = "cancel"
  /\ Sending(p)' => Sending(p) \/ (pc[p] = "check" /\ ~busy[got[p]])
  /\ pc'[p] \notin {"arm", "launch", "insert", "check"}
  /\ Updating(p)' => op'[p] # "send"

LEMMA MovesKeep ==
  ASSUME IInv, NEW p \in Proc, Moves(p), Control', Single'
  PROVE  IInv'
<1>1. Numbered'
  BY DEF IInv, Numbered, Moves, held
<1>2. Alone'
  <2>0. Alone /\ Single'
    BY DEF IInv
  <2>1. ASSUME NEW q \in Proc, q # p
        PROVE  /\ Sending(q)' => Sending(q)
               /\ pc'[q] # "free" => pc'[q] = pc[q]
    BY <2>1 DEF Moves, Sending
  <2>2. Found'
    BY <2>0, <2>1 DEF Alone, Found, Moves, held
  <2>3. Prepared'
    BY <2>0, <2>1 DEF Alone, Prepared, Moves, held
  <2>4. Unused'
    BY <2>0, <2>1 DEF Alone, Unused, Moves, held
  <2>5. Exclusive'
    BY <2>0 DEF Alone, Exclusive, Moves, held
  <2>6. Held'
    BY <2>0 DEF Alone, Held, Moves, held
  <2> QED
    BY <2>0, <2>2, <2>3, <2>4, <2>5, <2>6 DEF Alone
<1>3. UNCHANGED load
  BY DEF Moves, held
<1>4. Updates'
  BY DEF IInv, Updates, Updating, Moves
<1> QED
  BY <1>1, <1>2, <1>3, <1>4 DEF IInv

(* A request that is under way stays the only one.                          *)
LEMMA MovesSingle ==
  ASSUME Single, NEW p \in Proc, pc[p] # "free",
         \A q \in Proc \ {p} : pc'[q] = pc[q] \/ pc'[q] = "free"
  PROVE  Single'
BY DEF Single

LEMMA ControlKept ==
  ASSUME Control, UNCHANGED held, pc' \in [Proc -> PC],
         ret' \in [Proc -> {"free", "build", "title", "update"}]
  PROVE  Control'
BY DEF Control, held

(* The answers of the repository, and the steps of SendMessage, DeleteSession *)
(* and UpdateSession that do not touch the maps or the runs.                *)
QuietRequest(p) ==
  \/ CacheGet(p) \/ DbGet(p) \/ Fill(p) \/ Evict(p) \/ Lookup(p) \/ Check(p) \/ AppendUser(p)
  \/ AppendUserDb(p) \/ AutoTitle(p) \/ CloseDb(p) \/ UpdateExists(p) \/ Update(p) \/ SoftDelete(p)

LEMMA QuietMoves ==
  ASSUME Control, Updates, NEW p \in Proc, QuietRequest(p)
  PROVE  /\ UNCHANGED <<held, op>> /\ pc[p] \notin {"free", "cancel"}
         /\ \E l \in PC : /\ pc' = [pc EXCEPT ![p] = l]
                          /\ l \notin {"arm", "launch", "insert", "check"}
         /\ UNCHANGED ret \/ \E l \in {"build", "title", "update"} : ret' = [ret EXCEPT ![p] = l]
         /\ Sending(p)' => Sending(p) \/ (pc[p] = "check" /\ ~busy[got[p]])
         /\ Updating(p)' => op[p] # "send"
<1>0. (Updating(p) => op[p] # "send") /\ pc \in [Proc -> PC] /\ ret \in [Proc -> {"free", "build", "title", "update"}]
      /\ ret[p] \in {"free", "build", "title", "update"}
  BY DEF Control, Updates
<1>1. CASE CacheGet(p)
  <2>1. UNCHANGED <<held, op>>
    BY <1>1 DEF CacheGet, GoTo, held, objVars, dbVars, runVars, counts
  <2>2. /\ UNCHANGED ret /\ pc[p] = "cacheget"
        /\ pc' = [pc EXCEPT ![p] = ret[p]] \/ pc' = [pc EXCEPT ![p] = "dbget"]
    BY <1>1 DEF CacheGet, GoTo
  <2>3. \E l \in PC : pc' = [pc EXCEPT ![p] = l] /\ l \notin {"arm", "launch", "insert", "check"}
    BY <1>0, <2>2 DEF PC
  <2>4. Sending(p)' => Sending(p)
    BY <1>0, <2>1, <2>2 DEF Sending, Updating
  <2>5. Updating(p)' => op[p] # "send"
    BY <1>0, <2>1, <2>2 DEF Updating
  <2> QED
    BY <2>1, <2>2, <2>3, <2>4, <2>5
<1>2. CASE DbGet(p)
  <2>1. UNCHANGED <<held, op>>
    BY <1>2 DEF DbGet, GoTo, held, objVars, dbVars, runVars, counts
  <2>2. /\ UNCHANGED ret /\ pc[p] = "dbget"
        /\ pc' = [pc EXCEPT ![p] = ret[p]] \/ pc' = [pc EXCEPT ![p] = "fill"]
    BY <1>2 DEF DbGet, GoTo
  <2>3. \E l \in PC : pc' = [pc EXCEPT ![p] = l] /\ l \notin {"arm", "launch", "insert", "check"}
    BY <1>0, <2>2 DEF PC
  <2>4. Sending(p)' => Sending(p)
    BY <1>0, <2>1, <2>2 DEF Sending, Updating
  <2>5. Updating(p)' => op[p] # "send"
    BY <1>0, <2>1, <2>2 DEF Updating
  <2> QED
    BY <2>1, <2>2, <2>3, <2>4, <2>5
<1>3. CASE Fill(p)
  <2>1. UNCHANGED <<held, op>>
    BY <1>3 DEF Fill, GoTo, held, objVars, dbVars, runVars, counts
  <2>2. UNCHANGED ret /\ pc[p] = "fill" /\ pc' = [pc EXCEPT ![p] = ret[p]]
    BY <1>3 DEF Fill, GoTo
  <2>3. \E l \in PC : pc' = [pc EXCEPT ![p] = l] /\ l \notin {"arm", "launch", "insert", "check"}
    BY <1>0, <2>2 DEF PC
  <2>4. Sending(p)' => Sending(p)
    BY <1>0, <2>1, <2>2 DEF Sending, Updating
  <2>5. Updating(p)' => op[p] # "send"
    BY <1>0, <2>1, <2>2 DEF Updating
  <2> QED
    BY <2>1, <2>2, <2>3, <2>4, <2>5
<1>4. CASE Evict(p)
  <2>1. UNCHANGED <<held, op>>
    BY <1>4 DEF Evict, GoTo, held, objVars, dbVars, runVars, counts
  <2>2. /\ UNCHANGED ret /\ pc[p] \in {"evict", "invalidate"}
        /\ \/ pc[p] = "invalidate" /\ op[p] = "send" /\ pc' = [pc EXCEPT ![p] = "reset"]
           \/ pc' = [pc EXCEPT ![p] = "unmap"] \/ pc' = [pc EXCEPT ![p] = "free"]
    BY <1>4 DEF Evict, GoTo
  <2>3. \E l \in PC : pc' = [pc EXCEPT ![p] = l] /\ l \notin {"arm", "launch", "insert", "check"}
    BY <1>0, <2>2 DEF PC
  <2>4. Sending(p)' => Sending(p)
    BY <1>0, <2>1, <2>2 DEF Sending, Updating
  <2>5. Updating(p)' => op[p] # "send"
    BY <1>0, <2>1, <2>2 DEF Updating
  <2> QED
    BY <2>1, <2>2, <2>3, <2>4, <2>5
<1>5. CASE Lookup(p)
  BY <1>0, <1>5 DEF Lookup, GoTo, CallGet, AfterGet, held, objVars, dbVars, runVars, counts, Sending, Updating, PC
<1>6. CASE Check(p)
  BY <1>0, <1>6 DEF Check, GoTo, held, objVars, dbVars, runVars, counts, Sending, Updating, PC
<1>7. CASE AppendUser(p)
  <2>1. UNCHANGED <<held, op>>
    BY <1>7 DEF AppendUser, GoTo, held, objVars, dbVars, runVars, counts
  <2>2. UNCHANGED ret /\ pc[p] = "append" /\ pc' = [pc EXCEPT ![p] = "appenddb"]
    BY <1>7 DEF AppendUser, GoTo
  <2>3. \E l \in PC : pc' = [pc EXCEPT ![p] = l] /\ l \notin {"arm", "launch", "insert", "check"}
    BY <1>0, <2>2 DEF PC
  <2>4. Sending(p)' => Sending(p)
    BY <1>0, <2>1, <2>2 DEF Sending, Updating
  <2>5. Updating(p)' => op[p] # "send"
    BY <1>0, <2>1, <2>2 DEF Updating
  <2> QED
    BY <2>1, <2>2, <2>3, <2>4, <2>5
<1>8. CASE AppendUserDb(p)
  <2>1. UNCHANGED <<held, op>>
    BY <1>8 DEF AppendUserDb, GoTo, held, objVars, dbVars, runVars, counts
  <2>2. /\ pc[p] = "appenddb"
        /\ \/ ret' = [ret EXCEPT ![p] = "title"] /\ (pc' = [pc EXCEPT ![p] = "cacheget"] \/ pc' = [pc EXCEPT ![p] = "dbget"])
           \/ UNCHANGED ret /\ pc' = [pc EXCEPT ![p] = "reset"]
    BY <1>8 DEF AppendUserDb, GoTo, CallGet
  <2>3. \E l \in PC : pc' = [pc EXCEPT ![p] = l] /\ l \notin {"arm", "launch", "insert", "check"}
    BY <1>0, <2>2 DEF PC
  <2>4. Sending(p)' => Sending(p)
    BY <1>0, <2>1, <2>2 DEF Sending, Updating
  <2>5. Updating(p)' => op[p] # "send"
    BY <1>0, <2>1, <2>2 DEF Updating
  <2> QED
    BY <2>1, <2>2, <2>3, <2>4, <2>5
<1>9. CASE AutoTitle(p)
  <2>1. UNCHANGED <<held, op>>
    BY <1>9 DEF AutoTitle, GoTo, held, objVars, dbVars, runVars, counts
  <2>2. /\ UNCHANGED ret /\ pc[p] = "title"
        /\ pc' = [pc EXCEPT ![p] = "invalidate"] \/ pc' = [pc EXCEPT ![p] = "reset"]
    BY <1>9 DEF AutoTitle, GoTo
  <2>3. \E l \in PC : pc' = [pc EXCEPT ![p] = l] /\ l \notin {"arm", "launch", "insert", "check"}
    BY <1>0, <2>2 DEF PC
  <2>4. Sending(p)' => Sending(p)
    BY <1>0, <2>1, <2>2 DEF Sending, Updating
  <2>5. Updating(p)' => op[p] # "send"
    BY <1>0, <2>1, <2>2 DEF Updating
  <2> QED
    BY <2>1, <2>2, <2>3, <2>4, <2>5
<1>10. CASE CloseDb(p)
  BY <1>0, <1>10 DEF CloseDb, GoTo, held, objVars, dbVars, runVars, counts, Sending, Updating, PC
<1>11. CASE UpdateExists(p)
  <2>1. UNCHANGED <<held, op>>
    BY <1>11 DEF UpdateExists, GoTo, held, objVars, dbVars, runVars, counts
  <2>2. /\ pc[p] = "exists" /\ ret' = [ret EXCEPT ![p] = "update"]
        /\ pc' = [pc EXCEPT ![p] = "cacheget"] \/ pc' = [pc EXCEPT ![p] = "dbget"]
    BY <1>11 DEF UpdateExists, GoTo, CallGet
  <2>3. \E l \in PC : pc' = [pc EXCEPT ![p] = l] /\ l \notin {"arm", "launch", "insert", "check"}
    BY <1>0, <2>2 DEF PC
  <2>4. Sending(p)' => Sending(p)
    BY <1>0, <2>1, <2>2 DEF Sending, Updating
  <2>5. Updating(p)' => op[p] # "send"
    BY <1>0, <2>1, <2>2 DEF Updating
  <2> QED
    BY <2>1, <2>2, <2>3, <2>4, <2>5
<1>12. CASE Update(p)
  <2>1. UNCHANGED <<held, op>>
    BY <1>12 DEF Update, GoTo, held, objVars, dbVars, runVars, counts
  <2>2. /\ UNCHANGED ret /\ pc[p] = "update"
        /\ pc' = [pc EXCEPT ![p] = "softdb"] \/ pc' = [pc EXCEPT ![p] = "invalidate"] \/ pc' = [pc EXCEPT ![p] = "free"]
    BY <1>12 DEF Update, GoTo
  <2>3. \E l \in PC : pc' = [pc EXCEPT ![p] = l] /\ l \notin {"arm", "launch", "insert", "check"}
    BY <1>0, <2>2 DEF PC
  <2>4. Sending(p)' => Sending(p)
    BY <1>0, <2>1, <2>2 DEF Sending, Updating
  <2>5. Updating(p)' => op[p] # "send"
    BY <1>0, <2>1, <2>2 DEF Updating
  <2> QED
    BY <2>1, <2>2, <2>3, <2>4, <2>5
<1>13. CASE SoftDelete(p)
  BY <1>0, <1>13 DEF SoftDelete, GoTo, held, objVars, dbVars, runVars, counts, Sending, Updating, PC
<1> QED
  BY <1>1, <1>2, <1>3, <1>4, <1>5, <1>6, <1>7, <1>8, <1>9, <1>10, <1>11, <1>12, <1>13
     DEF QuietRequest

LEMMA QuietKeeps == ASSUME IInv, NEW p \in Proc, QuietRequest(p) PROVE IInv'
<1>0. Control /\ Updates /\ pc \in [Proc -> PC] /\ ret \in [Proc -> {"free", "build", "title", "update"}]
  BY DEF IInv, Control
<1>1. /\ UNCHANGED <<held, op>> /\ pc[p] \notin {"free", "cancel"}
      /\ UNCHANGED ret \/ \E l \in {"build", "title", "update"} : ret' = [ret EXCEPT ![p] = l]
      /\ Sending(p)' => Sending(p) \/ (pc[p] = "check" /\ ~busy[got[p]])
      /\ Updating(p)' => op'[p] # "send"
  BY <1>0, QuietMoves
<1>2. PICK l \in PC : pc' = [pc EXCEPT ![p] = l] /\ l \notin {"arm", "launch", "insert", "check"}
  BY <1>0, QuietMoves
<1>3. Control'
  BY <1>0, <1>1, <1>2, ControlKept
<1>4. Moves(p)
  BY <1>0, <1>1, <1>2 DEF Moves
<1>5. Single'
  BY <1>1, <1>4, MovesSingle DEF IInv, Alone, Moves
<1> QED
  BY <1>3, <1>4, <1>5, MovesKeep

LEMMA GetFailsKeeps == ASSUME IInv, NEW p \in Proc, GetFails(p) PROVE IInv'
<1>0. Control /\ Updates /\ pc \in [Proc -> PC] /\ ret \in [Proc -> {"free", "build", "title", "update"}]
  BY DEF IInv, Control
<1>1. UNCHANGED <<held, op, ret>> /\ pc[p] = "dbget"
  BY DEF GetFails, held, objVars, runVars, counts
<1>2. /\ pc' \in [Proc -> PC] /\ pc'[p] \in {"reset", "free"} /\ (pc'[p] = "reset" => ret[p] = "title")
      /\ \A q \in Proc \ {p} : pc'[q] = pc[q] \/ (pc'[q] = "free" /\ pc[q] = "join")
  BY <1>0 DEF GetFails, PC
<1>3. Control'
  BY <1>0, <1>1, <1>2, ControlKept
<1>4. Moves(p)
  <2>1. Sending(p)' => Sending(p)
    BY <1>1, <1>2 DEF Sending
  <2>2. Updating(p)' => op'[p] # "send"
    BY <1>0, <1>1, <1>2 DEF Updating, Updates
  <2> QED
    BY <1>1, <1>2, <2>1, <2>2 DEF Moves
<1>5. Single'
  BY <1>1, <1>4, MovesSingle DEF IInv, Alone, Moves
<1> QED
  BY <1>3, <1>4, <1>5, MovesKeep

LEMMA StartKeeps == ASSUME IInv, NEW p \in Proc, Start(p) PROVE IInv'
<1>0. Control /\ Updates /\ pc \in [Proc -> PC] /\ ret \in [Proc -> {"free", "build", "title", "update"}]
  BY DEF IInv, Control
<1>1. UNCHANGED <<held, ret>> /\ pc[p] = "free" /\ pc' = [pc EXCEPT ![p] = "lookup"]
      /\ \A q \in Proc \ {p} : op'[q] = op[q]
  BY DEF Start, GoTo, held, objVars, runVars
<1>3. Control'
  BY <1>0, <1>1, ControlKept DEF PC
<1>4. Moves(p)
  BY <1>0, <1>1 DEF Moves, Sending, Updating
<1>5. Single'
  <2> DEFINE B == {q \in Proc : pc[q] # "free"}
  <2>1. IsFiniteSet(B) /\ Cardinality(B) \in Nat
    BY SessionAssumption, FS_Subset, FS_CardinalityType
  <2>2. Cardinality(B) < 1
    BY DEF Start, IInv
  <2>3. B = {}
    BY <2>1, <2>2, FS_EmptySet
  <2> QED
    BY <1>0, <1>1, <2>3 DEF Single
<1> QED
  BY <1>3, <1>4, <1>5, MovesKeep
-----------------------------------------------------------------------------
(* While p is under way, it is the only request that anything is said of.   *)
LEMMA OthersFree ==
  ASSUME Single, NEW p \in Proc, pc[p] # "free",
         \A q \in Proc \ {p} : pc'[q] = pc[q] \/ pc'[q] = "free"
  PROVE  /\ \A q \in Proc \ {p} : pc[q] = "free" /\ pc'[q] = "free"
         /\ \A q \in Proc \ {p} : ~Sending(q)' /\ ~Updating(q)'
         /\ Single'
BY DEF Single, Sending, Updating

(* loadFromPersist: a new object, which no run has seen.                    *)
LEMMA BuildKeeps == ASSUME IInv, NEW p \in Proc, Build(p) PROVE IInv'
<1>0. Control /\ Numbered /\ Updates
  BY DEF IInv
<1>1. /\ pc[p] = "build" /\ nobj < MaxObj /\ nobj' = nobj + 1 /\ nobj \in 0..MaxObj
      /\ UNCHANGED <<load, live, busy, cancel, mine, phase, runObj, ctxDone, nrun, op, ret>>
      /\ got' = [q \in Proc |-> IF q = p \/ pc[q] = "join" THEN nobj' ELSE got[q]]
      /\ pc' = [q \in Proc |-> IF q = p \/ pc[q] = "join" THEN "insert" ELSE pc[q]]
  BY <1>0 DEF Build, runVars, counts, Control
<1>2. nobj' \in 0..MaxObj /\ nobj' \in Obj /\ live <= nobj'
  BY <1>0, <1>1, SessionAssumption DEF Control, Obj
<1>3. Control'
  <2>1. pc' \in [Proc -> PC] /\ got' \in [Proc -> 0..MaxObj]
    BY <1>0, <1>1, <1>2 DEF Control, PC
  <2> QED
    BY <1>0, <1>1, <1>2, <2>1 DEF Control
<1>4. Numbered'
  <2>1. \A r \in Run : runObj[r] \in Obj
    BY <1>0 DEF Control
  <2> QED
    BY <1>0, <1>1, <2>1 DEF Numbered, Obj
<1>5. Updates'
  BY <1>0, <1>1 DEF Updates, Updating
<1>6. Alone'
  <2>0. Alone /\ \A q \in Proc \ {p} : pc[q] = "free"
    BY <1>1 DEF IInv, Alone, Single
  <2>1. /\ pc' = [pc EXCEPT ![p] = "insert"] /\ got' = [got EXCEPT ![p] = nobj']
        /\ pc'[p] = "insert" /\ got'[p] = nobj' /\ \A q \in Proc \ {p} : pc'[q] = "free"
    BY <1>0, <1>1, <2>0 DEF Control
  <2>2. ~Sending(p)' /\ \A q \in Proc \ {p} : ~Sending(q)'
    BY <2>1 DEF Sending
  <2>3. Single' /\ Found' /\ Prepared'
    BY <2>1, <2>2 DEF Single, Found, Prepared
  <2>4. Unused'
    <3>1. ASSUME NEW r \in Run, phase'[r] # "none" PROVE runObj'[r] # nobj'
      <4>1. runObj[r] <= nobj /\ runObj[r] \in Obj
        BY <1>0, <1>1, <3>1 DEF Numbered, Control
      <4> QED
        BY <1>1, <4>1 DEF Obj
    <3> QED
      BY <1>2, <2>1, <3>1 DEF Unused
  <2>5. Exclusive'
    BY <1>1, <2>0 DEF Alone, Exclusive
  <2>6. Held'
    <3>1. \A q \in Proc : pc[q] # "cancel"
      BY <1>1, <2>0
    <3> QED
      BY <1>1, <2>0, <3>1 DEF Alone, Held
  <2> QED
    BY <2>3, <2>4, <2>5, <2>6 DEF Alone
<1> QED
  BY <1>1, <1>3, <1>4, <1>5, <1>6 DEF IInv

LEMMA InsertKeeps == ASSUME IInv, NEW p \in Proc, Insert(p) PROVE IInv'
<1>0. Control /\ Numbered /\ Updates /\ Alone
  BY DEF IInv
<1>1. /\ pc[p] = "insert" /\ pc' = [pc EXCEPT ![p] = AfterGet(op[p])]
      /\ UNCHANGED <<load, nobj, nrun, got, mine, phase, runObj, ctxDone, op, ret>>
      /\ \/ live # 0 /\ UNCHANGED <<live, busy, cancel>>
         \/ /\ live = 0 /\ live' = got[p] /\ busy' = [busy EXCEPT ![got[p]] = FALSE]
            /\ cancel' = [cancel EXCEPT ![got[p]] = 0]
  BY DEF Insert, GoTo, runVars, counts
<1>2. AfterGet(op[p]) \in {"find", "unmap", "free", "exists"}
  BY DEF AfterGet
<1>3. pc'[p] \in {"find", "unmap", "free", "exists"} /\ \A q \in Proc \ {p} : pc'[q] = pc[q]
  BY <1>0, <1>1, <1>2 DEF Control
<1>4. (\A q \in Proc \ {p} : pc[q] = "free" /\ pc'[q] = "free" /\ ~Sending(q)') /\ Single'
  BY <1>0, <1>1, <1>3, OthersFree DEF Alone
<1>5. ~Sending(p)'
  BY <1>3 DEF Sending
<1>6. Found' /\ Prepared' /\ Unused'
  BY <1>3, <1>4, <1>5 DEF Found, Prepared, Unused
<1>7. /\ got[p] \in Obj /\ \A r \in Run : phase[r] # "none" => runObj[r] # got[p]
      /\ \A r \in Run : runObj[r] \in Obj
      /\ busy \in [Obj -> BOOLEAN] /\ cancel \in [Obj -> 0..MaxRun]
  BY <1>0, <1>1 DEF Alone, Unused, Control
<1>8. \A r \in Run : phase[r] # "none" => busy'[runObj[r]] = busy[runObj[r]]
  BY <1>1, <1>7
<1>9. Exclusive'
  <2>1. \A r \in Run : phase[r] \in Executing => phase[r] # "none"
    BY DEF Executing
  <2> QED
    BY <1>0, <1>1, <1>8, <2>1 DEF Alone, Exclusive
<1>10. Held'
  <2> SUFFICES ASSUME NEW r \in Run, phase[r] \in {"run", "flush", "add"}
               PROVE  ctxDone[r] \/ (cancel'[runObj[r]] = r /\ runObj[r] = live')
    BY <1>1 DEF Held
  <2>1. ~ctxDone[r] => cancel[runObj[r]] = r /\ runObj[r] = live
    BY <1>0, <1>1, <1>4 DEF Alone, Held
  <2>2. runObj[r] # 0
    BY <1>7 DEF Obj
  <2> QED
    BY <1>1, <2>1, <2>2
<1>11. Control'
  <2>1. pc' \in [Proc -> PC]
    BY <1>0, <1>1, <1>2 DEF Control, PC
  <2>2. got[p] <= nobj /\ got[p] \in 0..MaxObj
    BY <1>0, <1>1 DEF Alone, Unused, Control
  <2>3. busy' \in [Obj -> BOOLEAN]
    BY <1>1, <1>7
  <2>4. cancel' \in [Obj -> 0..MaxRun]
    BY <1>1, <1>7, SessionAssumption
  <2>5. live' \in 0..MaxObj /\ live' <= nobj
    BY <1>0, <1>1, <2>2 DEF Control
  <2> QED
    BY <1>0, <1>1, <2>1, <2>3, <2>4, <2>5 DEF Control
<1>12. Numbered'
  BY <1>0, <1>1 DEF Numbered
<1>13. Updates'
  <2>1. AfterGet(op[p]) = "exists" => op[p] # "send"
    BY DEF AfterGet
  <2>2. pc'[p] = "exists" => op[p] # "send"
    BY <1>0, <1>1, <2>1 DEF Control
  <2> QED
    BY <1>1, <1>3, <1>4, <2>2 DEF Updates, Updating
<1> QED
  BY <1>0, <1>1, <1>4, <1>6, <1>9, <1>10, <1>11, <1>12, <1>13 DEF Alone, IInv

(* SendMessage finds the session in the maps.                               *)
LEMMA FindKeeps == ASSUME IInv, NEW p \in Proc, Find(p) PROVE IInv'
<1>0. Control /\ Numbered /\ Updates /\ Alone
  BY DEF IInv
<1>1. /\ pc[p] = "find" /\ got' = [got EXCEPT ![p] = live]
      /\ UNCHANGED <<load, live, nobj, busy, cancel, mine, phase, runObj, ctxDone, nrun, op, ret>>
  BY DEF Find, objVars, runVars, counts
<1>2. pc' = [pc EXCEPT ![p] = IF live = 0 THEN "free" ELSE "check"]
  BY DEF Find, GoTo
<1>3. /\ pc'[p] \in {"free", "check"} /\ (pc'[p] = "check" => live # 0) /\ got'[p] = live
      /\ \A q \in Proc \ {p} : pc'[q] = pc[q]
  BY <1>0, <1>1, <1>2 DEF Control
<1>4. (\A q \in Proc \ {p} : pc[q] = "free" /\ pc'[q] = "free" /\ ~Sending(q)' /\ ~Updating(q)') /\ Single'
  BY <1>0, <1>1, <1>3, OthersFree DEF Alone
<1>5. ~Sending(p)' /\ ~Updating(p)'
  BY <1>3 DEF Sending, Updating
<1>6. Found' /\ Prepared' /\ Unused'
  BY <1>1, <1>3, <1>4, <1>5 DEF Found, Prepared, Unused
<1>7. Exclusive' /\ Held'
  <2>1. Exclusive'
    BY <1>0, <1>1 DEF Alone, Exclusive
  <2>2. Held'
    BY <1>0, <1>1, <1>4 DEF Alone, Held
  <2> QED
    BY <2>1, <2>2
<1>8. Control'
  <2>1. pc' \in [Proc -> PC] /\ got' \in [Proc -> 0..MaxObj]
    BY <1>0, <1>1, <1>2 DEF Control, PC
  <2> QED
    BY <1>0, <1>1, <2>1 DEF Control
<1>9. Numbered' /\ Updates'
  BY <1>0, <1>1, <1>4, <1>5 DEF Numbered, Updates
<1> QED
  BY <1>0, <1>1, <1>4, <1>6, <1>7, <1>8, <1>9 DEF Alone, IInv

(* Root.Reset: the run gets a number that no run has had.                   *)
LEMMA ResetRootKeeps == ASSUME IInv, NEW p \in Proc, ResetRoot(p) PROVE IInv'
<1>0. Control /\ Numbered /\ Updates /\ Alone
  BY DEF IInv
<1> DEFINE n == nrun + 1
<1>1. /\ pc[p] = "reset" /\ nrun < load.maxRun /\ nrun' = n
      /\ UNCHANGED <<load, live, nobj, busy, cancel, got, ctxDone, op, ret>>
  BY DEF ResetRoot
<1>2. /\ pc' = [pc EXCEPT ![p] = "arm"] /\ mine' = [mine EXCEPT ![p] = n]
      /\ runObj' = [runObj EXCEPT ![n] = got[p]] /\ phase' = [phase EXCEPT ![n] = "armed"]
  BY DEF ResetRoot, GoTo
<1>3. n \in Run /\ n > nrun
  <2>1. load.maxRun \in 0..MaxRun /\ nrun \in 0..MaxRun
    BY <1>0, SessionAssumption DEF Control, Load
  <2> QED
    BY <1>1, <2>1, SessionAssumption DEF Run
<1>4. phase[n] = "none"
  BY <1>0, <1>3 DEF Numbered
<1> HIDE DEF n
<1>5. Sending(p) /\ got[p] = live /\ live # 0 /\ got[p] \in Obj /\ got[p] <= nobj /\ ~busy[got[p]]
  <2>1. Sending(p)
    BY <1>1 DEF Sending
  <2>2. got[p] = live /\ live # 0 /\ ~busy[got[p]]
    BY <1>0, <2>1 DEF Alone, Found
  <2> QED
    BY <1>0, <2>1, <2>2, SessionAssumption DEF Control, Obj
<1>6. pc'[p] = "arm" /\ \A q \in Proc \ {p} : pc'[q] = pc[q]
  BY <1>0, <1>2 DEF Control
<1>7. (\A q \in Proc \ {p} : pc[q] = "free" /\ pc'[q] = "free" /\ ~Sending(q)' /\ ~Updating(q)') /\ Single'
  BY <1>0, <1>1, <1>6, OthersFree DEF Alone
<1>8. /\ phase'[n] = "armed" /\ runObj'[n] = got[p] /\ mine'[p] = n
      /\ \A r \in Run \ {n} : phase'[r] = phase[r] /\ runObj'[r] = runObj[r]
  BY <1>0, <1>2, <1>3 DEF Control
<1>9. Found' /\ Unused'
  BY <1>1, <1>5, <1>6, <1>7 DEF Found, Unused
<1>10. Prepared'
  BY <1>1, <1>3, <1>6, <1>7, <1>8 DEF Prepared
<1>11. Exclusive'
  BY <1>0, <1>1, <1>8 DEF Alone, Exclusive, Executing
<1>12. Held'
  <2> SUFFICES ASSUME NEW r \in Run, phase'[r] \in {"run", "flush", "add"}
               PROVE  ctxDone[r] \/ (cancel[runObj'[r]] = r /\ runObj'[r] = live)
    BY <1>1 DEF Held
  <2>1. r # n /\ phase[r] \in {"run", "flush", "add"} /\ runObj'[r] = runObj[r]
    BY <1>8
  <2>2. \A q \in Proc : pc[q] # "cancel"
    BY <1>1, <1>7
  <2> QED
    BY <1>0, <2>1, <2>2 DEF Alone, Held
<1>13. Control'
  <2>1. pc' \in [Proc -> PC] /\ phase' \in [Run -> Phase]
    BY <1>0, <1>2 DEF Control, PC, Phase
  <2>2. n \in 0..MaxRun
    BY <1>3, SessionAssumption DEF Run
  <2>3. mine' \in [Proc -> 0..MaxRun] /\ runObj' \in [Run -> Obj]
    BY <1>0, <1>2, <1>5, <2>2 DEF Control
  <2> QED
    BY <1>0, <1>1, <2>1, <2>2, <2>3 DEF Control
<1>14. Numbered'
  <2> SUFFICES ASSUME NEW r \in Run
               PROVE  (r > n => phase'[r] = "none") /\ (phase'[r] # "none" => runObj'[r] <= nobj)
    BY <1>1 DEF Numbered
  <2>1. CASE r = n
    BY <1>3, <1>5, <1>8, <2>1 DEF Run
  <2>2. CASE r # n
    <3>1. r > n => r > nrun
      BY <1>0, <1>3, <2>2 DEF Run, Control
    <3> QED
      BY <1>0, <1>8, <2>2, <3>1 DEF Numbered
  <2> QED
    BY <2>1, <2>2
<1>15. Updates'
  BY <1>6, <1>7 DEF Updates, Updating
<1> QED
  BY <1>0, <1>1, <1>7, <1>9, <1>10, <1>11, <1>12, <1>13, <1>14, <1>15 DEF Alone, IInv

(* st.cancel: no run of the session loses the one that reaches it.          *)
LEMMA ArmKeeps == ASSUME IInv, NEW p \in Proc, Arm(p) PROVE IInv'
<1>0. Control /\ Numbered /\ Updates /\ Alone
  BY DEF IInv
<1>1. /\ pc[p] = "arm" /\ pc' = [pc EXCEPT ![p] = "launch"]
      /\ cancel' = [cancel EXCEPT ![got[p]] = mine[p]]
      /\ UNCHANGED <<load, live, nobj, busy, got, mine, phase, runObj, ctxDone, nrun, op, ret>>
  BY DEF Arm, GoTo, runVars, counts
<1>2. got[p] = live /\ live # 0 /\ got[p] \in Obj /\ ~busy[got[p]]
  <2>1. Sending(p)
    BY <1>1 DEF Sending
  <2>2. got[p] = live /\ live # 0 /\ ~busy[got[p]]
    BY <1>0, <2>1 DEF Alone, Found
  <2> QED
    BY <1>0, <2>2, SessionAssumption DEF Control, Obj
<1>3. pc'[p] = "launch" /\ \A q \in Proc \ {p} : pc'[q] = pc[q]
  BY <1>0, <1>1 DEF Control
<1>4. (\A q \in Proc \ {p} : pc[q] = "free" /\ pc'[q] = "free" /\ ~Sending(q)' /\ ~Updating(q)') /\ Single'
  BY <1>0, <1>1, <1>3, OthersFree DEF Alone
<1>5. cancel'[got[p]] = mine[p] /\ \A o \in Obj \ {got[p]} : cancel'[o] = cancel[o]
  BY <1>0, <1>1, <1>2 DEF Control
<1>6. Found' /\ Unused'
  BY <1>1, <1>2, <1>3, <1>4 DEF Found, Unused
<1>7. Prepared'
  BY <1>0, <1>1, <1>3, <1>4, <1>5 DEF Alone, Prepared
<1>8. Exclusive'
  BY <1>0, <1>1 DEF Alone, Exclusive
<1>9. Held'
  <2> SUFFICES ASSUME NEW r \in Run, phase[r] \in {"run", "flush", "add"}
               PROVE  ctxDone[r] \/ (cancel'[runObj[r]] = r /\ runObj[r] = live)
    BY <1>1 DEF Held
  <2>1. runObj[r] # got[p] /\ runObj[r] \in Obj
    BY <1>0, <1>2 DEF Alone, Exclusive, Executing, Control
  <2>2. \A q \in Proc : pc[q] # "cancel"
    BY <1>1, <1>4
  <2> QED
    BY <1>0, <1>5, <2>1, <2>2 DEF Alone, Held
<1>10. Control'
  <2>1. pc' \in [Proc -> PC] /\ cancel' \in [Obj -> 0..MaxRun]
    BY <1>0, <1>1 DEF Control, PC
  <2> QED
    BY <1>0, <1>1, <2>1 DEF Control
<1>11. Numbered' /\ Updates'
  BY <1>0, <1>1, <1>3, <1>4 DEF Numbered, Updates, Updating
<1> QED
  BY <1>0, <1>1, <1>4, <1>6, <1>7, <1>8, <1>9, <1>10, <1>11 DEF Alone, IInv

(* The goroutine starts on an object that was not busy.                     *)
LEMMA LaunchKeeps == ASSUME IInv, NEW p \in Proc, Launch(p) PROVE IInv'
<1>0. Control /\ Numbered /\ Updates /\ Alone
  BY DEF IInv
<1> DEFINE n == mine[p]
<1>1. /\ pc[p] = "launch" /\ pc' = [pc EXCEPT ![p] = "free"]
      /\ busy' = [busy EXCEPT ![got[p]] = TRUE] /\ phase' = [phase EXCEPT ![n] = "run"]
      /\ UNCHANGED <<load, live, nobj, cancel, got, mine, runObj, ctxDone, nrun, op, ret>>
  BY DEF Launch, GoTo, counts
<1>2. got[p] = live /\ live # 0 /\ got[p] \in Obj /\ ~busy[got[p]]
  <2>1. Sending(p)
    BY <1>1 DEF Sending
  <2>2. got[p] = live /\ live # 0 /\ ~busy[got[p]]
    BY <1>0, <2>1 DEF Alone, Found
  <2> QED
    BY <1>0, <2>2, SessionAssumption DEF Control, Obj
<1>3. n \in Run /\ phase[n] = "armed" /\ runObj[n] = got[p] /\ cancel[got[p]] = n
  BY <1>0, <1>1 DEF Alone, Prepared
<1> HIDE DEF n
<1>4. pc'[p] = "free" /\ \A q \in Proc \ {p} : pc'[q] = pc[q]
  BY <1>0, <1>1 DEF Control
<1>5. (\A q \in Proc \ {p} : pc[q] = "free" /\ pc'[q] = "free" /\ ~Sending(q)' /\ ~Updating(q)') /\ Single'
  BY <1>0, <1>1, <1>4, OthersFree DEF Alone
<1>6. Found' /\ Prepared' /\ Unused'
  BY <1>4, <1>5 DEF Found, Prepared, Unused, Sending
<1>7. phase'[n] = "run" /\ \A r \in Run \ {n} : phase'[r] = phase[r]
  BY <1>0, <1>1, <1>3 DEF Control
<1>8. \A r \in Run : phase[r] \in Executing => runObj[r] # got[p]
  BY <1>0, <1>2 DEF Alone, Exclusive
<1>9. Exclusive'
  <2>1. busy'[got[p]] /\ \A o \in Obj : busy[o] => busy'[o]
    BY <1>0, <1>1, <1>2 DEF Control
  <2>2. \A r \in Run : runObj[r] \in Obj
    BY <1>0 DEF Control
  <2>3. \A r \in Run : phase'[r] \in Executing => busy'[runObj[r]]
    BY <1>0, <1>3, <1>7, <2>1, <2>2 DEF Alone, Exclusive
  <2>4. \A r, q \in Run : phase'[r] \in Executing /\ phase'[q] \in Executing /\ runObj[r] = runObj[q] => r = q
    BY <1>0, <1>3, <1>7, <1>8 DEF Alone, Exclusive
  <2> QED
    BY <1>1, <2>3, <2>4 DEF Exclusive
<1>10. Held'
  <2> SUFFICES ASSUME NEW r \in Run, phase'[r] \in {"run", "flush", "add"}
               PROVE  ctxDone[r] \/ (cancel[runObj[r]] = r /\ runObj[r] = live)
    BY <1>1 DEF Held
  <2>1. \A q \in Proc : pc[q] # "cancel"
    BY <1>1, <1>5
  <2> QED
    BY <1>0, <1>2, <1>3, <1>7, <2>1 DEF Alone, Held
<1>11. Control'
  <2>1. pc' \in [Proc -> PC] /\ phase' \in [Run -> Phase]
    BY <1>0, <1>1 DEF Control, PC, Phase
  <2>2. busy' \in [Obj -> BOOLEAN]
    BY <1>0, <1>1 DEF Control
  <2> QED
    BY <1>0, <1>1, <2>1, <2>2 DEF Control
<1>12. Numbered'
  <2>1. \A r \in Run : phase'[r] = "none" <=> phase[r] = "none"
    BY <1>3, <1>7
  <2> QED
    BY <1>0, <1>1, <2>1 DEF Numbered
<1>13. Updates'
  BY <1>4, <1>5 DEF Updates, Updating
<1> QED
  BY <1>0, <1>1, <1>5, <1>6, <1>9, <1>10, <1>11, <1>12, <1>13 DEF Alone, IInv
-----------------------------------------------------------------------------
(* DeleteSession: the session leaves the maps, and its run is cancelled.    *)
LEMMA UnmapKeeps == ASSUME IInv, NEW p \in Proc, Unmap(p) PROVE IInv'
<1>0. Control /\ Numbered /\ Updates /\ Alone
  BY DEF IInv
<1>1. /\ pc[p] = "unmap" /\ got' = [got EXCEPT ![p] = live] /\ live' = 0
      /\ UNCHANGED <<load, nobj, busy, cancel, mine, phase, runObj, ctxDone, nrun, op, ret>>
  BY DEF Unmap, runVars, counts
<1>2. pc' = [pc EXCEPT ![p] = IF live = 0 THEN "free" ELSE "cancel"]
  BY DEF Unmap, GoTo
<1>3. /\ pc'[p] \in {"free", "cancel"} /\ (live # 0 => pc'[p] = "cancel") /\ got'[p] = live
      /\ \A q \in Proc \ {p} : pc'[q] = pc[q]
  BY <1>0, <1>1, <1>2 DEF Control
<1>4. (\A q \in Proc \ {p} : pc[q] = "free" /\ pc'[q] = "free" /\ ~Sending(q)' /\ ~Updating(q)') /\ Single'
  BY <1>0, <1>1, <1>3, OthersFree DEF Alone
<1>5. ~Sending(p)' /\ ~Updating(p)'
  BY <1>3 DEF Sending, Updating
<1>6. Found' /\ Prepared' /\ Unused'
  BY <1>1, <1>3, <1>4, <1>5 DEF Found, Prepared, Unused
<1>7. Exclusive'
  BY <1>0, <1>1 DEF Alone, Exclusive
<1>8. Held'
  <2> SUFFICES ASSUME NEW r \in Run, phase[r] \in {"run", "flush", "add"}, ~ctxDone[r]
               PROVE  cancel[runObj[r]] = r /\ pc'[p] = "cancel" /\ got'[p] = runObj[r]
    BY <1>1 DEF Held
  <2>1. cancel[runObj[r]] = r /\ runObj[r] = live
    BY <1>0, <1>1, <1>4 DEF Alone, Held
  <2>2. runObj[r] # 0
    BY <1>0 DEF Control, Obj
  <2> QED
    BY <1>3, <2>1, <2>2
<1>9. Control'
  <2>1. pc' \in [Proc -> PC] /\ got' \in [Proc -> 0..MaxObj]
    BY <1>0, <1>1, <1>2 DEF Control, PC
  <2>2. live' \in 0..MaxObj /\ live' <= nobj
    BY <1>0, <1>1, SessionAssumption DEF Control
  <2> QED
    BY <1>0, <1>1, <2>1, <2>2 DEF Control
<1>10. Numbered' /\ Updates'
  BY <1>0, <1>1, <1>4, <1>5 DEF Numbered, Updates
<1> QED
  BY <1>0, <1>1, <1>4, <1>6, <1>7, <1>8, <1>9, <1>10 DEF Alone, IInv

LEMMA CancelRunKeeps == ASSUME IInv, NEW p \in Proc, CancelRun(p) PROVE IInv'
<1>0. Control /\ Numbered /\ Updates /\ Alone
  BY DEF IInv
<1>1. /\ pc[p] = "cancel"
      /\ UNCHANGED <<load, live, nobj, busy, cancel, got, mine, phase, runObj, nrun, op, ret>>
  BY DEF CancelRun, objVars, counts
<1>2. /\ pc' = [pc EXCEPT ![p] = IF op[p] = "delete" THEN "close" ELSE "free"]
      /\ ctxDone' = [r \in Run |-> ctxDone[r] \/ r = cancel[got[p]]]
  BY DEF CancelRun, GoTo
<1>3. pc'[p] \in {"free", "close"} /\ \A q \in Proc \ {p} : pc'[q] = pc[q]
  BY <1>0, <1>2 DEF Control
<1>4. (\A q \in Proc \ {p} : pc[q] = "free" /\ pc'[q] = "free" /\ ~Sending(q)' /\ ~Updating(q)') /\ Single'
  BY <1>0, <1>1, <1>3, OthersFree DEF Alone
<1>5. ~Sending(p)' /\ ~Updating(p)'
  BY <1>3 DEF Sending, Updating
<1>6. Found' /\ Prepared' /\ Unused'
  BY <1>3, <1>4, <1>5 DEF Found, Prepared, Unused
<1>7. Exclusive'
  BY <1>0, <1>1 DEF Alone, Exclusive
<1>8. Held'
  <2> SUFFICES ASSUME NEW r \in Run, phase[r] \in {"run", "flush", "add"}
               PROVE  ctxDone'[r] \/ (cancel[runObj[r]] = r /\ runObj[r] = live)
    BY <1>1 DEF Held
  <2>1. \/ ctxDone[r] \/ (cancel[runObj[r]] = r /\ runObj[r] = live)
        \/ (cancel[runObj[r]] = r /\ got[p] = runObj[r])
    BY <1>0, <1>4 DEF Alone, Held
  <2> QED
    BY <1>2, <2>1
<1>9. Control'
  <2>1. pc' \in [Proc -> PC]
    BY <1>0, <1>1, <1>2 DEF Control, PC
  <2>2. ctxDone' \in [Run -> BOOLEAN]
    BY <1>0, <1>2 DEF Control
  <2> QED
    BY <1>0, <1>1, <2>1, <2>2 DEF Control
<1>10. Numbered' /\ Updates'
  BY <1>0, <1>1, <1>4, <1>5 DEF Numbered, Updates
<1> QED
  BY <1>0, <1>1, <1>4, <1>6, <1>7, <1>8, <1>9, <1>10 DEF Alone, IInv
-----------------------------------------------------------------------------
(* A background run goes from one of its phases to the next, and leaves     *)
(* everything but its own phase, and busy in SetIdle, alone.                *)
RunMoves(r) ==
  /\ UNCHANGED <<load, live, nobj, cancel, got, mine, runObj, ctxDone, nrun, pc, op, ret>>
  /\ \E l \in Phase \ {"none", "armed"} :
       /\ phase' = [phase EXCEPT ![r] = l]
       /\ phase[r] \notin {"none", "armed"}
       /\ l \in {"run", "flush", "add"} => phase[r] \in {"run", "flush", "add"}
       /\ l \in Executing => phase[r] \in Executing
       /\ \/ UNCHANGED busy
          \/ phase[r] = "synced" /\ l = "idle" /\ busy' = [busy EXCEPT ![runObj[r]] = FALSE]

LEMMA RunStepMoves ==
  ASSUME Control, NEW r \in Run, RunStep(r)
  PROVE  RunMoves(r)
<1>0. phase \in [Run -> Phase] /\ phase[r] \in Phase
  BY DEF Control
<1>1. CASE FireLLM(r) \/ AnswerHITL(r)
  <2>1. /\ phase[r] = "run" /\ UNCHANGED phase
        /\ UNCHANGED <<load, live, nobj, busy, cancel, got, mine, runObj, ctxDone, nrun, pc, op, ret>>
    BY <1>1 DEF FireLLM, AnswerHITL, AddRows, reqVars
  <2>2. phase' = [phase EXCEPT ![r] = "run"]
    BY <1>0, <2>1
  <2> QED
    BY <2>1, <2>2 DEF RunMoves, Phase, Executing
<1>2. CASE FireHITL(r)
  <2>1. /\ phase[r] = "run" /\ phase' = [phase EXCEPT ![r] = "flush"]
        /\ UNCHANGED <<load, live, nobj, busy, cancel, got, mine, runObj, ctxDone, nrun, pc, op, ret>>
    BY <1>2 DEF FireHITL, AddRows, reqVars
  <2> QED
    BY <2>1 DEF RunMoves, Phase, Executing
<1>3. CASE BatchFlush(r)
  <2>1. /\ phase[r] = "run" /\ phase' = [phase EXCEPT ![r] = "flush"]
        /\ UNCHANGED <<load, live, nobj, busy, cancel, got, mine, runObj, ctxDone, nrun, pc, op, ret>>
    BY <1>3 DEF BatchFlush, objVars, reqVars, counts
  <2> QED
    BY <2>1 DEF RunMoves, Phase, Executing
<1>4. CASE FlushSave(r)
  <2>1. /\ phase[r] = "flush" /\ phase' = [phase EXCEPT ![r] = "add"]
        /\ UNCHANGED <<load, live, nobj, busy, cancel, got, mine, runObj, ctxDone, nrun, pc, op, ret>>
    BY <1>4 DEF FlushSave, objVars, reqVars, counts
  <2> QED
    BY <2>1 DEF RunMoves, Phase, Executing
<1>5. CASE FlushAdd(r)
  <2>1. /\ phase[r] = "add" /\ phase' = [phase EXCEPT ![r] = "run"]
        /\ UNCHANGED <<load, live, nobj, busy, cancel, got, mine, runObj, ctxDone, nrun, pc, op, ret>>
    BY <1>5 DEF FlushAdd, reqVars, counts
  <2> QED
    BY <2>1 DEF RunMoves, Phase, Executing
<1>6. CASE RunReturns(r)
  <2>1. /\ phase[r] = "run" /\ \E l \in {"failed", "ok"} : phase' = [phase EXCEPT ![r] = l]
        /\ UNCHANGED <<load, live, nobj, busy, cancel, got, mine, runObj, ctxDone, nrun, pc, op, ret>>
    BY <1>6 DEF RunReturns, objVars, reqVars, counts
  <2> QED
    BY <2>1 DEF RunMoves, Phase, Executing
<1>7. CASE Sync(r)
  <2>1. /\ phase[r] \in {"failed", "ok"} /\ \E l \in {"collect", "synced"} : phase' = [phase EXCEPT ![r] = l]
        /\ UNCHANGED <<load, live, nobj, busy, cancel, got, mine, runObj, ctxDone, nrun, pc, op, ret>>
    BY <1>7 DEF Sync, reqVars, counts
  <2> QED
    BY <2>1 DEF RunMoves, Phase, Executing
<1>8. CASE CollectOutput(r)
  <2>1. /\ phase[r] = "collect" /\ phase' = [phase EXCEPT ![r] = "synced"]
        /\ UNCHANGED <<load, live, nobj, busy, cancel, got, mine, runObj, ctxDone, nrun, pc, op, ret>>
    BY <1>8 DEF CollectOutput, reqVars
  <2> QED
    BY <2>1 DEF RunMoves, Phase, Executing
<1>9. CASE SetIdle(r)
  <2>1. /\ phase[r] = "synced" /\ phase' = [phase EXCEPT ![r] = "idle"]
        /\ busy' = [busy EXCEPT ![runObj[r]] = FALSE]
        /\ UNCHANGED <<load, live, nobj, cancel, got, mine, runObj, ctxDone, nrun, pc, op, ret>>
    BY <1>9 DEF SetIdle, reqVars, counts
  <2> QED
    BY <2>1 DEF RunMoves, Phase, Executing
<1>10. CASE TakeNew(r)
  <2>1. /\ phase[r] = "idle" /\ phase' = [phase EXCEPT ![r] = "persist"]
        /\ UNCHANGED <<load, live, nobj, busy, cancel, got, mine, runObj, ctxDone, nrun, pc, op, ret>>
    BY <1>10 DEF TakeNew, objVars, reqVars, counts
  <2> QED
    BY <2>1 DEF RunMoves, Phase, Executing
<1>11. CASE PersistAfterRun(r)
  <2>1. /\ phase[r] = "persist" /\ phase' = [phase EXCEPT ![r] = "done"]
        /\ UNCHANGED <<load, live, nobj, busy, cancel, got, mine, runObj, ctxDone, nrun, pc, op, ret>>
    BY <1>11 DEF PersistAfterRun, objVars, reqVars
  <2> QED
    BY <2>1 DEF RunMoves, Phase, Executing
<1> QED
  BY <1>1, <1>2, <1>3, <1>4, <1>5, <1>6, <1>7, <1>8, <1>9, <1>10, <1>11 DEF RunStep

LEMMA RunStepKeeps == ASSUME IInv, NEW r \in Run, RunStep(r) PROVE IInv'
<1>0. Control /\ Numbered /\ Updates /\ Alone
  BY DEF IInv
<1>1. RunMoves(r)
  BY <1>0, RunStepMoves
<1>2. UNCHANGED <<load, live, nobj, cancel, got, mine, runObj, ctxDone, nrun, pc, op, ret>>
  BY <1>1 DEF RunMoves
<1>3. PICK l \in Phase \ {"none", "armed"} :
        /\ phase' = [phase EXCEPT ![r] = l] /\ phase[r] \notin {"none", "armed"}
        /\ l \in {"run", "flush", "add"} => phase[r] \in {"run", "flush", "add"}
        /\ l \in Executing => phase[r] \in Executing
        /\ \/ UNCHANGED busy
           \/ phase[r] = "synced" /\ l = "idle" /\ busy' = [busy EXCEPT ![runObj[r]] = FALSE]
  BY <1>1 DEF RunMoves
<1>4. phase'[r] = l /\ \A q \in Run \ {r} : phase'[q] = phase[q]
  BY <1>0, <1>3 DEF Control
<1>5. busy \in [Obj -> BOOLEAN] /\ \A q \in Run : runObj[q] \in Obj
  BY <1>0 DEF Control
<1>6. \A o \in Obj : busy'[o] => busy[o]
  BY <1>3, <1>5
<1>7. busy' \in [Obj -> BOOLEAN]
  BY <1>3, <1>5
<1>8. Control'
  <2>1. phase' \in [Run -> Phase]
    BY <1>0, <1>3 DEF Control
  <2> QED
    BY <1>0, <1>2, <1>7, <2>1 DEF Control
<1>9. Numbered'
  <2>1. \A q \in Run : phase'[q] = "none" <=> phase[q] = "none"
    BY <1>3, <1>4
  <2> QED
    BY <1>0, <1>2, <2>1 DEF Numbered
<1>10. Updates' /\ Single'
  BY <1>0, <1>2 DEF Updates, Updating, Alone, Single
<1>11. Found'
  <2> SUFFICES ASSUME NEW p \in Proc
               PROVE  /\ Sending(p) \/ pc[p] = "check" => got[p] = live /\ live # 0
                      /\ Sending(p) => ~busy'[got[p]]
    BY <1>2 DEF Found, Sending
  <2>1. Sending(p) => got[p] = live /\ live # 0 /\ ~busy[got[p]]
    BY <1>0 DEF Alone, Found
  <2>2. got[p] = live /\ live # 0 => got[p] \in Obj
    BY <1>0, SessionAssumption DEF Control, Obj
  <2>3. Sending(p) => ~busy'[got[p]]
    BY <1>6, <2>1, <2>2
  <2> QED
    BY <1>0, <2>3 DEF Alone, Found
<1>12. Prepared'
  BY <1>0, <1>2, <1>3, <1>4 DEF Alone, Prepared
<1>13. Unused'
  BY <1>0, <1>2, <1>3, <1>4 DEF Alone, Unused
<1>14. Exclusive'
  <2>1. \A q \in Run : phase'[q] \in Executing => phase[q] \in Executing
    BY <1>3, <1>4
  <2>2. ASSUME NEW q \in Run, phase'[q] \in Executing PROVE busy'[runObj[q]]
    <3>1. phase[q] \in Executing /\ busy[runObj[q]]
      BY <1>0, <2>1, <2>2 DEF Alone, Exclusive
    <3>2. CASE UNCHANGED busy
      BY <3>1, <3>2
    <3>3. CASE phase[r] = "synced" /\ l = "idle" /\ busy' = [busy EXCEPT ![runObj[r]] = FALSE]
      <4>1. q # r /\ phase[r] \in Executing
        BY <1>4, <2>2, <3>3 DEF Executing
      <4>2. runObj[q] # runObj[r]
        BY <1>0, <3>1, <4>1 DEF Alone, Exclusive
      <4> QED
        BY <1>5, <3>1, <3>3, <4>2
    <3> QED
      BY <1>3, <3>2, <3>3
  <2> QED
    BY <1>0, <1>2, <2>1, <2>2 DEF Alone, Exclusive
<1>15. Held'
  BY <1>0, <1>2, <1>3, <1>4 DEF Alone, Held
<1> QED
  BY <1>0, <1>2, <1>8, <1>9, <1>10, <1>11, <1>12, <1>13, <1>14, <1>15 DEF Alone, IInv

(* After a restart there is neither a request nor a run.                    *)
LEMMA RestartKeeps == ASSUME IInv, Restart PROVE IInv'
<1>0. Control /\ Numbered
  BY DEF IInv
<1>1. /\ live' = 0 /\ busy' = [o \in Obj |-> FALSE] /\ cancel' = [o \in Obj |-> 0]
      /\ pc' = [p \in Proc |-> "free"]
      /\ phase' = [r \in Run |-> IF phase[r] = "none" THEN "none" ELSE "dead"]
      /\ UNCHANGED <<load, nobj, got, mine, runObj, ctxDone, nrun, op, ret>>
  BY DEF Restart
<1>2. (\A p \in Proc : pc'[p] = "free") /\ \A r \in Run : phase'[r] \in {"none", "dead"}
  BY <1>1
<1>3. Control'
  <2>1. pc' \in [Proc -> PC] /\ phase' \in [Run -> Phase]
    BY <1>1 DEF PC, Phase
  <2>2. busy' \in [Obj -> BOOLEAN] /\ cancel' \in [Obj -> 0..MaxRun]
    BY <1>1, SessionAssumption
  <2>3. live' \in 0..MaxObj /\ live' <= nobj
    BY <1>0, <1>1, SessionAssumption DEF Control
  <2> QED
    BY <1>0, <1>1, <2>1, <2>2, <2>3 DEF Control
<1>4. Numbered'
  <2>1. \A r \in Run : phase'[r] = "none" <=> phase[r] = "none"
    BY <1>1
  <2> QED
    BY <1>0, <1>1, <2>1 DEF Numbered
<1>5. \A p \in Proc : ~Sending(p)' /\ ~Updating(p)'
  BY <1>2 DEF Sending, Updating
<1>6. Updates' /\ Alone'
  BY <1>2, <1>5 DEF Updates, Alone, Single, Found, Prepared, Unused, Exclusive, Held, Executing
<1> QED
  BY <1>1, <1>3, <1>4, <1>6 DEF IInv

(* The awakening, the cache's clock and stuttering touch none of it.        *)
LEMMA QuietServerKeeps ==
  ASSUME IInv, Awaken \/ AwakenSave \/ CacheExpires \/ UNCHANGED vars
  PROVE  IInv'
<1>1. UNCHANGED <<load, live, nobj, busy, cancel, got, mine, phase, runObj, ctxDone, nrun, pc, op, ret>>
  BY DEF Awaken, AwakenSave, CacheExpires, vars, objVars, reqVars, runVars, counts
<1>2. Control' /\ Numbered' /\ Updates'
  BY <1>1 DEF IInv, Control, Numbered, Updates, Updating
<1>3. Single' /\ Found' /\ Prepared' /\ Unused' /\ Exclusive'
  BY <1>1 DEF IInv, Alone, Single, Found, Prepared, Unused, Exclusive, Sending
<1>4. Held'
  BY <1>1 DEF IInv, Alone, Held
<1> QED
  BY <1>1, <1>2, <1>3, <1>4 DEF IInv, Alone

LEMMA InitHolds == ASSUME Init, load.clients = 1 PROVE IInv
<1>1. /\ live = 1 /\ nobj = 1 /\ busy = [o \in Obj |-> FALSE] /\ cancel = [o \in Obj |-> 0]
      /\ pc = [p \in Proc |-> "free"] /\ got = [p \in Proc |-> 0] /\ mine = [p \in Proc |-> 0]
      /\ ret = [p \in Proc |-> "free"] /\ phase = [r \in Run |-> "none"] /\ runObj = [r \in Run |-> 1]
      /\ ctxDone = [r \in Run |-> FALSE] /\ nrun = 0 /\ load \in Loads
  BY DEF Init, CreateSession, ForkSession
<1>2. Control
  <2>1. 1 \in Obj /\ 1 \in 0..MaxObj /\ 0 \in 0..MaxObj /\ 0 \in 0..MaxRun
    BY SessionAssumption DEF Obj
  <2>2. "free" \in PC /\ "none" \in Phase
    BY DEF PC, Phase
  <2>3. busy \in [Obj -> BOOLEAN] /\ ctxDone \in [Run -> BOOLEAN]
    BY <1>1
  <2> QED
    BY <1>1, <2>1, <2>2, <2>3 DEF Control
<1>3. Numbered /\ Updates
  BY <1>1 DEF Numbered, Updates, Updating
<1>4. Alone
  BY <1>1 DEF Alone, Single, Found, Prepared, Unused, Exclusive, Held, Sending, Executing
<1> QED
  BY <1>2, <1>3, <1>4 DEF IInv

LEMMA NextKeeps == ASSUME IInv, [Next]_vars PROVE IInv'
<1>1. CASE \E p \in Proc : Start(p) \/ Request(p)
  <2>1. PICK p \in Proc : Start(p) \/ Request(p)
    BY <1>1
  <2>2. \/ Start(p) \/ QuietRequest(p) \/ GetFails(p) \/ Build(p) \/ Insert(p) \/ Find(p)
        \/ ResetRoot(p) \/ Arm(p) \/ Launch(p) \/ Unmap(p) \/ CancelRun(p)
    BY <2>1 DEF Request, QuietRequest
  <2> QED
    BY <2>2, StartKeeps, QuietKeeps, GetFailsKeeps, BuildKeeps, InsertKeeps, FindKeeps,
       ResetRootKeeps, ArmKeeps, LaunchKeeps, UnmapKeeps, CancelRunKeeps
<1>2. CASE \E r \in Run : RunStep(r)
  BY <1>2, RunStepKeeps
<1>3. CASE Restart
  BY <1>3, RestartKeeps
<1>4. CASE Awaken \/ AwakenSave \/ CacheExpires \/ UNCHANGED vars
  BY <1>4, QuietServerKeeps
<1> QED
  BY <1>1, <1>2, <1>3, <1>4 DEF Next

(* The load is fixed. *)
LEMMA LoadFixed == ASSUME [Next]_vars PROVE UNCHANGED load
<1>1. CASE \E p \in Proc : Start(p) \/ Request(p)
  BY <1>1 DEF Start, Request, CacheGet, DbGet, GetFails, Fill, Evict, Lookup, Build, Insert, Find, Check,
     AppendUser, AppendUserDb, AutoTitle, ResetRoot, Arm, Launch, Unmap, CancelRun, CloseDb, UpdateExists,
     Update, SoftDelete, counts
<1>2. CASE \E r \in Run : RunStep(r)
  BY <1>2 DEF RunStep, FireLLM, FireHITL, AnswerHITL, AddRows, BatchFlush, FlushSave, FlushAdd, RunReturns,
     Sync, CollectOutput, SetIdle, TakeNew, PersistAfterRun, counts
<1>3. CASE Awaken \/ AwakenSave \/ CacheExpires \/ Restart \/ UNCHANGED vars
  BY <1>3 DEF Awaken, AwakenSave, CacheExpires, Restart, vars, counts
<1> QED
  BY <1>1, <1>2, <1>3 DEF Next

(* A client that sends one request at a time keeps the server in IInv.      *)
LEMMA OneClient == Spec => [](load.clients = 1 => IInv)
<1>1. Init => (load.clients = 1 => IInv)
  BY InitHolds
<1>2. (load.clients = 1 => IInv) /\ [Next]_vars => (load.clients = 1 => IInv)'
  BY NextKeeps, LoadFixed
<1> QED
  BY <1>1, <1>2, PTL DEF Spec

(* ErrSessionBusy, for every number of sends, objects and restarts: two     *)
(* goroutines never run the same Root, because between the busy check and   *)
(* st.set(StateRunning) nothing else can start a run.                       *)
THEOREM OneRunHolds == Spec => []OneRun
<1>1. (load.clients = 1 => IInv) => OneRun
  BY DEF IInv, Alone, Exclusive, OneRun
<1> QED
  BY <1>1, OneClient, PTL

(* DeleteSession: whatever run is on an object that the maps have lost is   *)
(* cancelled, or its cancellation is the next step of the request that took *)
(* the object out.                                                          *)
THEOREM RemovedIsCancelledHolds == Spec => []RemovedIsCancelled
<1>1. (load.clients = 1 => IInv) => RemovedIsCancelled
  BY DEF IInv, Alone, Held, RemovedIsCancelled
<1> QED
  BY <1>1, OneClient, PTL

-----------------------------------------------------------------------------
(* The loops over messages.  FoldLeft is a fold over the prefixes of a       *)
(* sequence; what it computes is proved by induction over their lengths.    *)

(* l has only promoted rows of s from a to b; it has all of them; no uid    *)
(* occurs twice in s from a on.                                             *)
OnlyRows(l, s, a, b) == \A j \in 1..Len(l) : \E k \in a..b : Promoted(s[k]) /\ l[j] = s[k]
AllRows(l, s, a, b) == \A k \in a..b : Promoted(s[k]) => \E j \in 1..Len(l) : l[j] = s[k]
Apart(s, a) == \A x, y \in a..Len(s) : x # y => s[x].uid # s[y].uid

Has(l, m) == \E j \in 1..Len(l) : l[j] = m

(* The messages of s, and the ids of its first i, are in t.                 *)
Within(s, t) == \A k \in 1..Len(s) : \E j \in 1..Len(t) : t[j] = s[k]
IdsWithin(s, i, t) == \A k \in 1..i : \E j \in 1..Len(t) : t[j].id = s[k].id

(* A set of subsets of a finite set has a minimal element, so there is no   *)
(* smallest subset for which a claim fails.                                 *)
LEMMA MinimalSubset ==
  ASSUME NEW S, IsFiniteSet(S), NEW T \in SUBSET (SUBSET S), T # {}
  PROVE  \E x \in T : \A y \in T : ~ (y \subseteq x /\ y # x)
<1>1. SUBSET S = FiniteSubsetsOf(S)
  BY FS_FiniteSubsetsOfFinite
<1>2. \E x \in T : \A y \in T : ~ (<<y, x>> \in StrictSubsetOrdering(S))
  BY <1>1, WFMin, FS_StrictSubsetOrderingWellFounded
<1> QED
  BY <1>2 DEF StrictSubsetOrdering

(* Of some numbers up to n one is the least: the intervals below them are   *)
(* subsets of 1..n.                                                         *)
LEMMA Least ==
  ASSUME NEW n \in Nat, NEW I \in SUBSET (1..n), I # {}
  PROVE  \E x \in I : \A y \in I : x <= y
<1>1. PICK S : S = 1..n
  OBVIOUS
<1>2. IsFiniteSet(S)
  BY <1>1, FS_Interval
<1>3. PICK T : T = {1..k : k \in I}
  OBVIOUS
<1>4. T \in SUBSET (SUBSET S) /\ T # {}
  <2>1. ASSUME NEW k \in I PROVE 1..k \in SUBSET S
    <3>1. k \in 1..n
      OBVIOUS
    <3> QED
      BY <3>1, <1>1
  <2> QED
    BY <2>1, <1>3
<1>5. PICK s \in T : \A y \in T : ~ (y \subseteq s /\ y # s)
  BY <1>2, <1>4, MinimalSubset
<1>6. PICK x \in I : s = 1..x
  BY <1>3
<1>7. ASSUME NEW y \in I, y < x PROVE FALSE
  <2>1. 1..y \in T /\ 1..y \subseteq 1..x /\ x \in 1..x /\ x \notin 1..y
    BY <1>3, <1>7
  <2> QED
    BY <2>1, <1>5, <1>6
<1> QED
  BY <1>7

LEMMA MinLeast ==
  ASSUME NEW n \in Nat, NEW I \in SUBSET (1..n), I # {}
  PROVE  Min(I) \in I /\ \A y \in I : Min(I) <= y
BY Least DEF Min

(* What inserting and removing at a position does.                          *)
LEMMA InsertShape ==
  ASSUME NEW S, NEW l \in Seq(S), NEW e \in S, NEW i \in 1..(Len(l) + 1)
  PROVE  /\ InsertAt(l, i, e) \in Seq(S)
         /\ Len(InsertAt(l, i, e)) = Len(l) + 1
         /\ \A k \in 1..(Len(l) + 1) :
              InsertAt(l, i, e)[k] = IF k < i THEN l[k] ELSE IF k = i THEN e ELSE l[k - 1]
<1> DEFINE a == SubSeq(l, 1, i - 1)
           b == SubSeq(l, i, Len(l))
<1>1. Len(l) \in Nat /\ \A k \in 1..Len(l) : l[k] \in S
  OBVIOUS
<1>2. /\ a \in Seq(S) /\ Len(a) = i - 1
      /\ \A k \in 1..(i - 1) : a[k] = l[k]
  BY <1>1, SubSeqProperties
<1>3. /\ b \in Seq(S) /\ Len(b) = Len(l) - i + 1
      /\ \A k \in 1..(Len(l) - i + 1) : b[k] = l[i + k - 1]
  <2>1. \A k \in i..Len(l) : l[k] \in S
    BY <1>1
  <2> QED
    BY <1>1, <2>1, SubSeqProperties
<1>4. <<e>> \in Seq(S) /\ Len(<<e>>) = 1 /\ <<e>>[1] = e
  OBVIOUS
<1> HIDE DEF a, b
<1>5. /\ a \o <<e>> \in Seq(S) /\ Len(a \o <<e>>) = i
      /\ \A k \in 1..i : (a \o <<e>>)[k] = IF k < i THEN l[k] ELSE e
  <2>1. /\ a \o <<e>> \in Seq(S) /\ Len(a \o <<e>>) = Len(a) + 1
        /\ \A k \in 1..(Len(a) + 1) : (a \o <<e>>)[k] = IF k <= Len(a) THEN a[k] ELSE <<e>>[k - Len(a)]
    BY <1>2, <1>4, ConcatProperties
  <2>2. Len(a) = i - 1 /\ Len(a) + 1 = i /\ i \in Int
    BY <1>2, <1>1
  <2>3. ASSUME NEW k \in 1..i PROVE (a \o <<e>>)[k] = IF k < i THEN l[k] ELSE e
    <3>1. CASE k < i
      BY <3>1, <2>1, <2>2, <1>2
    <3>2. CASE k = i
      <4>1. (a \o <<e>>)[i] = <<e>>[i - (i - 1)] /\ i - (i - 1) = 1
        BY <2>1, <2>2
      <4>2. (a \o <<e>>)[i] = e
        BY <4>1, <1>4, Zenon
      <4> QED
        BY <4>2, <3>2, <2>2
    <3> QED
      BY <3>1, <3>2, <2>2
  <2> QED
    BY <2>1, <2>2, <2>3
<1>6. /\ (a \o <<e>>) \o b \in Seq(S) /\ Len((a \o <<e>>) \o b) = Len(l) + 1
      /\ \A k \in 1..(Len(l) + 1) :
           ((a \o <<e>>) \o b)[k] = IF k <= i THEN (a \o <<e>>)[k] ELSE b[k - i]
  <2> DEFINE u == a \o <<e>>
  <2>1. u \in Seq(S) /\ Len(u) = i
    BY <1>5
  <2> HIDE DEF u
  <2>2. /\ u \o b \in Seq(S) /\ Len(u \o b) = Len(u) + Len(b)
        /\ \A k \in 1..(Len(u) + Len(b)) : (u \o b)[k] = IF k <= Len(u) THEN u[k] ELSE b[k - Len(u)]
    BY <2>1, <1>3, ConcatProperties
  <2>3. Len(u) + Len(b) = Len(l) + 1
    BY <2>1, <1>1, <1>3
  <2> QED
    BY <2>1, <2>2, <2>3 DEF u
<1>7. InsertAt(l, i, e) = (a \o <<e>>) \o b
  BY DEF InsertAt, a, b
<1>8. ASSUME NEW k \in 1..(Len(l) + 1)
      PROVE  ((a \o <<e>>) \o b)[k] = IF k < i THEN l[k] ELSE IF k = i THEN e ELSE l[k - 1]
  <2>1. CASE k <= i
    BY <2>1, <1>5, <1>6
  <2>2. CASE k > i
    <3>1. k - i \in 1..(Len(l) - i + 1) /\ i + (k - i) - 1 = k - 1
      BY <2>2, <1>1
    <3> QED
      BY <2>2, <3>1, <1>3, <1>6
  <2>3. k <= i \/ k > i
    BY <1>1
  <2> QED
    BY <2>1, <2>2, <2>3, Zenon
<1> QED
  BY <1>6, <1>7, <1>8

(* Induction up to n, over a set of numbers.                                *)
LEMMA UpTo ==
  ASSUME NEW n \in Nat, NEW C \in SUBSET (0..n), 0 \in C,
         \A k \in 0..(n - 1) : k \in C => k + 1 \in C
  PROVE  \A k \in 0..n : k \in C
<1> SUFFICES ASSUME NEW k0 \in 0..n, k0 \notin C PROVE FALSE
  OBVIOUS
<1>1. PICK I : I = {k \in 1..n : k \notin C}
  OBVIOUS
<1>2. I \in SUBSET (1..n) /\ I # {}
  BY <1>1
<1>3. PICK x \in I : \A y \in I : x <= y
  BY <1>2, Least
<1>4. x \in 1..n /\ x \notin C /\ x - 1 \in 0..(n - 1) /\ (x - 1) + 1 = x
  BY <1>1
<1>5. x - 1 \in C
  BY <1>1, <1>3, <1>4
<1> QED
  BY <1>4, <1>5

(* The last of some numbers up to n.                                        *)
LEMMA MaxIs ==
  ASSUME NEW n \in Nat, NEW I \in SUBSET (1..n), n \in I
  PROVE  Max(I) = n
<1>1. \A y \in I : y \in Int /\ n >= y
  OBVIOUS
<1>2. Max(I) \in I /\ \A y \in I : Max(I) >= y
  BY <1>1 DEF Max
<1>3. Max(I) >= n /\ n >= Max(I) /\ Max(I) \in Int
  BY <1>1, <1>2
<1> QED
  BY <1>3

LEMMA MaxGreatest ==
  ASSUME NEW n \in Nat, NEW I \in SUBSET (1..n), I # {}
  PROVE  Max(I) \in I
<1>1. PICK J : J = {x \in 1..n : n + 1 - x \in I}
  OBVIOUS
<1>2. J \in SUBSET (1..n) /\ J # {}
  <2>1. PICK y \in I : y \in 1..n
    OBVIOUS
  <2>2. n + 1 - y \in 1..n /\ n + 1 - (n + 1 - y) = y
    BY <2>1
  <2>3. n + 1 - y \in J
    BY <1>1, <2>1, <2>2
  <2> QED
    BY <1>1, <2>3
<1>3. PICK x \in J : \A y \in J : x <= y
  BY <1>2, Least
<1>4. PICK z \in I : z = n + 1 - x
  BY <1>1
<1>5. ASSUME NEW y \in I PROVE z >= y
  <2>1. y \in 1..n /\ n + 1 - y \in 1..n /\ n + 1 - (n + 1 - y) = y
    OBVIOUS
  <2>2. n + 1 - y \in J
    BY <1>1, <2>1
  <2>3. x <= n + 1 - y /\ x \in 1..n
    BY <1>1, <1>3, <2>2
  <2> QED
    BY <1>4, <2>1, <2>3
<1> QED
  BY <1>5 DEF Max

(* A fold over 1..n, as MapThenFoldSet runs it, exists and stays in T.      *)
Folds(g, n, b, st) ==
  \A d \in SUBSET (1..n) : g[d] = IF d = {} THEN b ELSE st[<<g[d \ {Max(d)}], Max(d)>>]

LEMMA FoldExists ==
  ASSUME NEW n \in Nat, NEW T, NEW b \in T, NEW st \in [T \X (1..n) -> T]
  PROVE  \E g \in [SUBSET (1..n) -> T] : Folds(g, n, b, st)
<1> DEFINE Runs(g, k) == \A s \in SUBSET (1..k) :
                            g[s] = IF s = {} THEN b ELSE st[<<g[s \ {Max(s)}], Max(s)>>]
           C == {k \in 0..n : \E g \in [SUBSET (1..k) -> T] : Runs(g, k)}
<1>1. 0 \in C
  <2>1. PICK g : g = [s \in SUBSET (1..0) |-> b]
    OBVIOUS
  <2>2. \A s \in SUBSET (1..0) : s = {}
    OBVIOUS
  <2>3. g \in [SUBSET (1..0) -> T] /\ Runs(g, 0)
    BY <2>1, <2>2
  <2> HIDE DEF Runs
  <2>4. 0 \in 0..n
    OBVIOUS
  <2> QED
    BY <2>3, <2>4
<1>2. ASSUME NEW k \in 0..(n - 1), k \in C PROVE k + 1 \in C
  <2>1. PICK g \in [SUBSET (1..k) -> T] : Runs(g, k)
    BY <1>2
  <2>2. PICK m \in 1..n : m = k + 1
    OBVIOUS
  <2>3. PICK h : h = [s \in SUBSET (1..m) |-> IF m \in s THEN st[<<g[s \ {m}], m>>] ELSE g[s]]
    OBVIOUS
  <2>4. \A s \in SUBSET (1..m) : (s \ {m} \in SUBSET (1..k)) /\ (m \notin s => s \in SUBSET (1..k))
    BY <2>2
  <2>5. h \in [SUBSET (1..m) -> T]
    BY <2>3, <2>4
  <2>6. ASSUME NEW s \in SUBSET (1..m)
        PROVE  h[s] = IF s = {} THEN b ELSE st[<<h[s \ {Max(s)}], Max(s)>>]
    <3>1. CASE m \in s
      <4>1. Max(s) = m
        BY <3>1, MaxIs
      <4>2. m \notin s \ {m} /\ s \ {m} \in SUBSET (1..m)
        OBVIOUS
      <4>3. h[s \ {m}] = g[s \ {m}]
        BY <2>3, <4>2
      <4> QED
        BY <2>3, <3>1, <4>1, <4>3
    <3>2. CASE m \notin s
      <4>1. h[s] = g[s] /\ s \in SUBSET (1..k)
        BY <2>3, <2>4, <3>2
      <4>2. PICK x : x = Max(s)
        OBVIOUS
      <4>3. s \ {x} \in SUBSET (1..m) /\ m \notin s \ {x}
        BY <3>2
      <4>4. h[s \ {x}] = g[s \ {x}]
        BY <2>3, <4>3
      <4> QED
        BY <2>1, <4>1, <4>2, <4>4
    <3> QED
      BY <3>1, <3>2
  <2>7. Runs(h, m)
    BY <2>6
  <2>8. m \in 0..n
    BY <2>2
  <2> HIDE DEF Runs
  <2>9. m \in C
    BY <2>5, <2>7, <2>8
  <2> QED
    BY <2>2, <2>9
<1>3. C \in SUBSET (0..n)
  OBVIOUS
<1>4. n \in C
  <2> HIDE DEF C
  <2>1. \A k \in 0..n : k \in C
    BY <1>1, <1>2, <1>3, UpTo
  <2> QED
    BY <2>1
<1> QED
  BY <1>4 DEF Folds

(* FoldLeft, prefix by prefix: the filter of promoted rows.                 *)
LEMMA RowsRun ==
  ASSUME NEW S, NEW s \in Seq(S)
  PROVE  \E f : /\ f[0] = <<>> /\ Rows(s) = f[Len(s)]
                /\ \A i \in 1..Len(s) : f[i] = Promote(f[i - 1], s[i])
<1> DEFINE step(g) == [d \in SUBSET (DOMAIN s) |->
                         IF d = {} THEN <<>>
                         ELSE Promote(g[d \ {Max(d)}], s[Max(d)])]
           fold == CHOOSE g : g = step(g)
<1>1. Rows(s) = fold[DOMAIN s]
  BY DEF Rows, FoldLeft, MapThenFoldSet
<1>2. PICK n \in Nat : n = Len(s) /\ DOMAIN s = 1..n /\ \A i \in 1..n : s[i] \in S
  OBVIOUS
<1>3. PICK T : T = Seq(S)
  OBVIOUS
<1>4. PICK st : st = [x \in T \X (1..n) |-> Promote(x[1], s[x[2]])]
  OBVIOUS
<1>5. st \in [T \X (1..n) -> T]
  <2>1. ASSUME NEW x \in T \X (1..n)
        PROVE  (Promote(x[1], s[x[2]])) \in T
    <3>1. x[1] \in Seq(S) /\ s[x[2]] \in S
      BY <1>2, <1>3
    <3> QED
      BY <1>3, <3>1 DEF Promote
  <2> QED
    BY <1>4, <2>1
<1>6. PICK g \in [SUBSET (1..n) -> T] : \A d \in SUBSET (1..n) :
        g[d] = IF d = {} THEN <<>> ELSE st[<<g[d \ {Max(d)}], Max(d)>>]
  <2>0. <<>> \in Seq(S)
    OBVIOUS
  <2>1. PICK b \in T : b = <<>>
    BY <1>3, <2>0
  <2>2. \E g \in [SUBSET (1..n) -> T] : Folds(g, n, b, st)
    BY <1>2, <1>5, <2>1, FoldExists
  <2> QED
    BY <2>1, <2>2 DEF Folds
<1>7. g = step(g)
  <2>1. ASSUME NEW d \in SUBSET (1..n), d # {}
        PROVE  st[<<g[d \ {Max(d)}], Max(d)>>] = (Promote(g[d \ {Max(d)}], s[Max(d)]))
    <3>1. PICK x \in 1..n : x = Max(d)
      BY <1>2, <2>1, MaxGreatest
    <3>2. g[d \ {x}] \in T
      OBVIOUS
    <3>3. PICK h \in T : h = g[d \ {x}]
      BY <3>2
    <3>4. <<h, x>> \in T \X (1..n) /\ <<h, x>>[1] = h /\ <<h, x>>[2] = x
      OBVIOUS
    <3>5. st[<<h, x>>] = Promote(h, s[x])
      BY <1>4, <3>4
    <3> QED
      BY <3>1, <3>3, <3>5
  <2>2. ASSUME NEW d \in SUBSET (1..n)
        PROVE  g[d] = IF d = {} THEN <<>> ELSE Promote(g[d \ {Max(d)}], s[Max(d)])
    <3>1. CASE d = {}
      BY <1>6, <3>1
    <3>2. CASE d # {}
      <4>1. g[d] = st[<<g[d \ {Max(d)}], Max(d)>>]
        BY <1>6, <3>2
      <4>2. g[d] = Promote(g[d \ {Max(d)}], s[Max(d)])
        BY <2>1, <3>2, <4>1
      <4> QED
        BY <3>2, <4>2
    <3> QED
      BY <3>1, <3>2
  <2>3. g = [d \in SUBSET (1..n) |-> IF d = {} THEN <<>> ELSE Promote(g[d \ {Max(d)}], s[Max(d)])]
    BY <2>2
  <2> QED
    BY <1>2, <2>3
<1>8. fold = step(fold)
  <2> HIDE DEF step
  <2> QED
    BY <1>7
<1> HIDE DEF fold
<1>9. PICK f : f = [i \in 0..n |-> fold[1..i]]
  OBVIOUS
<1>10. f[0] = <<>>
  <2>1. 0 \in 0..n /\ 1..0 = {} /\ {} \in SUBSET (1..n)
    BY <1>2
  <2> QED
    BY <1>2, <1>8, <1>9, <2>1
<1>11. ASSUME NEW i \in 1..n
       PROVE  f[i] = Promote(f[i - 1], s[i])
  <2>1. i \in 0..n /\ i - 1 \in 0..n /\ i \in Nat
    BY <1>2
  <2>2. PICK d \in SUBSET (1..n) : d = 1..i
    BY <1>2
  <2>3. Max(d) = i /\ d # {} /\ d \ {i} = 1..(i - 1)
    <3>1. d \in SUBSET (1..i) /\ i \in d
      BY <2>1, <2>2
    <3>2. Max(d) = i
      BY <2>1, <3>1, MaxIs
    <3>3. d # {} /\ d \ {i} = 1..(i - 1)
      BY <2>1, <2>2
    <3> QED
      BY <3>2, <3>3
  <2>4. f[i] = fold[d] /\ f[i - 1] = fold[d \ {i}]
    BY <1>9, <2>1, <2>2, <2>3
  <2>5. fold[d] = IF d = {} THEN <<>> ELSE Promote(fold[d \ {Max(d)}], s[Max(d)])
    BY <1>2, <1>8
  <2> QED
    BY <2>3, <2>4, <2>5
<1>12. f[n] = fold[DOMAIN s]
  BY <1>2, <1>9
<1> QED
  BY <1>1, <1>2, <1>10, <1>11, <1>12

(* The inserts of AppendMessages, one by one.                               *)
LEMMA InsertedRun ==
  ASSUME NEW S, NEW table \in Seq(S), NEW ms \in Seq(S)
  PROVE  \E f : /\ f[0] = table /\ Inserted(table, ms) = f[Len(ms)]
                /\ \A i \in 1..Len(ms) : f[i] = InsertRow(f[i - 1], ms[i])
<1> DEFINE step(g) == [d \in SUBSET (DOMAIN ms) |->
                         IF d = {} THEN table
                         ELSE InsertRow(g[d \ {Max(d)}], ms[Max(d)])]
           fold == CHOOSE g : g = step(g)
<1>1. Inserted(table, ms) = fold[DOMAIN ms]
  BY DEF Inserted, FoldLeft, MapThenFoldSet
<1>2. PICK n \in Nat : n = Len(ms) /\ DOMAIN ms = 1..n /\ \A i \in 1..n : ms[i] \in S
  OBVIOUS
<1>3. PICK T : T = Seq(S)
  OBVIOUS
<1>4. PICK st : st = [x \in T \X (1..n) |-> InsertRow(x[1], ms[x[2]])]
  OBVIOUS
<1>5. st \in [T \X (1..n) -> T]
  <2>1. ASSUME NEW x \in T \X (1..n)
        PROVE  (InsertRow(x[1], ms[x[2]])) \in T
    <3>1. x[1] \in Seq(S) /\ ms[x[2]] \in S
      BY <1>2, <1>3
    <3> QED
      BY <1>3, <3>1 DEF InsertRow
  <2> QED
    BY <1>4, <2>1
<1>6. PICK g \in [SUBSET (1..n) -> T] : \A d \in SUBSET (1..n) :
        g[d] = IF d = {} THEN table ELSE st[<<g[d \ {Max(d)}], Max(d)>>]
  <2>0. table \in Seq(S)
    OBVIOUS
  <2>1. PICK b \in T : b = table
    BY <1>3, <2>0
  <2>2. \E g \in [SUBSET (1..n) -> T] : Folds(g, n, b, st)
    BY <1>2, <1>5, <2>1, FoldExists
  <2> QED
    BY <2>1, <2>2 DEF Folds
<1>7. g = step(g)
  <2>1. ASSUME NEW d \in SUBSET (1..n), d # {}
        PROVE  st[<<g[d \ {Max(d)}], Max(d)>>] = (InsertRow(g[d \ {Max(d)}], ms[Max(d)]))
    <3>1. PICK x \in 1..n : x = Max(d)
      BY <1>2, <2>1, MaxGreatest
    <3>2. g[d \ {x}] \in T
      OBVIOUS
    <3>3. PICK h \in T : h = g[d \ {x}]
      BY <3>2
    <3>4. <<h, x>> \in T \X (1..n) /\ <<h, x>>[1] = h /\ <<h, x>>[2] = x
      OBVIOUS
    <3>5. st[<<h, x>>] = InsertRow(h, ms[x])
      BY <1>4, <3>4
    <3> QED
      BY <3>1, <3>3, <3>5
  <2>2. ASSUME NEW d \in SUBSET (1..n)
        PROVE  g[d] = IF d = {} THEN table ELSE InsertRow(g[d \ {Max(d)}], ms[Max(d)])
    <3>1. CASE d = {}
      BY <1>6, <3>1
    <3>2. CASE d # {}
      <4>1. g[d] = st[<<g[d \ {Max(d)}], Max(d)>>]
        BY <1>6, <3>2
      <4>2. g[d] = InsertRow(g[d \ {Max(d)}], ms[Max(d)])
        BY <2>1, <3>2, <4>1
      <4> QED
        BY <3>2, <4>2
    <3> QED
      BY <3>1, <3>2
  <2>3. g = [d \in SUBSET (1..n) |-> IF d = {} THEN table ELSE InsertRow(g[d \ {Max(d)}], ms[Max(d)])]
    BY <2>2
  <2> QED
    BY <1>2, <2>3
<1>8. fold = step(fold)
  <2> HIDE DEF step
  <2> QED
    BY <1>7
<1> HIDE DEF fold
<1>9. PICK f : f = [i \in 0..n |-> fold[1..i]]
  OBVIOUS
<1>10. f[0] = table
  <2>1. 0 \in 0..n /\ 1..0 = {} /\ {} \in SUBSET (1..n)
    BY <1>2
  <2> QED
    BY <1>2, <1>8, <1>9, <2>1
<1>11. ASSUME NEW i \in 1..n
       PROVE  f[i] = InsertRow(f[i - 1], ms[i])
  <2>1. i \in 0..n /\ i - 1 \in 0..n /\ i \in Nat
    BY <1>2
  <2>2. PICK d \in SUBSET (1..n) : d = 1..i
    BY <1>2
  <2>3. Max(d) = i /\ d # {} /\ d \ {i} = 1..(i - 1)
    <3>1. d \in SUBSET (1..i) /\ i \in d
      BY <2>1, <2>2
    <3>2. Max(d) = i
      BY <2>1, <3>1, MaxIs
    <3>3. d # {} /\ d \ {i} = 1..(i - 1)
      BY <2>1, <2>2
    <3> QED
      BY <3>2, <3>3
  <2>4. f[i] = fold[d] /\ f[i - 1] = fold[d \ {i}]
    BY <1>9, <2>1, <2>2, <2>3
  <2>5. fold[d] = IF d = {} THEN table ELSE InsertRow(fold[d \ {Max(d)}], ms[Max(d)])
    BY <1>2, <1>8
  <2> QED
    BY <2>3, <2>4, <2>5
<1>12. f[n] = fold[DOMAIN ms]
  BY <1>2, <1>9
<1> QED
  BY <1>1, <1>2, <1>10, <1>11, <1>12

(* A row placed by its time stamp joins the others.                         *)
LEMMA PlacedShape ==
  ASSUME NEW S, NEW ms \in Seq(S), NEW m \in S
  PROVE  Placed(ms, m) \in Seq(S) /\ Has(Placed(ms, m), m) /\ Within(ms, Placed(ms, m))
<1> DEFINE I == {i \in 1..Len(ms) : ms[i].uid > m.uid}
           p == IF I # {} THEN Min(I) ELSE 0
<1>1. Len(ms) \in Nat
  OBVIOUS
<1>2. Placed(ms, m) = InsertAt(ms, IF p = 0 THEN Len(ms) + 1 ELSE p, m)
  BY DEF Placed, SelectInSeq
<1>3. p \in 0..Len(ms)
  <2>1. CASE I = {}
    BY <1>1, <2>1
  <2>2. CASE I # {}
    <3>1. I \in SUBSET (1..Len(ms))
      OBVIOUS
    <3> HIDE DEF I
    <3>2. Min(I) \in 1..Len(ms)
      BY <1>1, <2>2, <3>1, MinLeast
    <3> QED
      BY <1>1, <2>2, <3>2
  <2> QED
    BY <2>1, <2>2
<1> HIDE DEF p
<1>4. PICK i \in 1..(Len(ms) + 1) : Placed(ms, m) = InsertAt(ms, i, m)
  BY <1>1, <1>2, <1>3
<1>5. /\ Placed(ms, m) \in Seq(S) /\ Len(Placed(ms, m)) = Len(ms) + 1
      /\ \A k \in 1..(Len(ms) + 1) :
           Placed(ms, m)[k] = IF k < i THEN ms[k] ELSE IF k = i THEN m ELSE ms[k - 1]
  <2>1. /\ InsertAt(ms, i, m) \in Seq(S) /\ Len(InsertAt(ms, i, m)) = Len(ms) + 1
        /\ \A k \in 1..(Len(ms) + 1) :
             InsertAt(ms, i, m)[k] = IF k < i THEN ms[k] ELSE IF k = i THEN m ELSE ms[k - 1]
    BY InsertShape
  <2> QED
    BY <1>4, <2>1, Zenon
<1>6. Placed(ms, m)[i] = m
  BY <1>1, <1>5
<1>7. ASSUME NEW k \in 1..Len(ms) PROVE \E j \in 1..(Len(ms) + 1) : Placed(ms, m)[j] = ms[k]
  <2>1. CASE k < i
    BY <1>1, <1>5, <2>1
  <2>2. CASE k >= i
    <3>1. k + 1 \in 1..(Len(ms) + 1) /\ ~(k + 1 < i) /\ k + 1 # i /\ (k + 1) - 1 = k
      BY <1>1, <2>2
    <3>2. Placed(ms, m)[k + 1] = ms[k]
      BY <1>5, <3>1
    <3> QED
      BY <3>1, <3>2
  <2> QED
    BY <1>1, <2>1, <2>2
<1> QED
  BY <1>5, <1>6, <1>7 DEF Has, Within

(* The order by timestamp, built up row by row.                             *)
LEMMA ByTimestampRun ==
  ASSUME NEW S, NEW ms \in Seq(S)
  PROVE  \E f : /\ f[0] = <<>> /\ ByTimestamp(ms) = f[Len(ms)]
                /\ \A i \in 1..Len(ms) : f[i] = Placed(f[i - 1], ms[i])
<1> DEFINE step(g) == [d \in SUBSET (DOMAIN ms) |->
                         IF d = {} THEN <<>>
                         ELSE Placed(g[d \ {Max(d)}], ms[Max(d)])]
           fold == CHOOSE g : g = step(g)
<1>1. ByTimestamp(ms) = fold[DOMAIN ms]
  BY DEF ByTimestamp, FoldLeft, MapThenFoldSet
<1>2. PICK n \in Nat : n = Len(ms) /\ DOMAIN ms = 1..n /\ \A i \in 1..n : ms[i] \in S
  OBVIOUS
<1>3. PICK T : T = Seq(S)
  OBVIOUS
<1>4. PICK st : st = [x \in T \X (1..n) |-> Placed(x[1], ms[x[2]])]
  OBVIOUS
<1>5. st \in [T \X (1..n) -> T]
  <2>1. ASSUME NEW x \in T \X (1..n)
        PROVE  (Placed(x[1], ms[x[2]])) \in T
    <3>1. x[1] \in Seq(S) /\ ms[x[2]] \in S
      BY <1>2, <1>3
    <3> QED
      BY <1>3, <3>1, PlacedShape
  <2> QED
    BY <1>4, <2>1
<1>6. PICK g \in [SUBSET (1..n) -> T] : \A d \in SUBSET (1..n) :
        g[d] = IF d = {} THEN <<>> ELSE st[<<g[d \ {Max(d)}], Max(d)>>]
  <2>0. <<>> \in Seq(S)
    OBVIOUS
  <2>1. PICK b \in T : b = <<>>
    BY <1>3, <2>0
  <2>2. \E g \in [SUBSET (1..n) -> T] : Folds(g, n, b, st)
    BY <1>2, <1>5, <2>1, FoldExists
  <2> QED
    BY <2>1, <2>2 DEF Folds
<1>7. g = step(g)
  <2>1. ASSUME NEW d \in SUBSET (1..n), d # {}
        PROVE  st[<<g[d \ {Max(d)}], Max(d)>>] = (Placed(g[d \ {Max(d)}], ms[Max(d)]))
    <3>1. PICK x \in 1..n : x = Max(d)
      BY <1>2, <2>1, MaxGreatest
    <3>2. g[d \ {x}] \in T
      OBVIOUS
    <3>3. PICK h \in T : h = g[d \ {x}]
      BY <3>2
    <3>4. <<h, x>> \in T \X (1..n) /\ <<h, x>>[1] = h /\ <<h, x>>[2] = x
      OBVIOUS
    <3>5. st[<<h, x>>] = Placed(h, ms[x])
      BY <1>4, <3>4
    <3> QED
      BY <3>1, <3>3, <3>5
  <2>2. ASSUME NEW d \in SUBSET (1..n)
        PROVE  g[d] = IF d = {} THEN <<>> ELSE Placed(g[d \ {Max(d)}], ms[Max(d)])
    <3>1. CASE d = {}
      BY <1>6, <3>1
    <3>2. CASE d # {}
      <4>1. g[d] = st[<<g[d \ {Max(d)}], Max(d)>>]
        BY <1>6, <3>2
      <4>2. g[d] = Placed(g[d \ {Max(d)}], ms[Max(d)])
        BY <2>1, <3>2, <4>1
      <4> QED
        BY <3>2, <4>2
    <3> QED
      BY <3>1, <3>2
  <2>3. g = [d \in SUBSET (1..n) |-> IF d = {} THEN <<>> ELSE Placed(g[d \ {Max(d)}], ms[Max(d)])]
    BY <2>2
  <2> QED
    BY <1>2, <2>3
<1>8. fold = step(fold)
  <2> HIDE DEF step
  <2> QED
    BY <1>7
<1> HIDE DEF fold
<1>9. PICK f : f = [i \in 0..n |-> fold[1..i]]
  OBVIOUS
<1>10. f[0] = <<>>
  <2>1. 0 \in 0..n /\ 1..0 = {} /\ {} \in SUBSET (1..n)
    BY <1>2
  <2> QED
    BY <1>2, <1>8, <1>9, <2>1
<1>11. ASSUME NEW i \in 1..n
       PROVE  f[i] = Placed(f[i - 1], ms[i])
  <2>1. i \in 0..n /\ i - 1 \in 0..n /\ i \in Nat
    BY <1>2
  <2>2. PICK d \in SUBSET (1..n) : d = 1..i
    BY <1>2
  <2>3. Max(d) = i /\ d # {} /\ d \ {i} = 1..(i - 1)
    <3>1. d \in SUBSET (1..i) /\ i \in d
      BY <2>1, <2>2
    <3>2. Max(d) = i
      BY <2>1, <3>1, MaxIs
    <3>3. d # {} /\ d \ {i} = 1..(i - 1)
      BY <2>1, <2>2
    <3> QED
      BY <3>2, <3>3
  <2>4. f[i] = fold[d] /\ f[i - 1] = fold[d \ {i}]
    BY <1>9, <2>1, <2>2, <2>3
  <2>5. fold[d] = IF d = {} THEN <<>> ELSE Placed(fold[d \ {Max(d)}], ms[Max(d)])
    BY <1>2, <1>8
  <2> QED
    BY <2>3, <2>4, <2>5
<1>12. f[n] = fold[DOMAIN ms]
  BY <1>2, <1>9
<1> QED
  BY <1>1, <1>2, <1>10, <1>11, <1>12

LEMMA AppendShape ==
  ASSUME NEW S, NEW t \in Seq(S), NEW m \in S
  PROVE  /\ Append(t, m) \in Seq(S) /\ Len(t) \in Nat /\ Len(Append(t, m)) = Len(t) + 1
         /\ Append(t, m)[Len(t) + 1] = m
         /\ \A j \in 1..Len(t) : Append(t, m)[j] = t[j]
OBVIOUS

LEMMA AppendedRows ==
  ASSUME NEW S, NEW s \in Seq(S), NEW t \in Seq(S), NEW m \in 1..Len(s), Promoted(s[m]),
         OnlyRows(t, s, 1, m - 1), AllRows(t, s, 1, m - 1)
  PROVE  /\ Append(t, s[m]) \in Seq(S)
         /\ OnlyRows(Append(t, s[m]), s, 1, m) /\ AllRows(Append(t, s[m]), s, 1, m)
         /\ Apart(s, 1) /\ Apart(t, 1) => Apart(Append(t, s[m]), 1)
<1>0. s[m] \in S /\ Len(s) \in Nat
  OBVIOUS
<1>1. PICK u \in Seq(S) : u = Append(t, s[m])
  BY <1>0, AppendShape
<1>2. PICK e \in Nat : e = Len(t)
  OBVIOUS
<1>3. Len(u) = e + 1 /\ u[e + 1] = s[m] /\ \A j \in 1..e : u[j] = t[j]
  BY <1>0, <1>1, <1>2, AppendShape
<1>4. e + 1 \in 1..(e + 1) /\ \A j \in 1..(e + 1) : j \in 1..e \/ j = e + 1
  BY <1>2
<1>5. m \in 1..m /\ \A k \in 1..m : k \in 1..(m - 1) \/ k = m
  BY <1>0
<1>6. (\A k \in 1..(m - 1) : k \in 1..m) /\ (\A j \in 1..e : j \in 1..(e + 1))
  BY <1>0, <1>2
<1>7. OnlyRows(u, s, 1, m)
  <2>1. ASSUME NEW j \in 1..(e + 1) PROVE \E k \in 1..m : Promoted(s[k]) /\ u[j] = s[k]
    <3>1. CASE j = e + 1
      BY <1>3, <1>5, <3>1
    <3>2. CASE j \in 1..e
      <4>1. PICK k \in 1..(m - 1) : Promoted(s[k]) /\ t[j] = s[k]
        BY <1>2, <3>2 DEF OnlyRows
      <4> QED
        BY <1>3, <1>6, <3>2, <4>1
    <3> QED
      BY <1>4, <3>1, <3>2
  <2> QED
    BY <1>3, <2>1 DEF OnlyRows
<1>8. AllRows(u, s, 1, m)
  <2>1. ASSUME NEW k \in 1..m, Promoted(s[k]) PROVE \E j \in 1..(e + 1) : u[j] = s[k]
    <3>1. CASE k = m
      BY <1>3, <1>4, <3>1
    <3>2. CASE k \in 1..(m - 1)
      <4>1. PICK j \in 1..e : t[j] = s[k]
        BY <1>2, <2>1, <3>2 DEF AllRows
      <4> QED
        BY <1>3, <1>6, <4>1
    <3> QED
      BY <1>5, <3>1, <3>2
  <2> QED
    BY <1>3, <2>1 DEF AllRows
<1>9. ASSUME Apart(s, 1), Apart(t, 1) PROVE Apart(u, 1)
  <2>1. \A x, y \in 1..e : x # y => t[x].uid # t[y].uid
    BY <1>2, <1>9 DEF Apart
  <2>2. ASSUME NEW x \in 1..e PROVE t[x].uid # s[m].uid
    <3>1. PICK k \in 1..(m - 1) : t[x] = s[k]
      BY <1>2 DEF OnlyRows
    <3>2. k \in 1..Len(s) /\ k # m
      BY <1>0
    <3> QED
      BY <1>9, <3>1, <3>2 DEF Apart
  <2>3. \A x, y \in 1..(e + 1) : x # y => u[x].uid # u[y].uid
    BY <1>3, <1>4, <2>1, <2>2
  <2> QED
    BY <1>3, <2>3 DEF Apart
<1> QED
  BY <1>1, <1>7, <1>8, <1>9

(* Rows keeps exactly the promoted rows, each at most as often as it was    *)
(* there.                                                                   *)
LEMMA RowsShape ==
  ASSUME NEW S, NEW s \in Seq(S)
  PROVE  /\ Rows(s) \in Seq(S)
         /\ OnlyRows(Rows(s), s, 1, Len(s)) /\ AllRows(Rows(s), s, 1, Len(s))
         /\ Apart(s, 1) => Apart(Rows(s), 1)
<1>1. PICK n \in Nat : n = Len(s) /\ \A i \in 1..n : s[i] \in S
  OBVIOUS
<1>2. PICK f : /\ f[0] = <<>> /\ Rows(s) = f[n]
               /\ \A i \in 1..n : f[i] = Promote(f[i - 1], s[i])
  BY <1>1, RowsRun
<1> DEFINE Kept(i) ==
             /\ f[i] \in Seq(S) /\ OnlyRows(f[i], s, 1, i) /\ AllRows(f[i], s, 1, i)
             /\ Apart(s, 1) => Apart(f[i], 1)
           C == {i \in 0..n : Kept(i)}
<1>3. 0 \in C
  <2>1. f[0] \in Seq(S) /\ Len(f[0]) = 0
    BY <1>2
  <2>2. Kept(0)
    BY <2>1 DEF OnlyRows, AllRows, Apart
  <2> QED
    BY <2>2, <1>1
<1>4. ASSUME NEW i \in 0..(n - 1), i \in C PROVE i + 1 \in C
  <2>1. Kept(i)
    BY <1>4
  <2>2. PICK m \in 1..n : m = i + 1 /\ m - 1 = i
    BY <1>1
  <2>3. f[m] = Promote(f[i], s[m])
    BY <1>2, <2>2
  <2>4. CASE ~Promoted(s[m])
    <3>1. f[m] = f[i]
      BY <2>3, <2>4 DEF Promote
    <3>2. \A k \in 1..m : k \in 1..i \/ k = m
      BY <2>2
    <3>3. \A k \in 1..i : k \in 1..m
      BY <2>2
    <3>4. OnlyRows(f[i], s, 1, m)
      BY <2>1, <3>3 DEF OnlyRows
    <3>5. AllRows(f[i], s, 1, m)
      BY <2>1, <2>4, <3>2 DEF AllRows
    <3>6. Kept(m)
      BY <2>1, <3>1, <3>4, <3>5
    <3> QED
      BY <2>2, <3>6, <1>1
  <2>5. CASE Promoted(s[m])
    <3>1. f[m] = Append(f[i], s[m])
      BY <2>3, <2>5 DEF Promote
    <3>2. f[i] \in Seq(S) /\ OnlyRows(f[i], s, 1, m - 1) /\ AllRows(f[i], s, 1, m - 1) /\ m \in 1..Len(s)
      BY <1>1, <2>1, <2>2
    <3>3. Kept(m)
      BY <2>1, <2>5, <3>1, <3>2, AppendedRows
    <3> QED
      BY <2>2, <3>3, <1>1
  <2> QED
    BY <2>4, <2>5
<1>5. n \in C
  <2>1. C \in SUBSET (0..n)
    OBVIOUS
  <2> HIDE DEF C
  <2>2. \A i \in 0..n : i \in C
    BY <1>1, <1>3, <1>4, <2>1, UpTo
  <2> QED
    BY <1>1, <2>2
<1>6. Kept(n)
  BY <1>5
<1> QED
  BY <1>1, <1>2, <1>6

LEMMA RestShape ==
  ASSUME NEW S, NEW s \in Seq(S), NEW n \in Nat
  PROVE  /\ Rest(s, n) \in Seq(S) /\ Len(Rest(s, n)) \in Nat
         /\ \A k \in 1..Len(Rest(s, n)) : n + k \in (n + 1)..Len(s) /\ Rest(s, n)[k] = s[n + k]
         /\ \A k \in (n + 1)..Len(s) : k - n \in 1..Len(Rest(s, n)) /\ Rest(s, n)[k - n] = s[k]
<1>1. Len(s) \in Nat /\ \A k \in 1..Len(s) : s[k] \in S
  OBVIOUS
<1>2. \A k \in (n + 1)..Len(s) : s[k] \in S
  BY <1>1
<1>3. PICK t : t = Rest(s, n)
  OBVIOUS
<1>4. /\ t \in Seq(S)
      /\ Len(t) = IF n + 1 <= Len(s) THEN Len(s) - (n + 1) + 1 ELSE 0
      /\ \A k \in 1..(Len(s) - (n + 1) + 1) : t[k] = s[(n + 1) + k - 1]
  BY <1>1, <1>2, <1>3, SubSeqProperties DEF Rest
<1>5. \A k \in 1..(Len(s) - n) : t[k] = s[n + k]
  BY <1>1, <1>4
<1>6. \A k \in 1..Len(t) : n + k \in (n + 1)..Len(s) /\ t[k] = s[n + k]
  BY <1>1, <1>4, <1>5
<1>7. ASSUME NEW k \in (n + 1)..Len(s) PROVE k - n \in 1..Len(t) /\ t[k - n] = s[k]
  <2>1. k - n \in 1..(Len(s) - n) /\ n + (k - n) = k /\ Len(t) = Len(s) - n
    BY <1>1, <1>4
  <2> QED
    BY <1>5, <2>1
<1> QED
  BY <1>3, <1>4, <1>6, <1>7

(* The promoted rows after the first n.                                     *)
LEMMA RestRows ==
  ASSUME NEW S, NEW s \in Seq(S), NEW n \in Nat
  PROVE  /\ Rows(Rest(s, n)) \in Seq(S)
         /\ OnlyRows(Rows(Rest(s, n)), s, n + 1, Len(s)) /\ AllRows(Rows(Rest(s, n)), s, n + 1, Len(s))
         /\ Apart(s, n + 1) => Apart(Rows(Rest(s, n)), 1)
<1>1. PICK t : t = Rest(s, n)
  OBVIOUS
<1>2. /\ t \in Seq(S) /\ Len(t) \in Nat
      /\ \A k \in 1..Len(t) : n + k \in (n + 1)..Len(s) /\ t[k] = s[n + k]
      /\ \A k \in (n + 1)..Len(s) : k - n \in 1..Len(t) /\ t[k - n] = s[k]
  BY <1>1, RestShape
<1>3. PICK l : l = Rows(t)
  OBVIOUS
<1>4. /\ l \in Seq(S) /\ OnlyRows(l, t, 1, Len(t)) /\ AllRows(l, t, 1, Len(t))
      /\ Apart(t, 1) => Apart(l, 1)
  BY <1>2, <1>3, RowsShape
<1>5. OnlyRows(l, s, n + 1, Len(s))
  <2>1. ASSUME NEW j \in 1..Len(l) PROVE \E k \in (n + 1)..Len(s) : Promoted(s[k]) /\ l[j] = s[k]
    <3>1. PICK k \in 1..Len(t) : Promoted(t[k]) /\ l[j] = t[k]
      BY <1>4 DEF OnlyRows
    <3>2. PICK q \in (n + 1)..Len(s) : t[k] = s[q]
      BY <1>2
    <3> QED
      BY <3>1, <3>2
  <2> QED
    BY <2>1 DEF OnlyRows
<1>6. AllRows(l, s, n + 1, Len(s))
  <2>1. ASSUME NEW k \in (n + 1)..Len(s), Promoted(s[k]) PROVE \E j \in 1..Len(l) : l[j] = s[k]
    <3>1. PICK q \in 1..Len(t) : t[q] = s[k]
      BY <1>2
    <3>2. Promoted(t[q])
      BY <2>1, <3>1
    <3> QED
      BY <1>4, <3>1, <3>2 DEF AllRows
  <2> QED
    BY <2>1 DEF AllRows
<1>7. ASSUME Apart(s, n + 1) PROVE Apart(l, 1)
  <2>1. ASSUME NEW i \in 1..Len(t), NEW j \in 1..Len(t), i # j PROVE t[i].uid # t[j].uid
    <3>1. PICK x \in (n + 1)..Len(s) : x = n + i /\ t[i] = s[x]
      BY <1>2
    <3>2. PICK y \in (n + 1)..Len(s) : y = n + j /\ t[j] = s[y]
      BY <1>2
    <3>3. x # y
      BY <2>1, <1>2, <3>1, <3>2
    <3> QED
      BY <1>7, <3>1, <3>2, <3>3 DEF Apart
  <2>2. Apart(t, 1)
    BY <2>1 DEF Apart
  <2> QED
    BY <1>4, <2>2
<1> QED
  BY <1>1, <1>3, <1>4, <1>5, <1>6, <1>7

LEMMA InsertRowShape ==
  ASSUME NEW S, NEW table \in Seq(S), NEW t \in Seq(S), NEW ms \in Seq(S), NEW m \in 1..Len(ms),
         Within(table, t), ~closed => IdsWithin(ms, m - 1, t)
  PROVE  /\ InsertRow(t, ms[m]) \in Seq(S) /\ Within(table, InsertRow(t, ms[m]))
         /\ ~closed => IdsWithin(ms, m, InsertRow(t, ms[m]))
<1>0. ms[m] \in S /\ Len(ms) \in Nat /\ DOMAIN t = 1..Len(t)
  OBVIOUS
<1>1. \A k \in 1..m : k \in 1..(m - 1) \/ k = m
  BY <1>0
<1>2. CASE closed \/ (\E k \in DOMAIN t : t[k].id = ms[m].id)
  <2>1. InsertRow(t, ms[m]) = t
    BY <1>2 DEF InsertRow
  <2>2. ~closed => IdsWithin(ms, m, t)
    BY <1>0, <1>1, <1>2 DEF IdsWithin
  <2> QED
    BY <2>1, <2>2
<1>3. CASE ~(closed \/ (\E k \in DOMAIN t : t[k].id = ms[m].id))
  <2>0. InsertRow(t, ms[m]) = Append(t, ms[m])
    BY <1>3 DEF InsertRow
  <2>1. PICK u \in Seq(S) : u = InsertRow(t, ms[m]) /\ u = Append(t, ms[m])
    BY <1>0, <2>0, AppendShape
  <2>2. PICK e \in Nat : e = Len(t)
    OBVIOUS
  <2>3. Len(u) = e + 1 /\ u[e + 1] = ms[m] /\ \A j \in 1..e : u[j] = t[j]
    BY <1>0, <2>1, <2>2, AppendShape
  <2>4. e + 1 \in 1..(e + 1) /\ \A j \in 1..e : j \in 1..(e + 1)
    BY <2>2
  <2>5. Within(table, u)
    <3>1. ASSUME NEW k \in 1..Len(table) PROVE \E j \in 1..(e + 1) : u[j] = table[k]
      <4>1. PICK j \in 1..e : t[j] = table[k]
        BY <2>2 DEF Within
      <4> QED
        BY <2>3, <2>4, <4>1
    <3> QED
      BY <2>3, <3>1 DEF Within
  <2>6. IdsWithin(ms, m, u)
    <3>1. ASSUME NEW k \in 1..m PROVE \E j \in 1..(e + 1) : u[j].id = ms[k].id
      <4>1. CASE k = m
        BY <2>3, <2>4, <4>1
      <4>2. CASE k \in 1..(m - 1)
        <5>1. PICK j \in 1..e : t[j].id = ms[k].id
          BY <1>3, <2>2, <4>2 DEF IdsWithin
        <5> QED
          BY <2>3, <2>4, <5>1
      <4> QED
        BY <1>1, <4>1, <4>2
    <3> QED
      BY <2>3, <3>1 DEF IdsWithin
  <2> QED
    BY <2>1, <2>5, <2>6
<1> QED
  BY <1>2, <1>3

(* Inserts keep what is there, and lose no message of an active session.    *)
LEMMA InsertedShape ==
  ASSUME NEW S, NEW table \in Seq(S), NEW ms \in Seq(S)
  PROVE  /\ Inserted(table, ms) \in Seq(S) /\ Within(table, Inserted(table, ms))
         /\ ~closed => IdsWithin(ms, Len(ms), Inserted(table, ms))
<1>1. PICK n \in Nat : n = Len(ms) /\ \A i \in 1..n : ms[i] \in S
  OBVIOUS
<1>2. PICK f : /\ f[0] = table /\ Inserted(table, ms) = f[n]
               /\ \A i \in 1..n : f[i] = InsertRow(f[i - 1], ms[i])
  BY <1>1, InsertedRun
<1> DEFINE Kept(i) == f[i] \in Seq(S) /\ Within(table, f[i]) /\ (~closed => IdsWithin(ms, i, f[i]))
           C == {i \in 0..n : Kept(i)}
<1>3. 0 \in C
  <2>1. Kept(0)
    BY <1>2 DEF Within, IdsWithin
  <2> QED
    BY <2>1, <1>1
<1>4. ASSUME NEW i \in 0..(n - 1), i \in C PROVE i + 1 \in C
  <2>1. Kept(i)
    BY <1>4
  <2>2. PICK m \in 1..n : m = i + 1 /\ m - 1 = i
    BY <1>1
  <2>3. f[m] = InsertRow(f[i], ms[m])
    BY <1>2, <2>2
  <2>4. f[i] \in Seq(S) /\ Within(table, f[i]) /\ (~closed => IdsWithin(ms, m - 1, f[i])) /\ m \in 1..Len(ms)
    BY <1>1, <2>1, <2>2
  <2>5. Kept(m)
    BY <2>3, <2>4, InsertRowShape
  <2> QED
    BY <2>2, <2>5, <1>1
<1>5. n \in C
  <2>1. C \in SUBSET (0..n)
    OBVIOUS
  <2> HIDE DEF C
  <2>2. \A i \in 0..n : i \in C
    BY <1>1, <1>3, <1>4, <2>1, UpTo
  <2> QED
    BY <1>1, <2>2
<1>6. Kept(n)
  BY <1>5
<1> QED
  BY <1>1, <1>2, <1>6

(* Sorting loses no row.                                                    *)
LEMMA ByTimestampShape ==
  ASSUME NEW S, NEW ms \in Seq(S)
  PROVE  ByTimestamp(ms) \in Seq(S) /\ Within(ms, ByTimestamp(ms))
<1>1. PICK n \in Nat : n = Len(ms) /\ \A i \in 1..n : ms[i] \in S
  OBVIOUS
<1>2. PICK f : /\ f[0] = <<>> /\ ByTimestamp(ms) = f[n]
               /\ \A i \in 1..n : f[i] = Placed(f[i - 1], ms[i])
  BY <1>1, ByTimestampRun
<1> DEFINE Kept(i) == f[i] \in Seq(S) /\ \A k \in 1..i : \E j \in 1..Len(f[i]) : f[i][j] = ms[k]
           C == {i \in 0..n : Kept(i)}
<1>3. 0 \in C
  <2>1. f[0] \in Seq(S)
    BY <1>2
  <2>2. Kept(0)
    BY <2>1
  <2> QED
    BY <2>2, <1>1
<1>4. ASSUME NEW i \in 0..(n - 1), i \in C PROVE i + 1 \in C
  <2>1. Kept(i)
    BY <1>4
  <2>2. PICK m \in 1..n : m = i + 1 /\ m - 1 = i
    BY <1>1
  <2>3. PICK t \in Seq(S) : t = f[i]
    BY <2>1
  <2>4. ms[m] \in S
    BY <1>1
  <2>5. PICK u : u = Placed(t, ms[m])
    OBVIOUS
  <2>9. /\ u \in Seq(S) /\ (\E j \in 1..Len(u) : u[j] = ms[m])
        /\ \A k \in 1..Len(t) : \E j \in 1..Len(u) : u[j] = t[k]
    <3>1. PICK w \in S : w = ms[m]
      BY <2>4
    <3>2. Placed(t, w) \in Seq(S) /\ Has(Placed(t, w), w) /\ Within(t, Placed(t, w))
      BY PlacedShape
    <3> QED
      BY <2>5, <3>1, <3>2 DEF Has, Within
  <2>6. f[m] = u
    BY <1>2, <2>2, <2>3, <2>5
  <2>7. ASSUME NEW k \in 1..m PROVE \E j \in 1..Len(u) : u[j] = ms[k]
    <3>1. CASE k = m
      BY <2>9, <3>1
    <3>2. CASE k \in 1..i
      <4>1. PICK q \in 1..Len(t) : t[q] = ms[k]
        BY <2>1, <2>3, <3>2
      <4> QED
        BY <2>9, <4>1
    <3> QED
      BY <2>2, <3>1, <3>2
  <2>8. Kept(m)
    BY <2>6, <2>7, <2>9
  <2> QED
    BY <2>2, <2>8, <1>1
<1>5. n \in C
  <2>1. C \in SUBSET (0..n)
    OBVIOUS
  <2> HIDE DEF C
  <2>2. \A i \in 0..n : i \in C
    BY <1>1, <1>3, <1>4, <2>1, UpTo
  <2> QED
    BY <1>1, <2>2
<1>6. Kept(n)
  BY <1>5
<1> QED
  BY <1>1, <1>2, <1>6 DEF Within

-----------------------------------------------------------------------------
(* The control, for any number of clients. *)

(* A request works on an object that was made; one that sends has an object. *)
Settled ==
  \A p \in Proc : /\ got[p] <= nobj
                  /\ Sending(p) \/ pc[p] = "check" => got[p] # 0

(* What holds of the control for any number of clients. *)
Base == Control /\ Updates /\ Settled

LEMMA QuietBase == ASSUME Base, NEW p \in Proc, QuietRequest(p) PROVE Base'
<1>0. Control /\ Updates /\ Settled /\ pc \in [Proc -> PC] /\ ret \in [Proc -> {"free", "build", "title", "update"}]
  BY DEF Base, Control
<1>1. /\ UNCHANGED <<held, op>> /\ pc[p] \notin {"free", "cancel"}
      /\ UNCHANGED ret \/ \E l \in {"build", "title", "update"} : ret' = [ret EXCEPT ![p] = l]
      /\ Sending(p)' => Sending(p) \/ (pc[p] = "check" /\ ~busy[got[p]])
      /\ Updating(p)' => op'[p] # "send"
  BY <1>0, QuietMoves
<1>2. PICK l \in PC : pc' = [pc EXCEPT ![p] = l] /\ l \notin {"arm", "launch", "insert", "check"}
  BY <1>0, QuietMoves
<1>3. Control'
  BY <1>0, <1>1, <1>2, ControlKept
<1>4. \A q \in Proc \ {p} : pc'[q] = pc[q] /\ ret'[q] = ret[q] /\ op'[q] = op[q]
  BY <1>0, <1>1, <1>2
<1>5. Updates'
  BY <1>0, <1>1, <1>4 DEF Updates, Updating
<1>6. Settled'
  <2>1. pc'[p] # "check" /\ UNCHANGED <<got, nobj>>
    BY <1>0, <1>1, <1>2 DEF held
  <2> QED
    BY <1>0, <1>1, <1>4, <2>1 DEF Settled, Sending
<1> QED
  BY <1>3, <1>5, <1>6 DEF Base

LEMMA GetFailsBase == ASSUME Base, NEW p \in Proc, GetFails(p) PROVE Base'
<1>0. Control /\ Updates /\ Settled /\ pc \in [Proc -> PC] /\ ret \in [Proc -> {"free", "build", "title", "update"}]
  BY DEF Base, Control
<1>1. UNCHANGED <<held, op, ret>> /\ pc[p] = "dbget"
  BY DEF GetFails, held, objVars, runVars, counts
<1>2. /\ pc' \in [Proc -> PC] /\ pc'[p] \in {"reset", "free"} /\ (pc'[p] = "reset" => ret[p] = "title")
      /\ \A q \in Proc \ {p} : pc'[q] = pc[q] \/ pc'[q] = "free"
  BY <1>0 DEF GetFails, PC
<1>3. Control'
  BY <1>0, <1>1, <1>2, ControlKept
<1>4. Sending(p)' => Sending(p)
  BY <1>1, <1>2 DEF Sending
<1>5. ~Updating(p)'
  BY <1>2 DEF Updating
<1>6. Updates'
  BY <1>0, <1>1, <1>2, <1>5 DEF Updates, Updating
<1>7. Settled'
  <2>1. UNCHANGED <<got, nobj>>
    BY <1>1 DEF held
  <2> QED
    BY <1>0, <1>1, <1>2, <1>4, <2>1 DEF Settled, Sending
<1> QED
  BY <1>3, <1>6, <1>7 DEF Base

LEMMA StartBase == ASSUME Base, NEW p \in Proc, Start(p) PROVE Base'
<1>0. Control /\ Updates /\ Settled /\ pc \in [Proc -> PC] /\ ret \in [Proc -> {"free", "build", "title", "update"}]
  BY DEF Base, Control
<1>1. UNCHANGED <<held, ret>> /\ pc' = [pc EXCEPT ![p] = "lookup"]
      /\ \A q \in Proc \ {p} : op'[q] = op[q]
  BY DEF Start, GoTo, held, objVars, runVars
<1>2. pc'[p] = "lookup" /\ \A q \in Proc \ {p} : pc'[q] = pc[q]
  BY <1>0, <1>1
<1>3. Control'
  BY <1>0, <1>1, ControlKept DEF PC
<1>4. ~Sending(p)' /\ ~Updating(p)'
  BY <1>2 DEF Sending, Updating
<1>5. Updates'
  BY <1>0, <1>1, <1>2, <1>4 DEF Updates, Updating
<1>6. Settled'
  <2>1. UNCHANGED <<got, nobj>>
    BY <1>1 DEF held
  <2> QED
    BY <1>0, <1>1, <1>2, <1>4, <2>1 DEF Settled, Sending
<1> QED
  BY <1>3, <1>5, <1>6 DEF Base

LEMMA BuildBase == ASSUME Base, NEW p \in Proc, Build(p) PROVE Base'
<1>0. Control /\ Updates /\ Settled
  BY DEF Base
<1>1. /\ pc[p] = "build" /\ nobj < MaxObj /\ nobj' = nobj + 1 /\ nobj \in 0..MaxObj
      /\ UNCHANGED <<load, live, busy, cancel, mine, phase, runObj, ctxDone, nrun, op, ret>>
      /\ got' = [q \in Proc |-> IF q = p \/ pc[q] = "join" THEN nobj' ELSE got[q]]
      /\ pc' = [q \in Proc |-> IF q = p \/ pc[q] = "join" THEN "insert" ELSE pc[q]]
  BY <1>0 DEF Build, runVars, counts, Control
<1>2. nobj' \in 0..MaxObj /\ nobj' \in Obj /\ live <= nobj'
  BY <1>0, <1>1, SessionAssumption DEF Control, Obj
<1>3. Control'
  <2>1. pc' \in [Proc -> PC] /\ got' \in [Proc -> 0..MaxObj]
    BY <1>0, <1>1, <1>2 DEF Control, PC
  <2> QED
    BY <1>0, <1>1, <1>2, <2>1 DEF Control
<1>4. Updates'
  BY <1>0, <1>1 DEF Updates, Updating
<1>5. Settled'
  <2> SUFFICES ASSUME NEW q \in Proc
               PROVE  got'[q] <= nobj' /\ ((Sending(q) \/ pc[q] = "check")' => got'[q] # 0)
    BY DEF Settled
  <2>1. CASE q = p \/ pc[q] = "join"
    <3>1. got'[q] = nobj' /\ pc'[q] = "insert"
      BY <1>1, <2>1
    <3> QED
      BY <1>1, <3>1 DEF Sending
  <2>2. CASE ~(q = p \/ pc[q] = "join")
    <3>1. got'[q] = got[q] /\ pc'[q] = pc[q] /\ ret'[q] = ret[q] /\ op'[q] = op[q]
      BY <1>1, <2>2
    <3>2. got[q] <= nobj /\ got[q] \in 0..MaxObj /\ (Sending(q)' \/ pc'[q] = "check" => got[q] # 0)
      BY <1>0, <3>1 DEF Settled, Sending, Control
    <3> QED
      BY <1>1, <3>1, <3>2
  <2> QED
    BY <2>1, <2>2
<1> QED
  BY <1>3, <1>4, <1>5 DEF Base

LEMMA InsertBase == ASSUME Base, NEW p \in Proc, Insert(p) PROVE Base'
<1>0. Control /\ Updates /\ Settled
  BY DEF Base
<1>1. /\ pc[p] = "insert" /\ pc' = [pc EXCEPT ![p] = AfterGet(op[p])]
      /\ UNCHANGED <<load, nobj, nrun, got, mine, phase, runObj, ctxDone, op, ret>>
      /\ \/ live # 0 /\ UNCHANGED <<live, busy, cancel>>
         \/ /\ live = 0 /\ live' = got[p] /\ busy' = [busy EXCEPT ![got[p]] = FALSE]
            /\ cancel' = [cancel EXCEPT ![got[p]] = 0]
  BY DEF Insert, GoTo, runVars, counts
<1>2. AfterGet(op[p]) \in {"find", "unmap", "free", "exists"} /\ (AfterGet(op[p]) = "exists" => op[p] # "send")
  BY DEF AfterGet
<1>3. pc'[p] = AfterGet(op[p]) /\ \A q \in Proc \ {p} : pc'[q] = pc[q]
  BY <1>0, <1>1 DEF Control
<1>4. Control'
  <2>1. pc' \in [Proc -> PC]
    BY <1>0, <1>1, <1>2 DEF Control, PC
  <2>2. got[p] <= nobj /\ got[p] \in 0..MaxObj
    BY <1>0 DEF Settled, Control
  <2>3. busy' \in [Obj -> BOOLEAN]
    BY <1>0, <1>1 DEF Control
  <2>4. cancel' \in [Obj -> 0..MaxRun]
    BY <1>0, <1>1, SessionAssumption DEF Control
  <2>5. live' \in 0..MaxObj /\ live' <= nobj
    BY <1>0, <1>1, <2>2 DEF Control
  <2> QED
    BY <1>0, <1>1, <2>1, <2>3, <2>4, <2>5 DEF Control
<1>5. Updates'
  BY <1>0, <1>1, <1>2, <1>3 DEF Updates, Updating
<1>6. Settled'
  BY <1>0, <1>1, <1>2, <1>3 DEF Settled, Sending
<1> QED
  BY <1>4, <1>5, <1>6 DEF Base

LEMMA FindBase == ASSUME Base, NEW p \in Proc, Find(p) \/ Unmap(p) PROVE Base'
<1>0. Control /\ Updates /\ Settled
  BY DEF Base
<1>1. /\ got' = [got EXCEPT ![p] = live] /\ (live' = live \/ live' = 0)
      /\ UNCHANGED <<load, nobj, busy, cancel, mine, phase, runObj, ctxDone, nrun, op, ret>>
  BY DEF Find, Unmap, objVars, runVars, counts
<1>2. \E l \in {"free", "check", "cancel"} : pc' = [pc EXCEPT ![p] = l] /\ (l = "check" => live # 0)
  BY DEF Find, Unmap, GoTo
<1>3. /\ pc'[p] \in {"free", "check", "cancel"} /\ (pc'[p] = "check" => live # 0) /\ got'[p] = live
      /\ \A q \in Proc \ {p} : pc'[q] = pc[q] /\ got'[q] = got[q]
  BY <1>0, <1>1, <1>2 DEF Control
<1>4. ~Sending(p)' /\ ~Updating(p)'
  BY <1>3 DEF Sending, Updating
<1>5. Control'
  <2>1. pc' \in [Proc -> PC] /\ got' \in [Proc -> 0..MaxObj]
    BY <1>0, <1>1, <1>2 DEF Control, PC
  <2>2. live' \in 0..MaxObj /\ live' <= nobj
    BY <1>0, <1>1, SessionAssumption DEF Control
  <2> QED
    BY <1>0, <1>1, <2>1, <2>2 DEF Control
<1>6. Updates'
  BY <1>0, <1>1, <1>3, <1>4 DEF Updates, Updating
<1>7. Settled'
  BY <1>0, <1>1, <1>3, <1>4 DEF Settled, Sending, Control
<1> QED
  BY <1>5, <1>6, <1>7 DEF Base

LEMMA ResetRootBase == ASSUME Base, NEW p \in Proc, ResetRoot(p) PROVE Base' /\ nrun + 1 \in Run /\ got[p] \in Obj
<1>0. Control /\ Updates /\ Settled
  BY DEF Base
<1>1. /\ pc[p] = "reset" /\ nrun < load.maxRun /\ nrun' = nrun + 1
      /\ UNCHANGED <<load, live, nobj, busy, cancel, got, ctxDone, op, ret>>
  BY DEF ResetRoot
<1>2. PICK n : n = nrun + 1
  OBVIOUS
<1>3. /\ pc' = [pc EXCEPT ![p] = "arm"] /\ mine' = [mine EXCEPT ![p] = n]
      /\ runObj' = [runObj EXCEPT ![n] = got[p]] /\ phase' = [phase EXCEPT ![n] = "armed"]
  BY <1>2 DEF ResetRoot, GoTo
<1>4. n \in Run /\ n \in 0..MaxRun
  <2>1. load.maxRun \in 0..MaxRun /\ nrun \in 0..MaxRun
    BY <1>0, SessionAssumption DEF Control, Load
  <2> QED
    BY <1>1, <1>2, <2>1, SessionAssumption DEF Run
<1>5. got[p] \in Obj
  <2>1. got[p] # 0 /\ got[p] \in 0..MaxObj
    BY <1>0, <1>1 DEF Sending, Settled, Control
  <2> QED
    BY <2>1, SessionAssumption DEF Obj
<1>6. pc'[p] = "arm" /\ \A q \in Proc \ {p} : pc'[q] = pc[q]
  BY <1>0, <1>3 DEF Control
<1>7. Control'
  <2>1. pc' \in [Proc -> PC] /\ phase' \in [Run -> Phase]
    BY <1>0, <1>3 DEF Control, PC, Phase
  <2>2. mine' \in [Proc -> 0..MaxRun] /\ runObj' \in [Run -> Obj]
    BY <1>0, <1>3, <1>4, <1>5 DEF Control
  <2> QED
    BY <1>0, <1>1, <1>2, <1>4, <2>1, <2>2 DEF Control
<1>8. Updates'
  BY <1>0, <1>1, <1>6 DEF Updates, Updating
<1>9. Settled'
  BY <1>0, <1>1, <1>5, <1>6 DEF Settled, Sending, Obj
<1> QED
  BY <1>2, <1>4, <1>5, <1>7, <1>8, <1>9 DEF Base

LEMMA LaunchBase == ASSUME Base, NEW p \in Proc, Arm(p) \/ Launch(p) \/ CancelRun(p) PROVE Base'
<1>0. Control /\ Updates /\ Settled
  BY DEF Base
<1>1. /\ UNCHANGED <<load, live, nobj, nrun, got, mine, runObj, op, ret>>
      /\ UNCHANGED cancel \/ cancel' = [cancel EXCEPT ![got[p]] = mine[p]]
      /\ UNCHANGED busy \/ busy' = [busy EXCEPT ![got[p]] = TRUE]
      /\ UNCHANGED phase \/ phase' = [phase EXCEPT ![mine[p]] = "run"]
  BY DEF Arm, Launch, CancelRun, objVars, runVars, counts
<1>2. UNCHANGED ctxDone \/ ctxDone' = [r \in Run |-> ctxDone[r] \/ r = cancel[got[p]]]
  BY DEF Arm, Launch, CancelRun, runVars
<1>3. \/ pc[p] = "arm" /\ pc' = [pc EXCEPT ![p] = "launch"]
      \/ pc' = [pc EXCEPT ![p] = "free"] \/ pc' = [pc EXCEPT ![p] = "close"]
  BY DEF Arm, Launch, CancelRun, GoTo
<1>4. Control'
  <2>1. pc' \in [Proc -> PC] /\ phase' \in [Run -> Phase]
    BY <1>0, <1>1, <1>3 DEF Control, PC, Phase
  <2>2. busy' \in [Obj -> BOOLEAN]
    BY <1>0, <1>1 DEF Control
  <2>3. cancel' \in [Obj -> 0..MaxRun]
    BY <1>0, <1>1 DEF Control
  <2>4. ctxDone' \in [Run -> BOOLEAN]
    BY <1>0, <1>2 DEF Control
  <2> QED
    BY <1>0, <1>1, <2>1, <2>2, <2>3, <2>4 DEF Control
<1>5. /\ pc'[p] \in {"launch", "free", "close"} /\ (pc'[p] = "launch" => pc[p] = "arm")
      /\ \A q \in Proc \ {p} : pc'[q] = pc[q]
  BY <1>0, <1>3 DEF Control
<1>6. Updates'
  BY <1>0, <1>1, <1>5 DEF Updates, Updating
<1>7. Settled'
  BY <1>0, <1>1, <1>5 DEF Settled, Sending
<1> QED
  BY <1>4, <1>6, <1>7 DEF Base

LEMMA RunStepBase == ASSUME Base, NEW r \in Run, RunStep(r) PROVE Base'
<1>0. Control /\ Updates /\ Settled
  BY DEF Base
<1>1. RunMoves(r)
  BY <1>0, RunStepMoves
<1>2. UNCHANGED <<load, live, nobj, cancel, got, mine, runObj, ctxDone, nrun, pc, op, ret>>
  BY <1>1 DEF RunMoves
<1>3. /\ \E l \in Phase : phase' = [phase EXCEPT ![r] = l]
      /\ UNCHANGED busy \/ busy' = [busy EXCEPT ![runObj[r]] = FALSE]
  BY <1>1 DEF RunMoves
<1>4. busy' \in [Obj -> BOOLEAN]
  BY <1>0, <1>3 DEF Control
<1>5. phase' \in [Run -> Phase]
  BY <1>0, <1>3 DEF Control
<1>6. Control'
  BY <1>0, <1>2, <1>4, <1>5 DEF Control
<1>7. Updates' /\ Settled'
  BY <1>0, <1>2 DEF Updates, Updating, Settled, Sending
<1> QED
  BY <1>6, <1>7 DEF Base

LEMMA ServerBase ==
  ASSUME Base, Awaken \/ AwakenSave \/ CacheExpires \/ Restart \/ UNCHANGED vars
  PROVE  Base'
<1>0. Control /\ Updates /\ Settled
  BY DEF Base
<1>1. CASE Awaken \/ AwakenSave \/ CacheExpires \/ UNCHANGED vars
  <2>1. UNCHANGED <<load, live, nobj, busy, cancel, got, mine, phase, runObj, ctxDone, nrun, pc, op, ret>>
    BY <1>1 DEF Awaken, AwakenSave, CacheExpires, vars, objVars, reqVars, runVars, counts
  <2> QED
    BY <1>0, <2>1 DEF Base, Control, Updates, Updating, Settled, Sending
<1>2. CASE Restart
  <2>1. /\ live' = 0 /\ busy' = [o \in Obj |-> FALSE] /\ cancel' = [o \in Obj |-> 0]
        /\ pc' = [p \in Proc |-> "free"]
        /\ phase' = [r \in Run |-> IF phase[r] = "none" THEN "none" ELSE "dead"]
        /\ UNCHANGED <<load, nobj, got, mine, runObj, ctxDone, nrun, op, ret>>
    BY <1>2 DEF Restart
  <2>2. Control'
    <3>1. pc' \in [Proc -> PC] /\ phase' \in [Run -> Phase]
      BY <2>1 DEF PC, Phase
    <3>2. busy' \in [Obj -> BOOLEAN] /\ cancel' \in [Obj -> 0..MaxRun]
      BY <2>1, SessionAssumption
    <3>3. live' \in 0..MaxObj /\ live' <= nobj
      BY <1>0, <2>1, SessionAssumption DEF Control
    <3> QED
      BY <1>0, <2>1, <3>1, <3>2, <3>3 DEF Control
  <2>3. \A p \in Proc : pc'[p] = "free"
    BY <2>1
  <2>4. Updates' /\ Settled'
    BY <1>0, <2>1, <2>3 DEF Updates, Updating, Settled, Sending
  <2> QED
    BY <2>2, <2>4 DEF Base
<1> QED
  BY <1>1, <1>2

LEMMA InitBase == ASSUME Init PROVE Base
<1>1. /\ live = 1 /\ nobj = 1 /\ busy = [o \in Obj |-> FALSE] /\ cancel = [o \in Obj |-> 0]
      /\ pc = [p \in Proc |-> "free"] /\ got = [p \in Proc |-> 0] /\ mine = [p \in Proc |-> 0]
      /\ ret = [p \in Proc |-> "free"] /\ phase = [r \in Run |-> "none"] /\ runObj = [r \in Run |-> 1]
      /\ ctxDone = [r \in Run |-> FALSE] /\ nrun = 0 /\ load \in Loads
  BY DEF Init, CreateSession, ForkSession
<1>2. Control
  <2>1. 1 \in Obj /\ 1 \in 0..MaxObj /\ 0 \in 0..MaxObj /\ 0 \in 0..MaxRun
    BY SessionAssumption DEF Obj
  <2>2. "free" \in PC /\ "none" \in Phase
    BY DEF PC, Phase
  <2>3. busy \in [Obj -> BOOLEAN] /\ ctxDone \in [Run -> BOOLEAN]
    BY <1>1
  <2> QED
    BY <1>1, <2>1, <2>2, <2>3 DEF Control
<1>3. Updates /\ Settled
  BY <1>1 DEF Updates, Updating, Settled, Sending
<1> QED
  BY <1>2, <1>3 DEF Base

(* The requests and the runs, one by one: what Next is a choice of.          *)
LEMMA NextBase == ASSUME Base, [Next]_vars PROVE Base'
<1>1. CASE \E p \in Proc : Start(p) \/ Request(p)
  <2>1. PICK p \in Proc : Start(p) \/ Request(p)
    BY <1>1
  <2>2. \/ Start(p) \/ QuietRequest(p) \/ GetFails(p) \/ Build(p) \/ Insert(p) \/ Find(p) \/ Unmap(p)
        \/ ResetRoot(p) \/ Arm(p) \/ Launch(p) \/ CancelRun(p)
    BY <2>1 DEF Request, QuietRequest
  <2> QED
    BY <2>2, StartBase, QuietBase, GetFailsBase, BuildBase, InsertBase, FindBase, ResetRootBase, LaunchBase
<1>2. CASE \E r \in Run : RunStep(r)
  BY <1>2, RunStepBase
<1>3. CASE Awaken \/ AwakenSave \/ CacheExpires \/ Restart \/ UNCHANGED vars
  BY <1>3, ServerBase
<1> QED
  BY <1>1, <1>2, <1>3 DEF Next

-----------------------------------------------------------------------------
(* The messages. *)

(* Messages as the code makes them, up to the n-th: the ID is empty or the  *)
(* message's own.                                                           *)
Known(n) == {m \in Msg : m.id \in {0, m.uid} /\ m.uid <= n}

TextsAt(K) ==
  /\ msgs \in [Obj -> Seq(K)] /\ history \in [Obj -> Seq(K)]
  /\ rows \in Seq(K) /\ cache \in Seq(K) /\ rec \in [Proc -> Seq(K)]
  /\ snap \in [Run -> Seq(K)] /\ fresh \in [Run -> Seq(K)]
  /\ awake \in [at : {"run", "save", "done"}, new : Seq(K)]

(* Every message anywhere was made.                                         *)
Texts == nmsg \in Nat /\ TextsAt(Known(nmsg))

texts == <<msgs, history, rows, cache, rec, snap, fresh, awake>>

LEMMA SeqGrows ==
  ASSUME NEW K, NEW L, K \subseteq L, NEW s \in Seq(K)
  PROVE  s \in Seq(L)
OBVIOUS

LEMMA KnownGrows ==
  ASSUME NEW n \in Nat, NEW k \in Nat, n <= k
  PROVE  Known(n) \subseteq Known(k)
BY DEF Known, Msg

LEMMA NamedKnown ==
  ASSUME NEW n \in Nat, NEW m \in Known(n)
  PROVE  /\ Named(m) \in Known(n) /\ Named(m).uid = m.uid /\ Named(m).id = m.uid
         /\ Promoted(Named(m)) <=> Promoted(m)
<1>1. /\ m.uid \in Nat /\ m.id \in Nat /\ m.uid <= n /\ m.id \in {0, m.uid} /\ m \in Msg
  BY DEF Known, Msg
<1>2. CASE m.id = 0
  <2>1. Named(m) = [m EXCEPT !.id = m.uid]
    BY <1>2 DEF Named
  <2>2. Named(m) \in Msg /\ Named(m).uid = m.uid /\ Named(m).id = m.uid
    BY <1>1, <2>1 DEF Msg
  <2>3. Named(m).role = m.role /\ Named(m).parent = m.parent
    BY <1>1, <2>1 DEF Msg
  <2> QED
    BY <1>1, <2>2, <2>3 DEF Known, Promoted
<1>3. CASE m.id # 0
  <2>1. Named(m) = m
    BY <1>3 DEF Named
  <2> QED
    BY <1>1, <1>3, <2>1
<1> QED
  BY <1>2, <1>3

LEMMA TextsGrow ==
  ASSUME NEW n \in Nat, NEW k \in Nat, n <= k, TextsAt(Known(n))
  PROVE  TextsAt(Known(k))
<1>1. PICK K : K = Known(n)
  OBVIOUS
<1>2. PICK L : L = Known(k)
  OBVIOUS
<1>3. \A s \in Seq(K) : s \in Seq(L)
  BY <1>1, <1>2, KnownGrows, SeqGrows
<1>4. TextsAt(K)
  BY <1>1
<1>5. TextsAt(L)
  <2>1. msgs \in [Obj -> Seq(L)] /\ history \in [Obj -> Seq(L)]
    BY <1>3, <1>4 DEF TextsAt
  <2>2. rows \in Seq(L) /\ cache \in Seq(L) /\ rec \in [Proc -> Seq(L)]
    BY <1>3, <1>4 DEF TextsAt
  <2>3. snap \in [Run -> Seq(L)] /\ fresh \in [Run -> Seq(L)]
    BY <1>3, <1>4 DEF TextsAt
  <2>4. awake \in [at : {"run", "save", "done"}, new : Seq(L)]
    BY <1>3, <1>4 DEF TextsAt
  <2> QED
    BY <2>1, <2>2, <2>3, <2>4 DEF TextsAt
<1> QED
  BY <1>2, <1>5

LEMMA AppendMessagesShape ==
  ASSUME NEW K, rows \in Seq(K), NEW ms \in Seq(K), NEW w, AppendMessages(w, ms)
  PROVE  /\ rows' \in Seq(K) /\ Within(rows, rows')
         /\ w \notin load.faulty => rows' = Inserted(rows, ms)
<1>1. CASE rows' = Inserted(rows, ms)
  BY <1>1, InsertedShape
<1>2. CASE w \in load.faulty /\ UNCHANGED rows
  BY <1>2 DEF Within
<1> QED
  BY <1>1, <1>2 DEF AppendMessages

(* Steps that leave every text alone.                                       *)
TextlessRequest(p) ==
  \/ Start(p) \/ GetFails(p) \/ Lookup(p) \/ Insert(p) \/ Find(p) \/ Check(p) \/ AutoTitle(p) \/ Arm(p)
  \/ Launch(p) \/ Unmap(p) \/ CancelRun(p) \/ CloseDb(p) \/ UpdateExists(p) \/ Update(p) \/ SoftDelete(p)

LEMMA Textless ==
  ASSUME \/ \E p \in Proc : TextlessRequest(p)
         \/ \E r \in Run : RunReturns(r) \/ SetIdle(r)
         \/ UNCHANGED vars
  PROVE  UNCHANGED <<texts, nmsg>>
BY DEF TextlessRequest, Start, GetFails, Lookup, Insert, Find, Check, AutoTitle, Arm, Launch, Unmap, CancelRun,
   CloseDb, UpdateExists, Update, SoftDelete, RunReturns, SetIdle, vars, texts, objVars, dbVars, reqVars,
   runVars, counts

LEMMA TextsSame ==
  ASSUME Texts, UNCHANGED <<texts, nmsg>>
  PROVE  Texts' /\ Within(rows, rows') /\ nmsg <= nmsg'
<1>1. UNCHANGED <<msgs, history, rows, cache, rec, snap, fresh, awake, nmsg>>
  BY DEF texts
<1>2. Texts'
  BY <1>1 DEF Texts, TextsAt
<1>3. nmsg <= nmsg'
  BY <1>1 DEF Texts
<1> QED
  BY <1>1, <1>2, <1>3 DEF Within

LEMMA RowsKept == ASSUME UNCHANGED rows PROVE Within(rows, rows')
BY DEF Within
-----------------------------------------------------------------------------
(* The steps of requests that move messages.                                *)
LEMMA CacheGetTexts ==
  ASSUME Texts, NEW p \in Proc, CacheGet(p) \/ Fill(p) \/ Evict(p)
  PROVE  Texts' /\ Within(rows, rows') /\ nmsg <= nmsg'
<1>1. PICK K : K = Known(nmsg)
  OBVIOUS
<1>2. TextsAt(K) /\ nmsg \in Nat
  BY <1>1 DEF Texts
<1>3. UNCHANGED <<msgs, history, rows, snap, fresh, awake, nmsg>>
  BY DEF CacheGet, Fill, Evict, objVars, dbVars, runVars, counts
<1>4. /\ UNCHANGED rec \/ rec' = [rec EXCEPT ![p] = cache]
      /\ UNCHANGED cache \/ cache' = rec[p] \/ cache' = <<>>
  BY DEF CacheGet, Fill, Evict, dbVars
<1>5. <<>> \in Seq(K)
  OBVIOUS
<1>6. rec' \in [Proc -> Seq(K)] /\ cache' \in Seq(K)
  BY <1>2, <1>4, <1>5 DEF TextsAt
<1>7. TextsAt(K)'
  BY <1>2, <1>3, <1>6 DEF TextsAt
<1> QED
  BY <1>1, <1>2, <1>3, <1>7, RowsKept DEF Texts

LEMMA DbGetTexts ==
  ASSUME Texts, NEW p \in Proc, DbGet(p)
  PROVE  Texts' /\ Within(rows, rows') /\ nmsg <= nmsg'
<1>1. PICK K : K = Known(nmsg)
  OBVIOUS
<1>2. TextsAt(K) /\ nmsg \in Nat
  BY <1>1 DEF Texts
<1>3. UNCHANGED <<msgs, history, rows, cache, snap, fresh, awake, nmsg>>
  BY DEF DbGet, objVars, dbVars, runVars, counts
<1>4. rec' = [rec EXCEPT ![p] = ByTimestamp(rows)]
  BY DEF DbGet
<1>5. ByTimestamp(rows) \in Seq(K)
  BY <1>2, ByTimestampShape DEF TextsAt
<1>6. rec' \in [Proc -> Seq(K)]
  BY <1>2, <1>4, <1>5 DEF TextsAt
<1>7. TextsAt(K)'
  BY <1>2, <1>3, <1>6 DEF TextsAt
<1> QED
  BY <1>1, <1>2, <1>3, <1>7, RowsKept DEF Texts

LEMMA BuildTexts ==
  ASSUME Texts, NEW p \in Proc, Build(p)
  PROVE  Texts' /\ Within(rows, rows') /\ nmsg <= nmsg'
<1>1. PICK K : K = Known(nmsg)
  OBVIOUS
<1>2. TextsAt(K) /\ nmsg \in Nat
  BY <1>1 DEF Texts
<1>3. UNCHANGED <<history, rows, cache, rec, snap, fresh, awake, nmsg>>
  BY DEF Build, dbVars, runVars, counts
<1>4. msgs' = [msgs EXCEPT ![nobj'] = rec[p]]
  BY DEF Build
<1>5. msgs' \in [Obj -> Seq(K)]
  BY <1>2, <1>4 DEF TextsAt
<1>7. TextsAt(K)'
  BY <1>2, <1>3, <1>5 DEF TextsAt
<1> QED
  BY <1>1, <1>2, <1>3, <1>7, RowsKept DEF Texts

LEMMA AppendUserTexts ==
  ASSUME Texts, NEW p \in Proc, AppendUser(p)
  PROVE  Texts' /\ Within(rows, rows') /\ nmsg <= nmsg'
<1>1. PICK n \in Nat : n = nmsg + 1
  BY DEF Texts
<1>2. TextsAt(Known(n)) /\ nmsg <= n
  BY <1>1, TextsGrow DEF Texts
<1>3. UNCHANGED <<history, rows, cache, snap, fresh, awake>> /\ nmsg' = n
  BY <1>1 DEF AppendUser, dbVars, runVars
<1>4. /\ msgs' = [msgs EXCEPT ![got[p]] = Append(@, UserMsg(n))]
      /\ rec' = [rec EXCEPT ![p] = <<UserMsg(n)>>]
  BY <1>3 DEF AppendUser
<1>5. UserMsg(n) \in Known(n)
  BY DEF UserMsg, Known, Msg
<1>6. PICK K : K = Known(n)
  OBVIOUS
<1>7. PICK m \in K : m = UserMsg(n)
  BY <1>5, <1>6
<1>8. msgs' \in [Obj -> Seq(K)] /\ rec' \in [Proc -> Seq(K)]
  <2>1. \A s \in Seq(K) : Append(s, m) \in Seq(K)
    OBVIOUS
  <2>2. <<m>> \in Seq(K)
    OBVIOUS
  <2>3. msgs \in [Obj -> Seq(K)] /\ rec \in [Proc -> Seq(K)]
    BY <1>2, <1>6 DEF TextsAt
  <2> QED
    BY <1>4, <1>7, <2>1, <2>2, <2>3
<1>9. TextsAt(K)'
  BY <1>2, <1>3, <1>6, <1>8 DEF TextsAt
<1> QED
  BY <1>2, <1>3, <1>6, <1>9, RowsKept DEF Texts

LEMMA AppendUserDbTexts ==
  ASSUME Texts, NEW p \in Proc, AppendUserDb(p)
  PROVE  Texts' /\ Within(rows, rows') /\ nmsg <= nmsg'
<1>1. PICK K : K = Known(nmsg)
  OBVIOUS
<1>2. TextsAt(K) /\ nmsg \in Nat
  BY <1>1 DEF Texts
<1>3. UNCHANGED <<msgs, history, cache, rec, snap, fresh, awake, nmsg>>
  BY DEF AppendUserDb, objVars, runVars, counts
<1>4. AppendMessages("user", rec[p])
  BY DEF AppendUserDb
<1>5. rows' \in Seq(K) /\ Within(rows, rows')
  BY <1>2, <1>4, AppendMessagesShape DEF TextsAt
<1>7. TextsAt(K)'
  BY <1>2, <1>3, <1>5 DEF TextsAt
<1> QED
  BY <1>1, <1>2, <1>3, <1>5, <1>7 DEF Texts

LEMMA ResetRootTexts ==
  ASSUME Base, Texts, NEW p \in Proc, ResetRoot(p)
  PROVE  Texts' /\ Within(rows, rows') /\ nmsg <= nmsg'
<1>1. PICK K : K = Known(nmsg)
  OBVIOUS
<1>2. TextsAt(K) /\ nmsg \in Nat
  BY <1>1 DEF Texts
<1>3. UNCHANGED <<msgs, rows, cache, snap, fresh, awake, nmsg>>
  BY DEF ResetRoot, dbVars
<1>4. history' = [history EXCEPT ![got[p]] = msgs[got[p]]] /\ rec' = [rec EXCEPT ![p] = <<>>]
  BY DEF ResetRoot
<1>5. history' \in [Obj -> Seq(K)] /\ rec' \in [Proc -> Seq(K)]
  <2>1. <<>> \in Seq(K)
    OBVIOUS
  <2> QED
    BY <1>2, <1>4, <2>1 DEF TextsAt
<1>7. TextsAt(K)'
  BY <1>2, <1>3, <1>5 DEF TextsAt
<1> QED
  BY <1>1, <1>2, <1>3, <1>7, RowsKept DEF Texts
-----------------------------------------------------------------------------
(* The steps of runs and of the awakening.                                  *)

(* What a transition adds to the history.                                   *)
Made(n) ==
  { <<[uid |-> n + 1, id |-> 0, role |-> "user", parent |-> FALSE],
      [uid |-> n + 2, id |-> 0, role |-> "assistant", parent |-> FALSE]>>,
    <<[uid |-> n + 1, id |-> n + 1, role |-> "assistant", parent |-> FALSE]>>,
    <<[uid |-> n + 1, id |-> n + 1, role |-> "user", parent |-> TRUE]>> }

LEMMA MadeShape ==
  ASSUME NEW n \in Nat, NEW ms \in Made(n)
  PROVE  /\ Len(ms) \in 1..2 /\ n + Len(ms) \in Nat /\ ms \in Seq(Known(n + Len(ms)))
         /\ \A k \in 1..Len(ms) : ms[k].uid = n + k
<1>1. ASSUME ms = <<[uid |-> n + 1, id |-> 0, role |-> "user", parent |-> FALSE],
                    [uid |-> n + 2, id |-> 0, role |-> "assistant", parent |-> FALSE]>>
      PROVE  /\ Len(ms) = 2 /\ ms \in Seq(Known(n + 2))
             /\ \A k \in 1..2 : ms[k].uid = n + k
  <2>1. /\ [uid |-> n + 1, id |-> 0, role |-> "user", parent |-> FALSE] \in Known(n + 2)
        /\ [uid |-> n + 2, id |-> 0, role |-> "assistant", parent |-> FALSE] \in Known(n + 2)
    BY DEF Known, Msg
  <2> QED
    BY <1>1, <2>1
<1>2. ASSUME NEW m \in Known(n + 1), m.uid = n + 1, ms = <<m>>
      PROVE  /\ Len(ms) = 1 /\ ms \in Seq(Known(n + 1))
             /\ \A k \in 1..1 : ms[k].uid = n + k
  BY <1>2
<1>3. /\ [uid |-> n + 1, id |-> n + 1, role |-> "assistant", parent |-> FALSE] \in Known(n + 1)
      /\ [uid |-> n + 1, id |-> n + 1, role |-> "user", parent |-> TRUE] \in Known(n + 1)
  BY DEF Known, Msg
<1>4. CASE ms = <<[uid |-> n + 1, id |-> 0, role |-> "user", parent |-> FALSE],
                  [uid |-> n + 2, id |-> 0, role |-> "assistant", parent |-> FALSE]>>
  BY <1>1, <1>4
<1>5. CASE ms # <<[uid |-> n + 1, id |-> 0, role |-> "user", parent |-> FALSE],
                  [uid |-> n + 2, id |-> 0, role |-> "assistant", parent |-> FALSE]>>
  <2>1. \E m \in Known(n + 1) : m.uid = n + 1 /\ ms = <<m>>
    BY <1>3, <1>5 DEF Made
  <2> QED
    BY <1>2, <2>1
<1> QED
  BY <1>4, <1>5

(* The three transitions that add to the history, in one form.              *)
Fire(r) ==
  /\ phase[r] = "run"
  /\ \E ms \in Made(nmsg) : AddRows(r, ms)
  /\ \/ UNCHANGED <<phase, snap>>
     \/ /\ snap' = [snap EXCEPT ![r] = history'[runObj[r]]]
        /\ phase' = [phase EXCEPT ![r] = "flush"]

LEMMA FireForm == ASSUME NEW r \in Run, FireLLM(r) \/ FireHITL(r) \/ AnswerHITL(r) PROVE Fire(r)
<1>1. CASE FireLLM(r)
  BY <1>1 DEF FireLLM, Fire, Made
<1>2. CASE FireHITL(r)
  BY <1>2 DEF FireHITL, Fire, Made
<1>3. CASE AnswerHITL(r)
  BY <1>3 DEF AnswerHITL, Fire, Made
<1> QED
  BY <1>1, <1>2, <1>3

LEMMA FireTexts ==
  ASSUME Base, Texts, NEW r \in Run, Fire(r)
  PROVE  Texts' /\ Within(rows, rows') /\ nmsg <= nmsg'
<1>1. PICK ms \in Made(nmsg) : AddRows(r, ms)
  BY DEF Fire
<1>2. PICK n \in Nat : n = nmsg + Len(ms) /\ ms \in Seq(Known(n)) /\ nmsg <= n
  BY MadeShape DEF Texts
<1>3. PICK K : K = Known(n)
  OBVIOUS
<1>4. TextsAt(K)
  BY <1>2, <1>3, TextsGrow DEF Texts
<1>5. UNCHANGED <<msgs, rows, cache, rec, fresh, awake>> /\ nmsg' = n
  BY <1>1, <1>2 DEF AddRows, dbVars, reqVars
<1>6. history' = [history EXCEPT ![runObj[r]] = @ \o ms]
  BY <1>1 DEF AddRows
<1>7. history' \in [Obj -> Seq(K)]
  <2>1. \A s \in Seq(K) : s \o ms \in Seq(K)
    BY <1>2, <1>3
  <2> QED
    BY <1>4, <1>6, <2>1 DEF TextsAt
<1>8. snap' \in [Run -> Seq(K)]
  <2>1. history'[runObj[r]] \in Seq(K)
    BY <1>7 DEF Base, Control
  <2>2. UNCHANGED snap \/ snap' = [snap EXCEPT ![r] = history'[runObj[r]]]
    BY DEF Fire
  <2> QED
    BY <1>4, <2>1, <2>2 DEF TextsAt
<1>9. TextsAt(K)'
  BY <1>4, <1>5, <1>7, <1>8 DEF TextsAt
<1> QED
  BY <1>2, <1>3, <1>5, <1>9, RowsKept DEF Texts

LEMMA FlushTexts ==
  ASSUME Base, Texts, NEW r \in Run, from[r] \in Nat, base[r] \in Nat, lastFlushed[r] \in Nat,
         BatchFlush(r) \/ FlushSave(r) \/ FlushAdd(r)
  PROVE  Texts' /\ Within(rows, rows') /\ nmsg <= nmsg'
<1>1. PICK K : K = Known(nmsg)
  OBVIOUS
<1>2. TextsAt(K) /\ nmsg \in Nat /\ runObj[r] \in Obj
  BY <1>1 DEF Texts, Base, Control
<1>3. UNCHANGED <<history, cache, rec, fresh, awake, nmsg>>
  BY DEF BatchFlush, FlushSave, FlushAdd, objVars, dbVars, reqVars, counts
<1>4. snap[r] \in Seq(K) /\ history[runObj[r]] \in Seq(K) /\ rows \in Seq(K)
  BY <1>2 DEF TextsAt
<1>5. Synced(r) \in Nat
  BY DEF Synced, Later
<1>6. CASE BatchFlush(r)
  <2>1. UNCHANGED <<msgs, rows>> /\ snap' = [snap EXCEPT ![r] = history[runObj[r]]]
    BY <1>6 DEF BatchFlush, objVars, dbVars
  <2>2. snap' \in [Run -> Seq(K)]
    BY <1>2, <1>4, <2>1 DEF TextsAt
  <2>3. TextsAt(K)'
    BY <1>2, <1>3, <2>1, <2>2 DEF TextsAt
  <2> QED
    BY <1>1, <1>2, <1>3, <2>1, <2>3, RowsKept DEF Texts
<1>7. CASE FlushSave(r)
  <2>1. UNCHANGED <<msgs, snap>> /\ AppendMessages("flush", Rows(Rest(snap[r], Synced(r))))
    BY <1>7 DEF FlushSave, objVars
  <2>2. Rows(Rest(snap[r], Synced(r))) \in Seq(K)
    BY <1>4, <1>5, RestRows
  <2>3. rows' \in Seq(K) /\ Within(rows, rows')
    BY <1>4, <2>1, <2>2, AppendMessagesShape
  <2>4. TextsAt(K)'
    BY <1>2, <1>3, <2>1, <2>3 DEF TextsAt
  <2> QED
    BY <1>1, <1>2, <1>3, <2>3, <2>4 DEF Texts
<1>8. CASE FlushAdd(r)
  <2>1. /\ UNCHANGED rows /\ snap' = [snap EXCEPT ![r] = <<>>]
        /\ msgs' = [msgs EXCEPT ![runObj[r]] = @ \o Rows(Rest(snap[r], from[r]))]
    BY <1>8 DEF FlushAdd, dbVars
  <2>2. PICK ms \in Seq(K) : ms = Rows(Rest(snap[r], from[r]))
    BY <1>4, RestRows
  <2>3. snap' \in [Run -> Seq(K)]
    BY <1>2, <2>1 DEF TextsAt
  <2>4. msgs' \in [Obj -> Seq(K)]
    <3>1. \A s \in Seq(K) : s \o ms \in Seq(K)
      OBVIOUS
    <3> QED
      BY <1>2, <2>1, <2>2, <3>1 DEF TextsAt
  <2>5. TextsAt(K)'
    BY <1>2, <1>3, <2>1, <2>3, <2>4 DEF TextsAt
  <2> QED
    BY <1>1, <1>2, <1>3, <2>1, <2>5, RowsKept DEF Texts
<1> QED
  BY <1>6, <1>7, <1>8

LEMMA SyncTexts ==
  ASSUME Base, Texts, NEW r \in Run, base[r] \in Nat, lastFlushed[r] \in Nat, Sync(r)
  PROVE  Texts' /\ Within(rows, rows') /\ nmsg <= nmsg'
<1>1. PICK K : K = Known(nmsg)
  OBVIOUS
<1>2. TextsAt(K) /\ nmsg \in Nat /\ runObj[r] \in Obj
  BY <1>1 DEF Texts, Base, Control
<1>3. UNCHANGED <<history, rows, cache, rec, snap, fresh, awake, nmsg>>
  BY DEF Sync, dbVars, reqVars, counts
<1>4. history[runObj[r]] \in Seq(K) /\ Synced(r) \in Nat
  BY <1>2 DEF TextsAt, Synced, Later
<1>5. PICK new \in Seq(K) : new = Rows(Rest(history[runObj[r]], Synced(r)))
  BY <1>4, RestRows
<1>6. PICK ms : ms = [k \in DOMAIN new |-> Named(new[k])]
  OBVIOUS
<1>7. ms \in Seq(K)
  <2>1. \A k \in 1..Len(new) : Named(new[k]) \in K
    BY <1>1, <1>2, NamedKnown
  <2>2. Len(new) \in Nat /\ DOMAIN new = 1..Len(new)
    OBVIOUS
  <2>3. ms \in [1..Len(new) -> K]
    BY <1>6, <2>1, <2>2
  <2> QED
    BY <2>2, <2>3, SeqDef
<1>8. msgs' = [msgs EXCEPT ![runObj[r]] = @ \o ms]
  BY <1>5, <1>6 DEF Sync
<1>9. msgs' \in [Obj -> Seq(K)]
  <2>1. \A s \in Seq(K) : s \o ms \in Seq(K)
    BY <1>7
  <2> QED
    BY <1>2, <1>8, <2>1 DEF TextsAt
<1>10. TextsAt(K)'
  BY <1>2, <1>3, <1>9 DEF TextsAt
<1> QED
  BY <1>1, <1>2, <1>3, <1>10, RowsKept DEF Texts

LEMMA CollectTexts ==
  ASSUME Texts, NEW r \in Run, CollectOutput(r)
  PROVE  Texts' /\ Within(rows, rows') /\ nmsg <= nmsg'
<1>1. CASE UNCHANGED <<msgs, nmsg>>
  <2>1. UNCHANGED <<texts, nmsg>>
    BY <1>1 DEF CollectOutput, texts, dbVars, reqVars
  <2> QED
    BY <2>1, TextsSame
<1>2. CASE ~UNCHANGED <<msgs, nmsg>>
  <2>1. PICK n \in Nat : n = nmsg + 1
    BY DEF Texts
  <2>2. PICK m : m = [uid |-> n, id |-> n, role |-> "assistant", parent |-> FALSE]
    OBVIOUS
  <2>3. nmsg' = n /\ msgs' = [msgs EXCEPT ![runObj[r]] = Append(@, m)]
    BY <1>2, <2>1, <2>2 DEF CollectOutput
  <2>4. UNCHANGED <<history, rows, cache, rec, snap, fresh, awake>>
    BY DEF CollectOutput, dbVars, reqVars
  <2>5. PICK K : K = Known(n)
    OBVIOUS
  <2>6. TextsAt(K) /\ nmsg <= n
    BY <2>1, <2>5, TextsGrow DEF Texts
  <2>7. m \in K
    BY <2>2, <2>5 DEF Known, Msg
  <2>8. msgs' \in [Obj -> Seq(K)]
    <3>1. \A s \in Seq(K) : Append(s, m) \in Seq(K)
      BY <2>7
    <3> QED
      BY <2>3, <2>6, <3>1 DEF TextsAt
  <2>9. TextsAt(K)'
    BY <2>4, <2>6, <2>8 DEF TextsAt
  <2> QED
    BY <2>3, <2>4, <2>5, <2>6, <2>9, RowsKept DEF Texts
<1> QED
  BY <1>1, <1>2

LEMMA PersistTexts ==
  ASSUME Base, Texts, NEW r \in Run, base[r] \in Nat, TakeNew(r) \/ PersistAfterRun(r)
  PROVE  Texts' /\ Within(rows, rows') /\ nmsg <= nmsg'
<1>1. PICK K : K = Known(nmsg)
  OBVIOUS
<1>2. TextsAt(K) /\ nmsg \in Nat /\ runObj[r] \in Obj
  BY <1>1 DEF Texts, Base, Control
<1>3. UNCHANGED <<msgs, history, cache, rec, snap, awake, nmsg>>
  BY DEF TakeNew, PersistAfterRun, objVars, dbVars, reqVars, counts
<1>4. CASE TakeNew(r)
  <2>1. UNCHANGED rows /\ fresh' = [fresh EXCEPT ![r] = Rest(msgs[runObj[r]], base[r])]
    BY <1>4 DEF TakeNew, dbVars
  <2>2. Rest(msgs[runObj[r]], base[r]) \in Seq(K)
    BY <1>2, RestShape DEF TextsAt
  <2>3. fresh' \in [Run -> Seq(K)]
    BY <1>2, <2>1, <2>2 DEF TextsAt
  <2>4. TextsAt(K)'
    BY <1>2, <1>3, <2>1, <2>3 DEF TextsAt
  <2> QED
    BY <1>1, <1>2, <1>3, <2>1, <2>4, RowsKept DEF Texts
<1>5. CASE PersistAfterRun(r)
  <2>1. UNCHANGED fresh /\ AppendMessages("after", Rows(fresh[r]))
    BY <1>5 DEF PersistAfterRun
  <2>2. Rows(fresh[r]) \in Seq(K) /\ rows \in Seq(K)
    BY <1>2, RowsShape DEF TextsAt
  <2>3. rows' \in Seq(K) /\ Within(rows, rows')
    BY <2>1, <2>2, AppendMessagesShape
  <2>4. TextsAt(K)'
    BY <1>2, <1>3, <2>1, <2>3 DEF TextsAt
  <2> QED
    BY <1>1, <1>2, <1>3, <2>3, <2>4 DEF Texts
<1> QED
  BY <1>4, <1>5

LEMMA AwakenTexts ==
  ASSUME Texts, Awaken
  PROVE  Texts' /\ Within(rows, rows') /\ nmsg <= nmsg'
<1>1. PICK n \in Nat : n = nmsg + 1
  BY DEF Texts
<1>2. PICK m : m = [uid |-> n, id |-> n, role |-> "assistant", parent |-> FALSE]
  OBVIOUS
<1>3. PICK new : /\ new = <<m>> \/ new = <<>>
                 /\ nmsg' = nmsg + Len(new) /\ msgs' = [msgs EXCEPT ![1] = @ \o new]
                 /\ awake'.at \in {"save", "done"} /\ awake' = [at |-> awake'.at, new |-> new]
  <2>1. PICK a \in runAwakening :
          LET new == IF a.card THEN <<[uid |-> nmsg + 1, id |-> nmsg + 1, role |-> "assistant", parent |-> FALSE]>>
                     ELSE <<>>
          IN  /\ nmsg' = nmsg + Len(new)
              /\ msgs' = [msgs EXCEPT ![1] = @ \o new]
              /\ awake' = [at |-> IF a.card THEN "save" ELSE "done", new |-> new]
    BY DEF Awaken
  <2>2. CASE a.card
    BY <1>1, <1>2, <2>1, <2>2
  <2>3. CASE ~a.card
    BY <1>1, <1>2, <2>1, <2>3
  <2> QED
    BY <2>2, <2>3
<1>4. UNCHANGED <<history, rows, cache, rec, snap, fresh>>
  BY DEF Awaken, dbVars, reqVars, runVars
<1>5. PICK k \in Nat : k = nmsg' /\ nmsg <= k /\ new \in Seq(Known(k))
  <2>1. CASE new = <<m>>
    <3>1. nmsg' = n
      BY <1>1, <1>3, <2>1
    <3>2. m \in Known(n)
      BY <1>2 DEF Known, Msg
    <3>3. nmsg <= n
      BY <1>1 DEF Texts
    <3> QED
      BY <2>1, <3>1, <3>2, <3>3
  <2>2. CASE new = <<>>
    <3>1. nmsg' = nmsg /\ nmsg \in Nat
      BY <1>3, <2>2 DEF Texts
    <3> QED
      BY <2>2, <3>1
  <2> QED
    BY <1>3, <2>1, <2>2
<1>6. PICK K : K = Known(k)
  OBVIOUS
<1>7. TextsAt(K)
  BY <1>5, <1>6, TextsGrow DEF Texts
<1>8. msgs' \in [Obj -> Seq(K)]
  <2>1. \A s \in Seq(K) : s \o new \in Seq(K)
    BY <1>5, <1>6
  <2> QED
    BY <1>3, <1>7, <2>1 DEF TextsAt
<1>9. awake' \in [at : {"run", "save", "done"}, new : Seq(K)]
  BY <1>3, <1>5, <1>6
<1>10. TextsAt(K)'
  BY <1>4, <1>7, <1>8, <1>9 DEF TextsAt
<1> QED
  BY <1>4, <1>5, <1>6, <1>10, RowsKept DEF Texts

LEMMA ServerTexts ==
  ASSUME Texts, AwakenSave \/ CacheExpires \/ Restart
  PROVE  Texts' /\ Within(rows, rows') /\ nmsg <= nmsg'
<1>1. PICK K : K = Known(nmsg)
  OBVIOUS
<1>2. TextsAt(K) /\ nmsg \in Nat
  BY <1>1 DEF Texts
<1>3. UNCHANGED <<msgs, history, rec, snap, fresh, nmsg>>
  BY DEF AwakenSave, CacheExpires, Restart, objVars, reqVars, runVars, counts
<1>4. UNCHANGED awake \/ awake' = [at |-> "done", new |-> <<>>]
  BY DEF AwakenSave, CacheExpires, Restart, counts
<1>5. UNCHANGED cache \/ cache' = <<>>
  BY DEF AwakenSave, CacheExpires, Restart, dbVars
<1>6. UNCHANGED rows \/ AppendMessages("awaken", awake.new)
  BY DEF AwakenSave, CacheExpires, Restart, dbVars
<1>7. awake' \in [at : {"run", "save", "done"}, new : Seq(K)] /\ cache' \in Seq(K)
  <2>0. <<>> \in Seq(K)
    OBVIOUS
  <2>1. PICK e \in Seq(K) : e = <<>>
    BY <2>0
  <2>2. [at |-> "done", new |-> e] \in [at : {"run", "save", "done"}, new : Seq(K)]
    OBVIOUS
  <2>3. awake' \in [at : {"run", "save", "done"}, new : Seq(K)]
    BY <1>2, <1>4, <2>1, <2>2 DEF TextsAt
  <2>4. cache' \in Seq(K)
    BY <1>2, <1>5, <2>1 DEF TextsAt
  <2> QED
    BY <2>3, <2>4
<1>8. rows' \in Seq(K) /\ Within(rows, rows')
  <2>1. awake.new \in Seq(K) /\ rows \in Seq(K)
    BY <1>2 DEF TextsAt
  <2> QED
    BY <1>6, <2>1, AppendMessagesShape, RowsKept
<1>9. TextsAt(K)'
  BY <1>2, <1>3, <1>7, <1>8 DEF TextsAt
<1> QED
  BY <1>1, <1>2, <1>3, <1>8, <1>9 DEF Texts

-----------------------------------------------------------------------------

(* What requests keep of the session's record.                              *)
Books ==
  /\ op \in [Proc -> OpKind] /\ leader \subseteq Proc
  /\ nops \in 0..load.maxOps /\ restarts \in 0..MaxRestarts
  /\ title \in {"", "fork", "auto", "user"}
  /\ closed \in BOOLEAN /\ deleted \in BOOLEAN /\ cached \in BOOLEAN

(* What runs count. *)
Numbers ==
  /\ base \in [Run -> Nat] /\ lastFlushed \in [Run -> Nat] /\ from \in [Run -> Nat]
  /\ fired \in [Run -> Nat] /\ usage \in Nat /\ billed \in Nat

(* The invariant for any number of clients. *)
Typed == Base /\ Books /\ Texts /\ Numbers

LEMMA OpKept ==
  ASSUME Typed, [Next]_vars
  PROVE  op' \in [Proc -> OpKind]
<1>0. load \in Load /\ op \in [Proc -> OpKind]
  BY SessionAssumption DEF Typed, Base, Control, Books
<1>1. load.ops \subseteq OpKind
  BY <1>0 DEF Load
<1>2. UNCHANGED op \/ \E p \in Proc : \E o \in load.ops : op' = [op EXCEPT ![p] = o]
  <2>1. CASE \E p \in Proc : Start(p)
    BY <2>1 DEF Start
  <2>2. CASE \E p \in Proc : Request(p)
    BY <2>2 DEF Request, CacheGet, DbGet, GetFails, Fill, Evict, Lookup, Build, Insert, Find, Check,
       AppendUser, AppendUserDb, AutoTitle, ResetRoot, Arm, Launch, Unmap, CancelRun, CloseDb, UpdateExists,
       Update, SoftDelete
  <2>3. CASE \E r \in Run : RunStep(r)
    BY <2>3 DEF RunStep, FireLLM, FireHITL, AnswerHITL, AddRows, BatchFlush, FlushSave, FlushAdd, RunReturns,
       Sync, CollectOutput, SetIdle, TakeNew, PersistAfterRun, reqVars
  <2>4. CASE Awaken \/ AwakenSave \/ CacheExpires \/ Restart \/ UNCHANGED vars
    BY <2>4 DEF Awaken, AwakenSave, CacheExpires, Restart, vars, reqVars
  <2> QED
    BY <2>1, <2>2, <2>3, <2>4 DEF Next
<1> QED
  BY <1>0, <1>1, <1>2

LEMMA LeaderKept ==
  ASSUME Typed, [Next]_vars
  PROVE  leader' \subseteq Proc
<1>0. leader \subseteq Proc
  BY DEF Typed, Books
<1>1. UNCHANGED leader \/ leader' = {} \/ \E p \in Proc : leader' = leader \ {p} \/ leader' = {p}
  <2>1. CASE \E p \in Proc : Start(p) \/ Request(p)
    BY <2>1 DEF Start, Request, CacheGet, DbGet, GetFails, Fill, Evict, Lookup, Build, Insert, Find, Check,
       AppendUser, AppendUserDb, AutoTitle, ResetRoot, Arm, Launch, Unmap, CancelRun, CloseDb, UpdateExists,
       Update, SoftDelete
  <2>2. CASE \E r \in Run : RunStep(r)
    BY <2>2 DEF RunStep, FireLLM, FireHITL, AnswerHITL, AddRows, BatchFlush, FlushSave, FlushAdd, RunReturns,
       Sync, CollectOutput, SetIdle, TakeNew, PersistAfterRun, reqVars
  <2>3. CASE Awaken \/ AwakenSave \/ CacheExpires \/ Restart \/ UNCHANGED vars
    BY <2>3 DEF Awaken, AwakenSave, CacheExpires, Restart, vars, reqVars
  <2> QED
    BY <2>1, <2>2, <2>3 DEF Next
<1> QED
  BY <1>0, <1>1

LEMMA CountsKept ==
  ASSUME Typed, [Next]_vars
  PROVE  nops' \in 0..load.maxOps /\ restarts' \in 0..MaxRestarts
<1>0. /\ load.maxOps \in Nat /\ nops \in 0..load.maxOps /\ restarts \in 0..MaxRestarts
  BY SessionAssumption DEF Typed, Base, Control, Books, Load
<1>1. /\ UNCHANGED nops \/ (nops < load.maxOps /\ nops' = nops + 1)
      /\ UNCHANGED restarts \/ (restarts < MaxRestarts /\ restarts' = restarts + 1)
  <2>1. CASE \E p \in Proc : Start(p)
    BY <2>1 DEF Start
  <2>2. CASE \E p \in Proc : Request(p)
    BY <2>2 DEF Request, CacheGet, DbGet, GetFails, Fill, Evict, Lookup, Build, Insert, Find, Check,
       AppendUser, AppendUserDb, AutoTitle, ResetRoot, Arm, Launch, Unmap, CancelRun, CloseDb, UpdateExists,
       Update, SoftDelete, counts
  <2>3. CASE \E r \in Run : RunStep(r)
    BY <2>3 DEF RunStep, FireLLM, FireHITL, AnswerHITL, AddRows, BatchFlush, FlushSave, FlushAdd, RunReturns,
       Sync, CollectOutput, SetIdle, TakeNew, PersistAfterRun, counts
  <2>4. CASE Awaken \/ AwakenSave \/ CacheExpires \/ Restart \/ UNCHANGED vars
    BY <2>4 DEF Awaken, AwakenSave, CacheExpires, Restart, vars, counts
  <2> QED
    BY <2>1, <2>2, <2>3, <2>4 DEF Next
<1> QED
  BY <1>0, <1>1, SessionAssumption

(* A closed session stays closed. *)
LEMMA RecordKept ==
  ASSUME [Next]_vars
  PROVE  /\ UNCHANGED title \/ title' \in {"auto", "user"}
         /\ UNCHANGED closed \/ closed' = TRUE
         /\ UNCHANGED deleted \/ deleted' = TRUE
         /\ UNCHANGED cached \/ cached' = TRUE \/ cached' = FALSE
<1>1. CASE \E p \in Proc : Start(p) \/ Request(p)
  BY <1>1 DEF Start, Request, CacheGet, DbGet, GetFails, Fill, Evict, Lookup, Build, Insert, Find, Check,
     AppendUser, AppendUserDb, AutoTitle, ResetRoot, Arm, Launch, Unmap, CancelRun, CloseDb, UpdateExists,
     Update, SoftDelete, dbVars
<1>2. CASE \E r \in Run : RunStep(r)
  BY <1>2 DEF RunStep, FireLLM, FireHITL, AnswerHITL, AddRows, BatchFlush, FlushSave, FlushAdd, RunReturns,
     Sync, CollectOutput, SetIdle, TakeNew, PersistAfterRun, dbVars
<1>3. CASE Awaken \/ AwakenSave \/ CacheExpires \/ Restart \/ UNCHANGED vars
  BY <1>3 DEF Awaken, AwakenSave, CacheExpires, Restart, vars, dbVars
<1> QED
  BY <1>1, <1>2, <1>3 DEF Next

LEMMA BooksKept == ASSUME Typed, [Next]_vars PROVE Books'
<1>1. op' \in [Proc -> OpKind] /\ leader' \subseteq Proc
  BY OpKept, LeaderKept
<1>2. nops' \in 0..load'.maxOps /\ restarts' \in 0..MaxRestarts
  BY CountsKept, LoadFixed
<1>3. title' \in {"", "fork", "auto", "user"}
  BY RecordKept DEF Typed, Books
<1>4. closed' \in BOOLEAN /\ deleted' \in BOOLEAN /\ cached' \in BOOLEAN
  BY RecordKept DEF Typed, Books
<1> QED
  BY <1>1, <1>2, <1>3, <1>4 DEF Books

(* The texts, step by step. *)
LEMMA TextsKept ==
  ASSUME Typed, [Next]_vars
  PROVE  Texts' /\ Within(rows, rows') /\ nmsg <= nmsg'
<1>0. Base /\ Texts /\ \A r \in Run : base[r] \in Nat /\ lastFlushed[r] \in Nat /\ from[r] \in Nat
  BY DEF Typed, Numbers
<1>1. CASE \E p \in Proc : Start(p) \/ Request(p)
  <2>1. PICK p \in Proc : Start(p) \/ Request(p)
    BY <1>1
  <2>2. \/ TextlessRequest(p) \/ CacheGet(p) \/ Fill(p) \/ Evict(p) \/ DbGet(p) \/ Build(p)
        \/ AppendUser(p) \/ AppendUserDb(p) \/ ResetRoot(p)
    BY <2>1 DEF Request, TextlessRequest
  <2>3. CASE TextlessRequest(p)
    BY <1>0, <2>3, Textless, TextsSame
  <2> QED
    BY <1>0, <2>2, <2>3, CacheGetTexts, DbGetTexts, BuildTexts, AppendUserTexts, AppendUserDbTexts, ResetRootTexts
<1>2. CASE \E r \in Run : RunStep(r)
  <2>1. PICK r \in Run : RunStep(r)
    BY <1>2
  <2>2. \/ FireLLM(r) \/ FireHITL(r) \/ AnswerHITL(r) \/ BatchFlush(r) \/ FlushSave(r) \/ FlushAdd(r)
        \/ RunReturns(r) \/ SetIdle(r) \/ Sync(r) \/ CollectOutput(r) \/ TakeNew(r) \/ PersistAfterRun(r)
    BY <2>1 DEF RunStep
  <2>3. CASE FireLLM(r) \/ FireHITL(r) \/ AnswerHITL(r)
    BY <1>0, <2>3, FireForm, FireTexts
  <2>4. CASE RunReturns(r) \/ SetIdle(r)
    BY <1>0, <2>4, Textless, TextsSame
  <2> QED
    BY <1>0, <2>2, <2>3, <2>4, FlushTexts, SyncTexts, CollectTexts, PersistTexts
<1>3. CASE UNCHANGED vars
  BY <1>0, <1>3, Textless, TextsSame
<1>4. CASE Awaken \/ AwakenSave \/ CacheExpires \/ Restart
  BY <1>0, <1>4, AwakenTexts, ServerTexts
<1> QED
  BY <1>1, <1>2, <1>3, <1>4 DEF Next

(* Only a run's own steps count for it.                                     *)
LEMMA RunNumbersFixed ==
  ASSUME \/ \E p \in Proc : Start(p) \/ (Request(p) /\ ~ResetRoot(p))
         \/ Awaken \/ AwakenSave \/ CacheExpires \/ Restart \/ UNCHANGED vars
  PROVE  UNCHANGED <<base, lastFlushed, from, fired>>
<1>1. CASE \E p \in Proc : Start(p) \/ (Request(p) /\ ~ResetRoot(p))
  BY <1>1 DEF Start, Request, CacheGet, DbGet, GetFails, Fill, Evict, Lookup, Build, Insert, Find, Check,
     AppendUser, AppendUserDb, AutoTitle, Arm, Launch, Unmap, CancelRun, CloseDb, UpdateExists,
     Update, SoftDelete, runVars
<1>2. CASE Awaken \/ AwakenSave \/ CacheExpires \/ Restart \/ UNCHANGED vars
  BY <1>2 DEF Awaken, AwakenSave, CacheExpires, Restart, vars, runVars
<1> QED
  BY <1>1, <1>2

LEMMA RunNumbers ==
  ASSUME NEW r \in Run, RunStep(r)
  PROVE  /\ UNCHANGED base
         /\ UNCHANGED fired \/ fired' = [fired EXCEPT ![r] = @ + 1]
         /\ \/ UNCHANGED <<lastFlushed, from>>
            \/ /\ FlushSave(r)
               /\ from' = [from EXCEPT ![r] = Synced(r)]
               /\ lastFlushed' = [lastFlushed EXCEPT ![r] = Len(snap[r])]
<1>1. CASE FireLLM(r) \/ FireHITL(r) \/ AnswerHITL(r)
  BY <1>1 DEF FireLLM, FireHITL, AnswerHITL, AddRows
<1>2. CASE FlushSave(r)
  BY <1>2 DEF FlushSave
<1>3. CASE ~FireLLM(r) /\ ~FireHITL(r) /\ ~AnswerHITL(r) /\ ~FlushSave(r)
  BY <1>3 DEF RunStep, BatchFlush, FlushAdd, RunReturns, Sync, CollectOutput, SetIdle, TakeNew, PersistAfterRun
<1> QED
  BY <1>1, <1>2, <1>3

LEMMA LedgerSteps ==
  ASSUME [Next]_vars
  PROVE  \/ UNCHANGED <<usage, billed>>
         \/ (\E r \in Run : FireLLM(r)) /\ usage' = usage + 1 /\ UNCHANGED billed
         \/ Awaken /\ (\E c \in 0..1 : usage' = usage + c) /\ UNCHANGED billed
         \/ Restart /\ usage' = 0 /\ UNCHANGED billed
         \/ (\E r \in Run : PersistAfterRun(r)) /\ UNCHANGED usage /\ RecordUsage
<1>1. CASE \E p \in Proc : Start(p) \/ Request(p)
  BY <1>1 DEF Start, Request, CacheGet, DbGet, GetFails, Fill, Evict, Lookup, Build, Insert, Find, Check,
     AppendUser, AppendUserDb, AutoTitle, ResetRoot, Arm, Launch, Unmap, CancelRun, CloseDb, UpdateExists,
     Update, SoftDelete, counts, ledgerVars
<1>2. CASE \E r \in Run : RunStep(r)
  <2>1. PICK r \in Run : RunStep(r)
    BY <1>2
  <2>2. CASE FireLLM(r)
    BY <2>2 DEF FireLLM, AddRows
  <2>3. CASE FireHITL(r) \/ AnswerHITL(r)
    BY <2>3 DEF FireHITL, AnswerHITL, AddRows
  <2>4. CASE PersistAfterRun(r)
    BY <2>4 DEF PersistAfterRun
  <2>5. CASE ~FireLLM(r) /\ ~FireHITL(r) /\ ~AnswerHITL(r) /\ ~PersistAfterRun(r)
    BY <2>1, <2>5 DEF RunStep, BatchFlush, FlushSave, FlushAdd, RunReturns, Sync, CollectOutput, SetIdle, TakeNew,
       counts, ledgerVars
  <2> QED
    BY <2>2, <2>3, <2>4, <2>5
<1>3. CASE Awaken
  <2>1. PICK a \in runAwakening : usage' = usage + a.calls
    BY <1>3 DEF Awaken
  <2>2. a.calls \in 0..1
    BY DEF runAwakening
  <2>3. UNCHANGED billed
    BY <1>3 DEF Awaken
  <2> QED
    BY <1>3, <2>1, <2>2, <2>3
<1>4. CASE Restart
  BY <1>4 DEF Restart
<1>5. CASE AwakenSave \/ CacheExpires \/ UNCHANGED vars
  BY <1>5 DEF AwakenSave, CacheExpires, vars, counts, ledgerVars
<1> QED
  BY <1>1, <1>2, <1>3, <1>4, <1>5 DEF Next

LEMMA NumbersKept == ASSUME Typed, [Next]_vars PROVE Numbers'
<1>0. Base /\ Texts /\ Numbers
  BY DEF Typed
<1>1. usage' \in Nat /\ billed' \in Nat
  <2>1. usage \in Nat /\ billed \in Nat
    BY <1>0 DEF Numbers
  <2> QED
    BY <2>1, LedgerSteps DEF RecordUsage
<1>2. base' \in [Run -> Nat] /\ lastFlushed' \in [Run -> Nat] /\ from' \in [Run -> Nat] /\ fired' \in [Run -> Nat]
  <2>0. base \in [Run -> Nat] /\ lastFlushed \in [Run -> Nat] /\ from \in [Run -> Nat] /\ fired \in [Run -> Nat]
    BY <1>0 DEF Numbers
  <2>1. CASE \E p \in Proc : ResetRoot(p)
    <3>1. PICK p \in Proc : ResetRoot(p)
      BY <2>1
    <3>2. UNCHANGED <<lastFlushed, from, fired>> /\ base' = [base EXCEPT ![nrun'] = Len(msgs[got[p]])]
      BY <3>1 DEF ResetRoot
    <3>3. got[p] \in Obj
      BY <1>0, <3>1, ResetRootBase
    <3>4. msgs[got[p]] \in Seq(Known(nmsg))
      BY <1>0, <3>3 DEF Texts, TextsAt
    <3>5. Len(msgs[got[p]]) \in Nat
      BY <3>4
    <3> QED
      BY <2>0, <3>2, <3>5
  <2>2. CASE \E r \in Run : RunStep(r)
    <3>1. PICK r \in Run : RunStep(r)
      BY <2>2
    <3>2. snap[r] \in Seq(Known(nmsg)) /\ Synced(r) \in Nat
      BY <1>0, <2>0 DEF Texts, TextsAt, Synced, Later
    <3>3. Len(snap[r]) \in Nat
      BY <3>2
    <3>4. UNCHANGED base /\ (UNCHANGED fired \/ fired' = [fired EXCEPT ![r] = @ + 1])
      BY <3>1, RunNumbers
    <3>5. \/ UNCHANGED <<lastFlushed, from>>
          \/ from' = [from EXCEPT ![r] = Synced(r)] /\ lastFlushed' = [lastFlushed EXCEPT ![r] = Len(snap[r])]
      BY <3>1, RunNumbers
    <3>6. fired' \in [Run -> Nat]
      BY <2>0, <3>4
    <3>7. from' \in [Run -> Nat] /\ lastFlushed' \in [Run -> Nat]
      BY <2>0, <3>2, <3>3, <3>5
    <3> QED
      BY <2>0, <3>4, <3>6, <3>7
  <2>3. CASE ~(\E p \in Proc : ResetRoot(p)) /\ ~(\E r \in Run : RunStep(r))
    <3>1. UNCHANGED <<base, lastFlushed, from, fired>>
      BY <2>3, RunNumbersFixed DEF Next
    <3> QED
      BY <2>0, <3>1
  <2> QED
    BY <2>1, <2>2, <2>3
<1> QED
  BY <1>1, <1>2 DEF Numbers

LEMMA NextTyped == ASSUME Typed, [Next]_vars PROVE Typed'
BY NextBase, BooksKept, TextsKept, NumbersKept DEF Typed

LEMMA ForkShape ==
  ASSUME NEW n \in Nat
  PROVE  ForkRows(n) \in Seq(Known(n))
<1>1. ASSUME NEW k \in 1..n PROVE ForkRows(n)[k] \in Known(n)
  <2>1. ForkRows(n)[k] = [uid |-> k, id |-> k, role |-> IF k % 2 = 1 THEN "user" ELSE "assistant", parent |-> FALSE]
    BY DEF ForkRows
  <2>2. PICK w \in {"user", "assistant"} : w = IF k % 2 = 1 THEN "user" ELSE "assistant"
    OBVIOUS
  <2>3. [uid |-> k, id |-> k, role |-> w, parent |-> FALSE] \in Known(n)
    BY DEF Known, Msg
  <2> QED
    BY <2>1, <2>2, <2>3
<1>2. ForkRows(n) \in [1..n -> Known(n)]
  BY <1>1 DEF ForkRows
<1> QED
  BY <1>2, SeqDef

LEMMA InitTyped == ASSUME Init PROVE Typed
<1>1. load \in Load /\ load.fork \in Nat /\ load.maxOps \in Nat /\ load.cache \in BOOLEAN
  BY SessionAssumption DEF Init, Load
<1>2. PICK n \in Nat : n = load.fork
  BY <1>1
<1>3. PICK K : K = Known(n)
  OBVIOUS
<1>0. <<>> \in Seq(K)
  OBVIOUS
<1>4. PICK e \in Seq(K) : e = <<>>
  BY <1>0
<1>5. /\ nmsg = n /\ msgs = [o \in Obj |-> e] /\ cache = e
      /\ (rows = e \/ rows = ForkRows(n)) /\ awake = [at |-> awake.at, new |-> e] /\ awake.at \in {"run", "save", "done"}
  <2>1. CASE load.fork = 0
    <3>1. CreateSession
      BY <2>1 DEF Init
    <3>2. PICK w \in {"run", "save", "done"} : w = IF load.awakening THEN "run" ELSE "done"
      OBVIOUS
    <3>3. awake = [at |-> w, new |-> e]
      BY <1>4, <3>1, <3>2 DEF CreateSession
    <3>4. awake = [at |-> awake.at, new |-> e] /\ awake.at \in {"run", "save", "done"}
      BY <3>2, <3>3
    <3> QED
      BY <1>2, <1>4, <2>1, <3>1, <3>4 DEF CreateSession, NoMessages
  <2>2. CASE load.fork # 0
    <3>1. ForkSession(n)
      BY <1>2, <2>2 DEF Init
    <3>2. awake = [at |-> "done", new |-> e]
      BY <1>4, <3>1 DEF ForkSession
    <3>3. awake = [at |-> awake.at, new |-> e] /\ awake.at \in {"run", "save", "done"}
      BY <3>2
    <3> QED
      BY <1>4, <3>1, <3>3 DEF ForkSession, NoMessages
  <2> QED
    BY <2>1, <2>2
<1>6. Texts
  <2>1. history = [o \in Obj |-> e] /\ rec = [p \in Proc |-> e] /\ snap = [r \in Run |-> e] /\ fresh = [r \in Run |-> e]
    BY <1>4 DEF Init, NoMessages
  <2>2. rows \in Seq(K)
    BY <1>3, <1>5, ForkShape
  <2>3. TextsAt(K)
    BY <1>5, <2>1, <2>2 DEF TextsAt
  <2> QED
    BY <1>3, <1>5, <2>3 DEF Texts
<1>7. Books
  <2>1. /\ op = [p \in Proc |-> "get"] /\ leader = {} /\ nops = 0 /\ restarts = 0
        /\ title \in {"", "fork"} /\ closed = FALSE /\ deleted = FALSE /\ cached = load.cache
    BY DEF Init, CreateSession, ForkSession
  <2>2. op \in [Proc -> OpKind]
    BY <2>1 DEF OpKind
  <2>3. nops \in 0..load.maxOps /\ restarts \in 0..MaxRestarts
    <3>1. nops = 0 /\ restarts = 0 /\ load.maxOps \in Nat /\ MaxRestarts \in Nat
      BY <1>1, <2>1, SessionAssumption
    <3> QED
      BY <3>1
  <2>4. closed \in BOOLEAN /\ deleted \in BOOLEAN /\ cached \in BOOLEAN
    BY <1>1, <2>1
  <2> QED
    BY <2>1, <2>2, <2>3, <2>4 DEF Books
<1>8. Numbers
  BY DEF Init, Numbers
<1> QED
  BY <1>6, <1>7, <1>8, InitBase DEF Typed

LEMMA AlwaysTyped == Spec => []Typed
<1>1. Init => Typed
  BY InitTyped
<1>2. Typed /\ [Next]_vars => Typed'
  BY NextTyped
<1> QED
  BY <1>1, <1>2, PTL DEF Spec

LEMMA TypedIsType == ASSUME Typed PROVE TypeOK
<1>1. PICK K : K = Known(nmsg)
  OBVIOUS
<1>2. K \subseteq Msg /\ TextsAt(K) /\ nmsg \in Nat
  BY <1>1 DEF Typed, Texts, Known
<1>3. \A s \in Seq(K) : s \in Seq(Msg)
  BY <1>2, SeqGrows
<1>4. msgs \in [Obj -> Seq(Msg)] /\ history \in [Obj -> Seq(Msg)] /\ rec \in [Proc -> Seq(Msg)]
  BY <1>2, <1>3 DEF TextsAt
<1>5. snap \in [Run -> Seq(Msg)] /\ fresh \in [Run -> Seq(Msg)] /\ rows \in Seq(Msg) /\ cache \in Seq(Msg)
  BY <1>2, <1>3 DEF TextsAt
<1>6. awake \in [at : {"run", "save", "done"}, new : Seq(Msg)]
  BY <1>2, <1>3 DEF TextsAt
<1>7. ret \in [Proc -> PC]
  BY DEF Typed, Base, Control, PC
<1>8. Control /\ Books /\ Numbers
  BY DEF Typed, Base
<1> QED
  BY <1>2, <1>4, <1>5, <1>6, <1>7, <1>8 DEF TypeOK, Control, Books, Numbers

(* Every variable keeps its type, whatever requests, runs, failures and      *)
(* restarts come together.                                                  *)
THEOREM TypeCorrect == Spec => []TypeOK
BY AlwaysTyped, TypedIsType, PTL

-----------------------------------------------------------------------------
(* persistAfterRun *)

(* A run that persistAfterRun has still to come for.                        *)
Active(r) == phase[r] \notin {"none", "done", "dead"}

(* The awakening happens once, in the process that created the session.     *)
AwakeOnce == ~load.awakening \/ restarts > 0 => awake.at = "done"

(* What persistAfterRun was given is in the table.                          *)
Kept(r) ==
  \A k \in 1..Len(fresh[r]) : Promoted(fresh[r][k]) /\ fresh[r][k].id # 0 => Saved(fresh[r][k])

Persisted ==
  "after" \notin load.faulty =>
    \A r \in Run : phase[r] = "done" /\ ~closed => Kept(r)

(* The ledger lags behind only while some run is under way.                  *)
Bill ==
  "after" \notin load.faulty /\ ~load.awakening => billed >= usage \/ \E r \in Run : Active(r)

(* Phases and what persistAfterRun is handed, over a step: a run is done     *)
(* only by it, and stays so.                                                *)
LEMMA PhaseSteps ==
  ASSUME Typed, [Next]_vars, NEW r \in Run
  PROVE  \/ PersistAfterRun(r)
         \/ Restart /\ phase'[r] \in {"none", "dead"}
         \/ /\ phase'[r] = "done" => phase[r] = "done" /\ fresh'[r] = fresh[r]
            /\ Active(r) => Active(r)'
<1>0. phase \in [Run -> Phase] /\ fresh \in [Run -> Seq(Known(nmsg))] /\ Control
  BY DEF Typed, Base, Control, Texts, TextsAt
<1>1. CASE \E p \in Proc : ResetRoot(p)
  <2>1. UNCHANGED fresh /\ phase' = [phase EXCEPT ![nrun'] = "armed"]
    BY <1>1 DEF ResetRoot
  <2>2. phase'[r] = phase[r] \/ phase'[r] = "armed"
    BY <1>0, <2>1
  <2> QED
    BY <2>1, <2>2 DEF Active
<1>2. CASE \E p \in Proc : Launch(p)
  <2>1. PICK p \in Proc : Launch(p)
    BY <1>2
  <2>2. UNCHANGED fresh /\ phase' = [phase EXCEPT ![mine[p]] = "run"]
    BY <2>1 DEF Launch
  <2>3. phase'[r] = phase[r] \/ phase'[r] = "run"
    BY <1>0, <2>2
  <2> QED
    BY <2>2, <2>3 DEF Active
<1>3. CASE \E p \in Proc : Start(p) \/ (Request(p) /\ ~ResetRoot(p) /\ ~Launch(p))
  <2>1. UNCHANGED <<phase, fresh>>
    BY <1>3 DEF Start, Request, CacheGet, DbGet, GetFails, Fill, Evict, Lookup, Build, Insert, Find, Check,
       AppendUser, AppendUserDb, AutoTitle, Arm, Unmap, CancelRun, CloseDb, UpdateExists, Update, SoftDelete, runVars
  <2> QED
    BY <2>1 DEF Active
<1>4. CASE \E q \in Run : RunStep(q)
  <2>1. PICK q \in Run : RunStep(q)
    BY <1>4
  <2>2. \/ phase' = phase
        \/ \E l \in Phase : phase' = [phase EXCEPT ![q] = l] /\ phase[q] \notin {"none", "armed"}
    BY <1>0, <2>1, RunStepMoves DEF RunMoves
  <2>3. CASE PersistAfterRun(q)
    <3>1. CASE q = r
      BY <2>3, <3>1
    <3>2. CASE q # r
      <4>1. UNCHANGED fresh /\ phase'[r] = phase[r]
        BY <1>0, <2>2, <2>3, <3>2 DEF PersistAfterRun
      <4> QED
        BY <4>1 DEF Active
    <3> QED
      BY <3>1, <3>2
  <2>4. CASE ~PersistAfterRun(q)
    <3>1. \E l \in Phase \ {"none", "done", "dead"} :
             phase[q] \notin {"none", "done", "dead"} /\ (UNCHANGED phase \/ phase' = [phase EXCEPT ![q] = l])
      <4>1. CASE FireLLM(q) \/ FireHITL(q) \/ AnswerHITL(q) \/ BatchFlush(q) \/ FlushSave(q) \/ FlushAdd(q)
        BY <4>1 DEF FireLLM, FireHITL, AnswerHITL, BatchFlush, FlushSave, FlushAdd, Phase
      <4>2. CASE RunReturns(q)
        BY <4>2 DEF RunReturns, Phase
      <4>3. CASE Sync(q)
        BY <1>0, <4>3 DEF Sync, Phase
      <4>4. CASE CollectOutput(q) \/ SetIdle(q) \/ TakeNew(q)
        BY <4>4 DEF CollectOutput, SetIdle, TakeNew, Phase
      <4> QED
        BY <2>1, <2>4, <4>1, <4>2, <4>3, <4>4 DEF RunStep
    <3>2. CASE r = q
      BY <1>0, <3>1, <3>2 DEF Active
    <3>3. CASE r # q
      <4>1. phase'[r] = phase[r]
        BY <1>0, <3>1, <3>3
      <4>2. UNCHANGED fresh \/ \E e : fresh' = [fresh EXCEPT ![q] = e]
        BY <2>1, <2>4 DEF RunStep, FireLLM, FireHITL, AnswerHITL, AddRows, BatchFlush, FlushSave, FlushAdd, RunReturns,
           Sync, CollectOutput, SetIdle, TakeNew
      <4>3. fresh'[r] = fresh[r]
        BY <1>0, <3>3, <4>2
      <4> QED
        BY <4>1, <4>3 DEF Active
    <3> QED
      BY <3>2, <3>3
  <2> QED
    BY <2>3, <2>4
<1>5. CASE Restart
  BY <1>5 DEF Restart
<1>6. CASE Awaken \/ AwakenSave \/ CacheExpires \/ UNCHANGED vars
  <2>1. UNCHANGED <<phase, fresh>>
    BY <1>6 DEF Awaken, AwakenSave, CacheExpires, vars, runVars
  <2> QED
    BY <2>1 DEF Active
<1> QED
  BY <1>1, <1>2, <1>3, <1>4, <1>5, <1>6 DEF Next

(* The table that persistAfterRun leaves has what it was given: the ID that *)
(* is in the table is that of the message itself.                           *)
LEMMA PersistKeeps ==
  ASSUME Typed, NEW r \in Run, PersistAfterRun(r), "after" \notin load.faulty, ~closed
  PROVE  Kept(r)'
<1>1. PICK K : K = Known(nmsg)
  OBVIOUS
<1>2. PICK s \in Seq(K) : s = fresh[r]
  BY <1>1 DEF Typed, Texts, TextsAt
<1>3. rows \in Seq(K)
  BY <1>1 DEF Typed, Texts, TextsAt
<1>4. PICK ms \in Seq(K) : ms = Rows(s) /\ AllRows(ms, s, 1, Len(s))
  BY RowsShape
<1>5. AppendMessages("after", ms) /\ UNCHANGED fresh
  BY <1>2, <1>4 DEF PersistAfterRun
<1>6. rows' = Inserted(rows, ms) /\ rows' \in Seq(K)
  BY <1>3, <1>5, AppendMessagesShape
<1>7. IdsWithin(ms, Len(ms), rows')
  BY <1>3, <1>6, InsertedShape
<1>8. ASSUME NEW k \in 1..Len(s), Promoted(s[k]), s[k].id # 0
      PROVE  \E j \in DOMAIN rows' : rows'[j].uid = s[k].uid
  <2>1. PICK i \in 1..Len(ms) : ms[i] = s[k]
    BY <1>4, <1>8 DEF AllRows
  <2>2. PICK j \in 1..Len(rows') : rows'[j].id = s[k].id
    BY <1>7, <2>1 DEF IdsWithin
  <2>3. s[k] \in K
    OBVIOUS
  <2>4. j \in DOMAIN rows' /\ rows'[j] \in K
    BY <1>6
  <2>5. rows'[j].uid = s[k].uid
    BY <1>1, <1>8, <2>2, <2>3, <2>4 DEF Known
  <2> QED
    BY <2>4, <2>5
<1> QED
  BY <1>2, <1>5, <1>8 DEF Kept, Saved

LEMMA PersistedKept == ASSUME Typed, Persisted, [Next]_vars PROVE Persisted'
<1>1. UNCHANGED load
  BY LoadFixed
<1> SUFFICES ASSUME "after" \notin load.faulty, NEW r \in Run, phase'[r] = "done", ~closed'
             PROVE  Kept(r)'
  BY <1>1 DEF Persisted
<1>2. ~closed
  BY RecordKept
<1>3. CASE PersistAfterRun(r)
  BY <1>2, <1>3, PersistKeeps
<1>4. CASE phase[r] = "done" /\ fresh'[r] = fresh[r]
  <2>1. Kept(r)
    BY <1>2, <1>4 DEF Persisted
  <2>2. Within(rows, rows')
    BY TextsKept
  <2>3. rows \in Seq(Known(nmsg)) /\ rows' \in Seq(Known(nmsg'))
    BY TextsKept DEF Typed, Texts, TextsAt
  <2>4. ASSUME NEW m, Saved(m) PROVE \E j \in DOMAIN rows' : rows'[j].uid = m.uid
    <3>1. PICK k \in DOMAIN rows : rows[k].uid = m.uid
      BY <2>4 DEF Saved
    <3>2. k \in 1..Len(rows)
      BY <2>3
    <3>3. PICK j \in 1..Len(rows') : rows'[j] = rows[k]
      BY <2>2, <3>2 DEF Within
    <3>4. j \in DOMAIN rows'
      BY <2>3
    <3> QED
      BY <3>1, <3>3, <3>4
  <2>5. PICK s : s = fresh[r]
    OBVIOUS
  <2>6. \A k \in 1..Len(s) : Promoted(s[k]) /\ s[k].id # 0 => \E j \in DOMAIN rows' : rows'[j].uid = s[k].uid
    BY <2>1, <2>4, <2>5 DEF Kept
  <2> QED
    BY <1>4, <2>5, <2>6 DEF Kept, Saved
<1> QED
  BY <1>3, <1>4, PhaseSteps

LEMMA AwakeKept == ASSUME Typed, AwakeOnce, [Next]_vars PROVE AwakeOnce'
<1>1. UNCHANGED load
  BY LoadFixed
<1>2. \/ UNCHANGED <<awake, restarts>> \/ Awaken \/ (awake'.at = "done")
  <2>1. CASE \E p \in Proc : Start(p) \/ Request(p)
    BY <2>1 DEF Start, Request, CacheGet, DbGet, GetFails, Fill, Evict, Lookup, Build, Insert, Find, Check,
       AppendUser, AppendUserDb, AutoTitle, ResetRoot, Arm, Launch, Unmap, CancelRun, CloseDb, UpdateExists,
       Update, SoftDelete, counts
  <2>2. CASE \E r \in Run : RunStep(r)
    BY <2>2 DEF RunStep, FireLLM, FireHITL, AnswerHITL, AddRows, BatchFlush, FlushSave, FlushAdd, RunReturns,
       Sync, CollectOutput, SetIdle, TakeNew, PersistAfterRun, counts
  <2>3. CASE AwakenSave \/ Restart
    BY <2>3 DEF AwakenSave, Restart
  <2>4. CASE CacheExpires \/ UNCHANGED vars
    BY <2>4 DEF CacheExpires, vars, counts
  <2> QED
    BY <2>1, <2>2, <2>3, <2>4 DEF Next
<1>3. CASE Awaken
  <2>1. awake.at = "run" /\ UNCHANGED restarts
    BY <1>3 DEF Awaken
  <2> QED
    BY <1>1, <2>1 DEF AwakeOnce
<1> QED
  BY <1>1, <1>2, <1>3 DEF AwakeOnce

LEMMA BillKept == ASSUME Typed, AwakeOnce, Bill, [Next]_vars PROVE Bill'
<1>1. UNCHANGED load
  BY LoadFixed
<1> SUFFICES ASSUME "after" \notin load.faulty, ~load.awakening
             PROVE  billed' >= usage' \/ \E r \in Run : Active(r)'
  BY <1>1 DEF Bill
<1>2. usage \in Nat /\ billed \in Nat
  BY DEF Typed, Numbers
<1>3. CASE \E r \in Run : FireLLM(r)
  <2>1. PICK r \in Run : FireLLM(r)
    BY <1>3
  <2>2. phase'[r] = "run"
    BY <2>1 DEF FireLLM
  <2> QED
    BY <2>2 DEF Active
<1>4. CASE Awaken
  BY <1>4 DEF Awaken, AwakeOnce
<1>5. CASE Restart /\ usage' = 0 /\ UNCHANGED billed
  BY <1>2, <1>5
<1>6. CASE UNCHANGED usage /\ RecordUsage
  BY <1>2, <1>6 DEF RecordUsage
<1>7. CASE UNCHANGED <<usage, billed>>
  <2>1. CASE billed >= usage
    BY <1>7, <2>1
  <2>2. CASE \E r \in Run : Active(r)
    <3>1. PICK r \in Run : Active(r)
      BY <2>2
    <3>2. CASE PersistAfterRun(r)
      <4>1. billed' = billed + usage /\ UNCHANGED usage
        BY <3>2 DEF PersistAfterRun, RecordUsage
      <4> QED
        BY <1>2, <4>1
    <3>3. CASE Restart
      <4>1. usage' = 0 /\ UNCHANGED billed
        BY <3>3 DEF Restart
      <4> QED
        BY <1>2, <4>1
    <3> QED
      BY <3>1, <3>2, <3>3, PhaseSteps
  <2> QED
    BY <2>1, <2>2 DEF Bill
<1> QED
  BY <1>3, <1>4, <1>5, <1>6, <1>7, LedgerSteps

(* What the runs leave behind, for any number of clients.                    *)
Lasting == Typed /\ AwakeOnce /\ Persisted /\ Bill

LEMMA InitLasting == ASSUME Init PROVE Lasting
<1>1. \A r \in Run : phase[r] = "none"
  BY DEF Init
<1>2. usage = 0 /\ billed = 0 /\ restarts = 0
  BY DEF Init
<1>3. ~load.awakening => awake.at = "done"
  <2>1. CASE load.fork = 0
    <3>1. CreateSession
      BY <2>1 DEF Init
    <3>2. PICK w : w = IF load.awakening THEN "run" ELSE "done"
      OBVIOUS
    <3>3. awake.at = w
      BY <3>1, <3>2 DEF CreateSession
    <3> QED
      BY <3>2, <3>3
  <2>2. CASE load.fork # 0
    BY <2>2 DEF Init, ForkSession
  <2> QED
    BY <2>1, <2>2
<1> QED
  BY <1>1, <1>2, <1>3, InitTyped DEF Lasting, AwakeOnce, Persisted, Bill

LEMMA AlwaysLasting == Spec => []Lasting
<1>1. Init => Lasting
  BY InitLasting
<1>2. Lasting /\ [Next]_vars => Lasting'
  BY NextTyped, AwakeKept, PersistedKept, BillKept DEF Lasting
<1> QED
  BY <1>1, <1>2, PTL DEF Spec

(* persistAfterRun, for every interleaving of requests, runs, failed flushes *)
(* and restarts: ON CONFLICT (id) DO NOTHING drops a row only when the very  *)
(* same message is in the table already, so that everything a finished run  *)
(* was given is saved; and Record leaves no LLM call of the process out once *)
(* no run is under way.                                                     *)
THEOREM DurableHolds == Spec => []Durable
<1>1. Lasting => Durable
  <2> SUFFICES ASSUME Lasting, "after" \notin load.faulty PROVE Durable
    BY DEF Durable
  <2>1. ASSUME NEW r \in Run, phase[r] = "done" /\ ~closed
        PROVE  \A k \in DOMAIN fresh[r] : Promoted(fresh[r][k]) /\ fresh[r][k].id # 0 => Saved(fresh[r][k])
    <3>1. Kept(r)
      BY <2>1 DEF Lasting, Persisted
    <3>2. DOMAIN fresh[r] = 1..Len(fresh[r])
      BY DEF Lasting, Typed, Texts, TextsAt
    <3> QED
      BY <3>1, <3>2 DEF Kept
  <2>2. ~load.awakening /\ (\A r \in Run : phase[r] \in {"none", "done", "dead"}) => billed >= usage
    BY DEF Lasting, Bill, Active
  <2> QED
    BY <2>1, <2>2 DEF Durable
<1> QED
  BY <1>1, AlwaysLasting, PTL

-----------------------------------------------------------------------------
(* flushHistory and the sync after Run: the handover as an algorithm on     *)
(* sequences.                                                              *)

(* A uid occurs in l exactly once; it does not occur.                       *)
Once(l, u) == \E j \in 1..Len(l) : l[j].uid = u /\ \A i \in 1..Len(l) : l[i].uid = u => i = j
Never(l, u) == \A j \in 1..Len(l) : l[j].uid # u

(* Of the rows of h after the first b, those up to e have been handed over  *)
(* to m, once each, and the others not at all.                              *)
Over(h, m, b, e) ==
  \A k \in (b + 1)..Len(h) : Promoted(h[k]) =>
    /\ k <= e => Once(m, h[k].uid)
    /\ k > e => Never(m, h[k].uid)

(* l2 is l with messages that are newer than n behind it.                   *)
Grown(l, l2, n) ==
  /\ Len(l2) \in Nat /\ Len(l) <= Len(l2)
  /\ \A j \in 1..Len(l) : l2[j] = l[j]
  /\ \A j \in (Len(l) + 1)..Len(l2) : l2[j].uid > n

LEMMA ConcatShape ==
  ASSUME NEW S, NEW l \in Seq(S), NEW t \in Seq(S)
  PROVE  /\ l \o t \in Seq(S) /\ Len(l) \in Nat /\ Len(t) \in Nat /\ Len(l \o t) = Len(l) + Len(t)
         /\ \A j \in 1..Len(l) : (l \o t)[j] = l[j]
         /\ \A j \in (Len(l) + 1)..(Len(l) + Len(t)) : (l \o t)[j] = t[j - Len(l)]
         /\ \A j \in 1..Len(t) : (l \o t)[Len(l) + j] = t[j]
OBVIOUS

(* Newer messages leave what was handed over as it was.                     *)
LEMMA OverExtended ==
  ASSUME NEW n \in Nat, NEW h \in Seq(Known(n)), NEW m \in Seq(Known(n)), NEW m2, Grown(m, m2, n),
         NEW b \in Nat, NEW e \in Nat, Over(h, m, b, e)
  PROVE  Over(h, m2, b, e)
<1>1. PICK x \in Nat : x = Len(m)
  OBVIOUS
<1>2. PICK y \in Nat : y = Len(m2) /\ x <= y
  BY <1>1 DEF Grown
<1>3. (\A j \in 1..x : m2[j] = m[j]) /\ (\A j \in (x + 1)..y : m2[j].uid > n)
  BY <1>1, <1>2 DEF Grown
<1> SUFFICES ASSUME NEW k \in (b + 1)..Len(h), Promoted(h[k])
             PROVE  (k <= e => Once(m2, h[k].uid)) /\ (k > e => Never(m2, h[k].uid))
  BY DEF Over
<1>4. PICK u \in Nat : u = h[k].uid /\ u <= n
  <2>1. k \in 1..Len(h)
    OBVIOUS
  <2>2. h[k] \in Known(n)
    BY <2>1
  <2> QED
    BY <2>2 DEF Known, Msg
<1>5. \A j \in 1..y : m2[j].uid = u => j \in 1..x
  <2> SUFFICES ASSUME NEW j \in 1..y, m2[j].uid = u, j \notin 1..x PROVE FALSE
    OBVIOUS
  <2>1. j \in (x + 1)..y
    OBVIOUS
  <2>2. m2[j].uid > n
    BY <1>3, <2>1
  <2> QED
    BY <1>4, <2>2
<1>6. CASE k <= e
  <2>1. Once(m, u)
    BY <1>4, <1>6 DEF Over
  <2>2. PICK j \in 1..x : m[j].uid = u /\ \A i \in 1..x : m[i].uid = u => i = j
    BY <1>1, <2>1 DEF Once
  <2>3. j \in 1..y
    BY <1>2
  <2>4. \A i \in 1..y : m2[i].uid = u => i = j
    BY <1>3, <1>5, <2>2
  <2>5. Once(m2, u)
    BY <1>2, <1>3, <2>2, <2>3, <2>4 DEF Once
  <2> QED
    BY <1>4, <1>6, <2>5
<1>7. CASE k > e
  <2>1. Never(m, u)
    BY <1>4, <1>7 DEF Over
  <2>2. \A j \in 1..y : m2[j].uid # u
    BY <1>1, <1>3, <1>5, <2>1 DEF Never
  <2>3. Never(m2, u)
    BY <1>2, <2>2 DEF Never
  <2> QED
    BY <1>4, <1>7, <2>3
<1> QED
  BY <1>6, <1>7

(* Newer rows of the history are rows that have not been handed over.       *)
LEMMA OverGrown ==
  ASSUME NEW n \in Nat, NEW h \in Seq(Known(n)), NEW m \in Seq(Known(n)), NEW h2, Grown(h, h2, n),
         \A i, j \in (Len(h) + 1)..Len(h2) : i # j => h2[i].uid # h2[j].uid,
         NEW b \in Nat, NEW e \in Nat, e <= Len(h), b <= Len(h), Over(h, m, b, e), Apart(h, b + 1)
  PROVE  Over(h2, m, b, e) /\ Apart(h2, b + 1)
<1>1. PICK x \in Nat : x = Len(h)
  OBVIOUS
<1>2. PICK y \in Nat : y = Len(h2) /\ x <= y
  BY <1>1 DEF Grown
<1>3. (\A j \in 1..x : h2[j] = h[j]) /\ (\A j \in (x + 1)..y : h2[j].uid > n)
  BY <1>1, <1>2 DEF Grown
<1>4. \A k \in 1..x : h[k].uid \in Nat /\ h[k].uid <= n
  <2>1. \A k \in 1..x : h[k] \in Known(n)
    BY <1>1
  <2> QED
    BY <2>1 DEF Known, Msg
<1>5. Over(h2, m, b, e)
  <2> SUFFICES ASSUME NEW k \in (b + 1)..y, Promoted(h2[k])
               PROVE  (k <= e => Once(m, h2[k].uid)) /\ (k > e => Never(m, h2[k].uid))
    BY <1>2 DEF Over
  <2>1. CASE k <= x
    <3>1. k \in (b + 1)..Len(h) /\ k \in 1..x
      BY <1>1, <2>1
    <3>2. h2[k] = h[k]
      BY <1>3, <3>1
    <3> QED
      BY <3>1, <3>2 DEF Over
  <2>2. CASE k > x
    <3>1. k \in (x + 1)..y /\ ~(k <= e)
      BY <1>1, <2>2
    <3>2. h2[k].uid > n
      BY <1>3, <3>1
    <3>3. \A j \in 1..Len(m) : m[j].uid \in Nat /\ m[j].uid <= n
      <4>1. \A j \in 1..Len(m) : m[j] \in Known(n)
        OBVIOUS
      <4> QED
        BY <4>1 DEF Known, Msg
    <3>4. Never(m, h2[k].uid)
      BY <3>2, <3>3 DEF Never
    <3> QED
      BY <3>1, <3>4
  <2> QED
    BY <1>1, <2>1, <2>2
<1>6. Apart(h2, b + 1)
  <2> SUFFICES ASSUME NEW i \in (b + 1)..y, NEW j \in (b + 1)..y, i # j, h2[i].uid = h2[j].uid
               PROVE  FALSE
    BY <1>2 DEF Apart
  <2>1. CASE i <= x /\ j <= x
    <3>1. i \in 1..x /\ j \in 1..x /\ i \in (b + 1)..Len(h) /\ j \in (b + 1)..Len(h)
      BY <1>1, <2>1
    <3>2. h2[i] = h[i] /\ h2[j] = h[j]
      BY <1>3, <3>1
    <3> QED
      BY <3>1, <3>2 DEF Apart
  <2>2. CASE i <= x /\ j > x
    <3>1. i \in 1..x /\ j \in (x + 1)..y
      BY <2>2
    <3>2. h2[i] = h[i] /\ h2[j].uid > n /\ h[i].uid \in Nat /\ h[i].uid <= n
      BY <1>3, <1>4, <3>1
    <3> QED
      BY <3>2
  <2>3. CASE i > x /\ j <= x
    <3>1. j \in 1..x /\ i \in (x + 1)..y
      BY <2>3
    <3>2. h2[j] = h[j] /\ h2[i].uid > n /\ h[j].uid \in Nat /\ h[j].uid <= n
      BY <1>3, <1>4, <3>1
    <3> QED
      BY <3>2
  <2>4. CASE i > x /\ j > x
    <3>1. i \in (Len(h) + 1)..Len(h2) /\ j \in (Len(h) + 1)..Len(h2)
      BY <1>1, <1>2, <2>4
    <3> QED
      BY <3>1
  <2> QED
    BY <1>1, <2>1, <2>2, <2>3, <2>4
<1> QED
  BY <1>5, <1>6

(* t has the uids of the promoted rows of h after the first e, once each.   *)
Batch(t, h, e) ==
  /\ \A i \in 1..Len(t) : \E k \in (e + 1)..Len(h) : t[i].uid = h[k].uid
  /\ \A k \in (e + 1)..Len(h) : Promoted(h[k]) => \E i \in 1..Len(t) : t[i].uid = h[k].uid
  /\ Apart(t, 1)

(* Appending the batch hands over the rest.                                 *)
LEMMA OverHanded ==
  ASSUME NEW S, NEW h \in Seq(S), NEW m \in Seq(S), NEW t \in Seq(S),
         NEW b \in Nat, NEW e \in Nat, b <= e, Over(h, m, b, e), Apart(h, b + 1), Batch(t, h, e)
  PROVE  Over(h, m \o t, b, Len(h))
<1>1. PICK x \in Nat : x = Len(m)
  OBVIOUS
<1>2. PICK y \in Nat : y = Len(t)
  OBVIOUS
<1>3. PICK c : c = m \o t
  OBVIOUS
<1>4. /\ Len(c) = x + y /\ (\A j \in 1..x : c[j] = m[j])
      /\ (\A j \in (x + 1)..(x + y) : c[j] = t[j - x]) /\ (\A j \in 1..y : c[x + j] = t[j])
  BY <1>1, <1>2, <1>3, ConcatShape
<1>5. PICK z \in Nat : z = Len(h)
  OBVIOUS
<1>6. ASSUME NEW k \in (b + 1)..z, Promoted(h[k]) PROVE Once(c, h[k].uid)
  <2>1. PICK u : u = h[k].uid
    OBVIOUS
  <2>2. CASE k <= e
    <3>1. PICK j \in 1..x : m[j].uid = u /\ \A i \in 1..x : m[i].uid = u => i = j
      BY <1>1, <1>5, <1>6, <2>1, <2>2 DEF Over, Once
    <3>2. ASSUME NEW i \in 1..y, t[i].uid = u PROVE FALSE
      <4>1. PICK w \in (e + 1)..z : t[i].uid = h[w].uid
        BY <1>2, <1>5 DEF Batch
      <4>2. w \in (b + 1)..Len(h) /\ k \in (b + 1)..Len(h) /\ w # k
        BY <1>5, <2>2
      <4> QED
        BY <2>1, <3>2, <4>1, <4>2 DEF Apart
    <3>3. ASSUME NEW i \in 1..(x + y), c[i].uid = u PROVE i = j
      <4>1. CASE i \in 1..x
        BY <1>4, <3>1, <3>3, <4>1
      <4>2. CASE i \notin 1..x
        <5>1. i \in (x + 1)..(x + y) /\ i - x \in 1..y
          BY <4>2
        <5> QED
          BY <1>4, <3>2, <3>3, <5>1
      <4> QED
        BY <4>1, <4>2
    <3>4. j \in 1..Len(c) /\ c[j].uid = u
      BY <1>4, <3>1
    <3> QED
      BY <1>4, <2>1, <3>3, <3>4 DEF Once
  <2>3. CASE k > e
    <3>1. \A j \in 1..x : m[j].uid # u
      BY <1>1, <1>5, <1>6, <2>1, <2>3 DEF Over, Never
    <3>2. PICK i \in 1..y : t[i].uid = u
      <4>1. k \in (e + 1)..Len(h)
        BY <1>5, <2>3
      <4> QED
        BY <1>2, <1>6, <2>1, <4>1 DEF Batch
    <3>3. x + i \in 1..Len(c) /\ c[x + i].uid = u
      BY <1>4, <3>2
    <3>4. ASSUME NEW j \in 1..(x + y), c[j].uid = u PROVE j = x + i
      <4>1. j \notin 1..x
        BY <1>4, <3>1, <3>4
      <4>2. j \in (x + 1)..(x + y) /\ j - x \in 1..y
        BY <4>1
      <4>3. t[j - x].uid = u
        BY <1>4, <3>4, <4>2
      <4>4. j - x = i
        BY <1>2, <3>2, <4>2, <4>3 DEF Batch, Apart
      <4> QED
        BY <4>2, <4>4
    <3> QED
      BY <1>4, <2>1, <3>3, <3>4 DEF Once
  <2> QED
    BY <1>5, <2>2, <2>3
<1>7. Over(h, c, b, z)
  BY <1>5, <1>6 DEF Over
<1> QED
  BY <1>3, <1>5, <1>7

LEMMA RowsBatch ==
  ASSUME NEW S, NEW h \in Seq(S), NEW e \in Nat, NEW b \in Nat, b <= e, Apart(h, b + 1)
  PROVE  Batch(Rows(Rest(h, e)), h, e)
<1>1. PICK t \in Seq(S) : /\ t = Rows(Rest(h, e)) /\ OnlyRows(t, h, e + 1, Len(h)) /\ AllRows(t, h, e + 1, Len(h))
                          /\ Apart(h, e + 1) => Apart(t, 1)
  BY RestRows
<1>2. Apart(h, e + 1)
  <2>1. \A x \in (e + 1)..Len(h) : x \in (b + 1)..Len(h)
    OBVIOUS
  <2> QED
    BY <2>1 DEF Apart
<1>3. Batch(t, h, e)
  BY <1>1, <1>2 DEF Batch, OnlyRows, AllRows
<1> QED
  BY <1>1, <1>3

(* An ID for a row without one does not make it another row.                *)
LEMMA NamedBatch ==
  ASSUME NEW n \in Nat, NEW h, NEW e, NEW t \in Seq(Known(n)), Batch(t, h, e),
         NEW c, c = [k \in DOMAIN t |-> Named(t[k])]
  PROVE  Batch(c, h, e) /\ c \in Seq(Known(n))
<1>1. PICK y \in Nat : y = Len(t) /\ DOMAIN t = 1..y
  OBVIOUS
<1>2. \A k \in 1..y : t[k] \in Known(n)
  BY <1>1
<1>3. \A k \in 1..y : Named(t[k]) \in Known(n) /\ Named(t[k]).uid = t[k].uid
  BY <1>2, NamedKnown
<1>4. c \in [1..y -> Known(n)] /\ \A k \in 1..y : c[k].uid = t[k].uid
  BY <1>1, <1>3
<1>5. c \in Seq(Known(n)) /\ Len(c) = y
  BY <1>4, SeqDef
<1> QED
  BY <1>1, <1>4, <1>5 DEF Batch, Apart

(* How far the history has been handed over in each phase of a run: h is    *)
(* the history, b historyLen, lf lastFlushed, f startIdx.                   *)
Reached(ph, h, b, lf, f) ==
  IF ph = "add" THEN f ELSE IF ph \in {"collect", "synced"} THEN Len(h) ELSE Later(b, lf)

(* The state of a handover: with m the session's messages, s the snapshot.  *)
Hand(ph, h, m, b, lf, f, s) ==
  /\ b <= Len(h) /\ lf <= Len(h) /\ Apart(h, b + 1)
  /\ ph \in {"flush", "add"} => s = h
  /\ ph = "add" => f >= b /\ lf = Len(h)
  /\ Over(h, m, b, Reached(ph, h, b, lf, f))

LEMMA HandFire ==
  ASSUME NEW n \in Nat, NEW h \in Seq(Known(n)), NEW m \in Seq(Known(n)), NEW b \in Nat, NEW lf \in Nat, NEW f, NEW s,
         Hand("run", h, m, b, lf, f, s), NEW h2, Grown(h, h2, n),
         \A i, j \in (Len(h) + 1)..Len(h2) : i # j => h2[i].uid # h2[j].uid
  PROVE  Hand("run", h2, m, b, lf, f, s) /\ Hand("flush", h2, m, b, lf, f, h2)
<1>1. PICK e \in Nat : e = Later(b, lf) /\ e <= Len(h)
  BY DEF Hand, Later
<1>2. b <= Len(h) /\ lf <= Len(h) /\ Apart(h, b + 1) /\ Over(h, m, b, e)
  BY <1>1 DEF Hand, Reached
<1>3. Over(h2, m, b, e) /\ Apart(h2, b + 1)
  BY <1>1, <1>2, OverGrown
<1>4. b <= Len(h2) /\ lf <= Len(h2)
  BY <1>2 DEF Grown
<1> QED
  BY <1>1, <1>3, <1>4 DEF Hand, Reached

LEMMA HandFlush ==
  ASSUME NEW h, NEW m, NEW b, NEW lf, NEW f, NEW s, Hand("run", h, m, b, lf, f, s)
  PROVE  /\ Hand("flush", h, m, b, lf, f, h)
         /\ Hand("failed", h, m, b, lf, f, s) /\ Hand("ok", h, m, b, lf, f, s)
BY DEF Hand, Reached

LEMMA HandSave ==
  ASSUME NEW S, NEW h \in Seq(S), NEW m, NEW b \in Nat, NEW lf \in Nat, NEW f, NEW s, Hand("flush", h, m, b, lf, f, s)
  PROVE  Hand("add", h, m, b, Len(s), Later(b, lf), s)
<1>1. s = h /\ b <= Len(h) /\ Apart(h, b + 1) /\ Over(h, m, b, Later(b, lf)) /\ Len(h) \in Nat
  BY DEF Hand, Reached
<1>2. Later(b, lf) >= b
  BY DEF Later
<1> QED
  BY <1>1, <1>2 DEF Hand, Reached

LEMMA HandAdd ==
  ASSUME NEW S, NEW h \in Seq(S), NEW m \in Seq(S), NEW b \in Nat, NEW lf \in Nat, NEW f \in Nat, NEW s,
         Hand("add", h, m, b, lf, f, s), NEW s2
  PROVE  Hand("run", h, m \o Rows(Rest(s, f)), b, lf, f, s2)
<1>1. s = h /\ b <= Len(h) /\ lf = Len(h) /\ Apart(h, b + 1) /\ b <= f /\ Over(h, m, b, f)
  BY DEF Hand, Reached
<1>2. PICK t \in Seq(S) : t = Rows(Rest(h, f)) /\ Batch(t, h, f)
  BY <1>1, RestRows, RowsBatch
<1>3. Over(h, m \o t, b, Len(h))
  BY <1>1, <1>2, OverHanded
<1>4. Later(b, lf) = Len(h)
  BY <1>1 DEF Later
<1> QED
  BY <1>1, <1>2, <1>3, <1>4 DEF Hand, Reached

LEMMA HandSync ==
  ASSUME NEW n \in Nat, NEW h \in Seq(Known(n)), NEW m \in Seq(Known(n)), NEW b \in Nat, NEW lf \in Nat, NEW f, NEW s,
         NEW ph \in {"failed", "ok"}, Hand(ph, h, m, b, lf, f, s),
         NEW t, t = Rows(Rest(h, Later(b, lf))), NEW c, c = [k \in DOMAIN t |-> Named(t[k])]
  PROVE  Hand("collect", h, m \o c, b, lf, f, s) /\ Hand("synced", h, m \o c, b, lf, f, s)
<1>1. PICK e \in Nat : e = Later(b, lf) /\ b <= e
  BY DEF Later
<1>2. b <= Len(h) /\ lf <= Len(h) /\ Apart(h, b + 1) /\ Over(h, m, b, e)
  BY <1>1 DEF Hand, Reached
<1>3. t \in Seq(Known(n)) /\ Batch(t, h, e)
  BY <1>1, <1>2, RestRows, RowsBatch
<1>4. c \in Seq(Known(n)) /\ Batch(c, h, e)
  BY <1>3, NamedBatch
<1>5. Over(h, m \o c, b, Len(h))
  BY <1>1, <1>2, <1>4, OverHanded
<1> QED
  BY <1>2, <1>5 DEF Hand, Reached

LEMMA HandGrown ==
  ASSUME NEW n \in Nat, NEW h \in Seq(Known(n)), NEW m \in Seq(Known(n)), NEW b \in Nat, NEW lf \in Nat, NEW f \in Nat,
         NEW s, NEW ph, Hand(ph, h, m, b, lf, f, s), NEW m2, Grown(m, m2, n)
  PROVE  Hand(ph, h, m2, b, lf, f, s)
<1>1. PICK e \in Nat : e = Reached(ph, h, b, lf, f)
  BY DEF Reached, Later
<1>2. Over(h, m, b, e)
  BY <1>1 DEF Hand
<1>3. Over(h, m2, b, e)
  BY <1>2, OverExtended
<1> QED
  BY <1>1, <1>3 DEF Hand

LEMMA HandCollect ==
  ASSUME NEW h, NEW m, NEW b, NEW lf, NEW f, NEW s, Hand("collect", h, m, b, lf, f, s)
  PROVE  Hand("synced", h, m, b, lf, f, s)
BY DEF Hand, Reached

(* A run that begins has nothing to hand over.                              *)
LEMMA HandBegins ==
  ASSUME NEW S, NEW h \in Seq(S), NEW m, NEW f, NEW s
  PROVE  Hand("run", h, m, Len(h), 0, f, s)
<1>1. PICK x \in Nat : x = Len(h)
  OBVIOUS
<1>2. (x + 1)..x = {}
  OBVIOUS
<1> QED
  BY <1>1, <1>2 DEF Hand, Over, Apart

LEMMA AppendGrown ==
  ASSUME NEW S, NEW l \in Seq(S), NEW x, NEW n \in Nat, x.uid > n
  PROVE  Grown(l, Append(l, x), n)
BY DEF Grown

LEMMA ConcatGrown ==
  ASSUME NEW S, NEW l \in Seq(S), NEW t \in Seq(S), NEW n \in Nat, \A k \in 1..Len(t) : t[k].uid > n
  PROVE  Grown(l, l \o t, n)
<1>1. PICK x \in Nat : x = Len(l)
  OBVIOUS
<1>2. PICK y \in Nat : y = Len(t)
  OBVIOUS
<1>3. PICK c : c = l \o t
  OBVIOUS
<1>4. /\ Len(c) = x + y /\ (\A j \in 1..x : c[j] = l[j])
      /\ (\A j \in (x + 1)..(x + y) : c[j] = t[j - x])
  BY <1>1, <1>2, <1>3, ConcatShape
<1>5. ASSUME NEW j \in (x + 1)..(x + y) PROVE c[j].uid > n
  <2>1. j - x \in 1..y
    OBVIOUS
  <2> QED
    BY <1>2, <1>4, <2>1
<1>6. Grown(l, c, n)
  BY <1>1, <1>4, <1>5 DEF Grown
<1> QED
  BY <1>3, <1>6

-----------------------------------------------------------------------------
(* The handover in the steps of requests and runs. *)

(* What the handover of run r depends on. *)
Handing(r) ==
  phase[r] \in Executing =>
    Hand(phase[r], history[runObj[r]], msgs[runObj[r]], base[r], lastFlushed[r], from[r], snap[r])

(* A run that has not begun has flushed nothing, and its object's history is *)
(* as long as when historyLen was taken.                                    *)
Unflushed == \A r \in Run : r > nrun \/ phase[r] = "armed" => lastFlushed[r] = 0
Ready == \A p \in Proc : pc[p] \in {"arm", "launch"} => base[mine[p]] = Len(history[got[p]])

Handover == (\A r \in Run : Handing(r)) /\ Unflushed /\ Ready

(* The invariant of the handover: one client, as with two both runs of an   *)
(* object reset and extend the same history.                                *)
HInv == IInv /\ Typed /\ Handover

(* The texts and numbers of a run. *)
LEMMA Values ==
  ASSUME HInv, NEW r \in Run
  PROVE  /\ nmsg \in Nat /\ runObj[r] \in Obj
         /\ history[runObj[r]] \in Seq(Known(nmsg)) /\ msgs[runObj[r]] \in Seq(Known(nmsg))
         /\ base[r] \in Nat /\ lastFlushed[r] \in Nat /\ from[r] \in Nat
BY DEF HInv, Typed, Texts, TextsAt, Numbers, Base, Control

(* A request that is past the busy check finds no run on its object.        *)
LEMMA NoRunThere ==
  ASSUME HInv, NEW p \in Proc, Sending(p), NEW r \in Run, phase[r] \in Executing
  PROVE  runObj[r] # got[p]
BY DEF HInv, IInv, Alone, Found, Exclusive

LEMMA ReadySame ==
  ASSUME Ready, UNCHANGED <<base, history>>,
         \A q \in Proc : pc'[q] \in {"arm", "launch"} =>
           pc[q] \in {"arm", "launch"} /\ got'[q] = got[q] /\ mine'[q] = mine[q]
  PROVE  Ready'
BY DEF Ready

(* The steps of requests that leave runs, histories and messages alone.     *)
PlainRequest(p) ==
  \/ Start(p) \/ CacheGet(p) \/ DbGet(p) \/ GetFails(p) \/ Fill(p) \/ Evict(p) \/ Lookup(p) \/ Insert(p) \/ Find(p)
  \/ Check(p) \/ AppendUserDb(p) \/ AutoTitle(p) \/ Arm(p) \/ Unmap(p) \/ CancelRun(p) \/ CloseDb(p)
  \/ UpdateExists(p) \/ Update(p) \/ SoftDelete(p)

LEMMA PlainFixes ==
  ASSUME \/ \E p \in Proc : PlainRequest(p)
         \/ AwakenSave \/ CacheExpires \/ UNCHANGED vars
  PROVE  UNCHANGED <<phase, runObj, base, lastFlushed, from, snap, history, msgs, nrun>>
<1>1. CASE \E p \in Proc : PlainRequest(p)
  BY <1>1 DEF PlainRequest, Start, CacheGet, DbGet, GetFails, Fill, Evict, Lookup, Insert, Find, Check,
     AppendUserDb, AutoTitle, Arm, Unmap, CancelRun, CloseDb, UpdateExists, Update, SoftDelete, objVars, runVars, counts
<1>2. CASE AwakenSave \/ CacheExpires \/ UNCHANGED vars
  BY <1>2 DEF AwakenSave, CacheExpires, vars, objVars, runVars, counts
<1> QED
  BY <1>1, <1>2

LEMMA PlainGoes ==
  ASSUME HInv, NEW p \in Proc, PlainRequest(p)
  PROVE  \A q \in Proc : pc'[q] \in {"arm", "launch"} =>
           pc[q] \in {"arm", "launch"} /\ got'[q] = got[q] /\ mine'[q] = mine[q]
<1>0. /\ Control /\ Updates /\ pc \in [Proc -> PC] /\ got \in [Proc -> 0..MaxObj]
      /\ ret \in [Proc -> {"free", "build", "title", "update"}]
  BY DEF HInv, IInv, Control
<1>1. CASE QuietRequest(p)
  <2>1. UNCHANGED held
    BY <1>0, <1>1, QuietMoves
  <2>2. \E l \in PC : pc' = [pc EXCEPT ![p] = l] /\ l \notin {"arm", "launch", "insert", "check"}
    BY <1>0, <1>1, QuietMoves
  <2> QED
    BY <1>0, <2>1, <2>2 DEF held
<1>2. CASE Start(p)
  BY <1>0, <1>2 DEF Start, GoTo
<1>3. CASE GetFails(p)
  <2>1. UNCHANGED <<got, mine>>
    BY <1>3 DEF GetFails
  <2>2. \A q \in Proc : pc'[q] \in {"reset", "free"} \/ pc'[q] = pc[q]
    BY <1>3 DEF GetFails
  <2> QED
    BY <2>1, <2>2
<1>4. CASE Insert(p)
  <2>1. UNCHANGED <<got, mine>> /\ pc' = [pc EXCEPT ![p] = AfterGet(op[p])]
    BY <1>4 DEF Insert, GoTo
  <2>2. AfterGet(op[p]) \in {"find", "unmap", "free", "exists"}
    BY DEF AfterGet
  <2> QED
    BY <1>0, <2>1, <2>2
<1>5. CASE Find(p) \/ Unmap(p)
  <2>1. /\ UNCHANGED mine /\ got' = [got EXCEPT ![p] = live]
        /\ \E l \in {"free", "check", "cancel"} : pc' = [pc EXCEPT ![p] = l]
    BY <1>5 DEF Find, Unmap, GoTo
  <2> QED
    BY <1>0, <2>1
<1>6. CASE Arm(p)
  <2>1. UNCHANGED <<got, mine>> /\ pc[p] = "arm" /\ pc' = [pc EXCEPT ![p] = "launch"]
    BY <1>6 DEF Arm, GoTo
  <2> QED
    BY <1>0, <2>1
<1>7. CASE CancelRun(p)
  <2>1. UNCHANGED <<got, mine>> /\ \E l \in {"close", "free"} : pc' = [pc EXCEPT ![p] = l]
    BY <1>7 DEF CancelRun, GoTo
  <2> QED
    BY <1>0, <2>1
<1> QED
  BY <1>1, <1>2, <1>3, <1>4, <1>5, <1>6, <1>7 DEF PlainRequest, QuietRequest

LEMMA PlainHands ==
  ASSUME HInv, (\E p \in Proc : PlainRequest(p)) \/ AwakenSave \/ CacheExpires \/ UNCHANGED vars
  PROVE  Handover'
<1>1. UNCHANGED <<phase, runObj, base, lastFlushed, from, snap, history, msgs, nrun>>
  BY PlainFixes
<1>2. Handover
  BY DEF HInv
<1>3. ASSUME NEW r \in Run PROVE Handing(r)'
  BY <1>1, <1>2 DEF Handover, Handing
<1>4. Unflushed'
  BY <1>1, <1>2 DEF Handover, Unflushed
<1>5. Ready'
  <2>1. CASE \E p \in Proc : PlainRequest(p)
    BY <1>1, <1>2, <2>1, PlainGoes, ReadySame DEF Handover
  <2>2. CASE AwakenSave \/ CacheExpires \/ UNCHANGED vars
    <3>1. UNCHANGED <<pc, got, mine>>
      BY <2>2 DEF AwakenSave, CacheExpires, vars, reqVars
    <3> QED
      BY <1>1, <1>2, <3>1 DEF Handover, Ready
  <2> QED
    BY <2>1, <2>2
<1> QED
  BY <1>3, <1>4, <1>5 DEF Handover

(* The user's message joins an object that no run works on.                 *)
LEMMA AppendUserHands == ASSUME HInv, NEW p \in Proc, AppendUser(p) PROVE Handover'
<1>1. /\ UNCHANGED <<phase, runObj, base, lastFlushed, from, snap, history, nrun, got, mine>>
      /\ pc[p] = "append" /\ pc' = [pc EXCEPT ![p] = "appenddb"]
      /\ msgs' = [msgs EXCEPT ![got[p]] = Append(@, UserMsg(nmsg'))]
  BY DEF AppendUser, GoTo, runVars
<1>2. Handover /\ pc \in [Proc -> PC] /\ msgs \in [Obj -> Seq(Known(nmsg))]
  BY DEF HInv, IInv, Control, Typed, Texts, TextsAt
<1>3. ASSUME NEW r \in Run PROVE Handing(r)'
  <2>1. CASE phase[r] \in Executing
    <3>1. runObj[r] # got[p]
      BY <1>1, <2>1, NoRunThere DEF Sending
    <3>2. msgs'[runObj[r]] = msgs[runObj[r]]
      BY <1>1, <1>2, <3>1, Values
    <3> QED
      BY <1>1, <1>2, <3>2 DEF Handover, Handing
  <2>2. CASE phase[r] \notin Executing
    BY <1>1, <2>2 DEF Handing
  <2> QED
    BY <2>1, <2>2
<1>4. Unflushed'
  BY <1>1, <1>2 DEF Handover, Unflushed
<1>5. Ready'
  BY <1>1, <1>2, ReadySame DEF Handover
<1> QED
  BY <1>3, <1>4, <1>5 DEF Handover

(* loadFromPersist fills an object that no run works on.                    *)
LEMMA BuildHands == ASSUME HInv, NEW p \in Proc, Build(p) PROVE Handover'
<1>1. /\ UNCHANGED <<phase, runObj, base, lastFlushed, from, snap, history, nrun, mine>>
      /\ nobj' = nobj + 1 /\ msgs' = [msgs EXCEPT ![nobj'] = rec[p]]
      /\ got' = [q \in Proc |-> IF q = p \/ pc[q] = "join" THEN nobj' ELSE got[q]]
      /\ pc' = [q \in Proc |-> IF q = p \/ pc[q] = "join" THEN "insert" ELSE pc[q]]
  BY DEF Build, runVars, counts
<1>2. Handover /\ Numbered /\ nobj \in Nat /\ msgs \in [Obj -> Seq(Known(nmsg))]
  BY DEF HInv, IInv, Control, Typed, Texts, TextsAt
<1>3. ASSUME NEW r \in Run PROVE Handing(r)'
  <2>1. CASE phase[r] \in Executing
    <3>1. runObj[r] <= nobj /\ runObj[r] \in Obj
      BY <1>2, <2>1, Values DEF Numbered, Executing
    <3>2. runObj[r] # nobj'
      BY <1>1, <1>2, <3>1 DEF Obj
    <3>3. msgs'[runObj[r]] = msgs[runObj[r]]
      BY <1>1, <1>2, <3>1, <3>2
    <3> QED
      BY <1>1, <1>2, <3>3 DEF Handover, Handing
  <2>2. CASE phase[r] \notin Executing
    BY <1>1, <2>2 DEF Handing
  <2> QED
    BY <2>1, <2>2
<1>4. Unflushed'
  BY <1>1, <1>2 DEF Handover, Unflushed
<1>5. Ready'
  BY <1>1, <1>2, ReadySame DEF Handover
<1> QED
  BY <1>3, <1>4, <1>5 DEF Handover

(* Root.Reset replaces a history that no run works on.                      *)
LEMMA ResetRootHands == ASSUME HInv, NEW p \in Proc, ResetRoot(p) PROVE Handover'
<1>1. PICK n : n = nrun + 1
  OBVIOUS
<1>2. PICK o : o = got[p]
  OBVIOUS
<1>3. n \in Run /\ o \in Obj
  BY <1>1, <1>2, ResetRootBase DEF HInv, Typed
<1>4. /\ UNCHANGED <<msgs, lastFlushed, snap, from, got>> /\ pc[p] = "reset"
      /\ nrun' = n /\ pc' = [pc EXCEPT ![p] = "arm"] /\ mine' = [mine EXCEPT ![p] = n]
      /\ history' = [history EXCEPT ![o] = msgs[o]] /\ base' = [base EXCEPT ![n] = Len(msgs[o])]
      /\ runObj' = [runObj EXCEPT ![n] = o] /\ phase' = [phase EXCEPT ![n] = "armed"]
  BY <1>1, <1>2 DEF ResetRoot, GoTo
<1>5. /\ Handover /\ Numbered /\ Single /\ pc \in [Proc -> PC] /\ mine \in [Proc -> 0..MaxRun]
      /\ history \in [Obj -> Seq(Known(nmsg))] /\ base \in [Run -> Nat] /\ runObj \in [Run -> Obj]
      /\ phase \in [Run -> Phase] /\ nrun \in Nat
  BY DEF HInv, IInv, Alone, Control, Typed, Texts, TextsAt, Numbers
<1>6. /\ phase'[n] = "armed"
      /\ \A r \in Run \ {n} : phase'[r] = phase[r] /\ runObj'[r] = runObj[r] /\ base'[r] = base[r]
  BY <1>3, <1>4, <1>5
<1>7. ASSUME NEW r \in Run PROVE Handing(r)'
  <2>1. CASE r # n /\ phase[r] \in Executing
    <3>1. runObj[r] # o /\ runObj[r] \in Obj
      BY <1>2, <1>4, <2>1, NoRunThere, Values DEF Sending
    <3>2. history'[runObj[r]] = history[runObj[r]]
      BY <1>4, <1>5, <3>1
    <3>3. Handing(r)
      BY <1>5 DEF Handover
    <3> QED
      BY <1>4, <1>6, <2>1, <3>2, <3>3 DEF Handing
  <2>2. CASE r = n \/ phase[r] \notin Executing
    BY <1>6, <2>2 DEF Handing, Executing
  <2> QED
    BY <2>1, <2>2
<1>8. Unflushed'
  <2>1. lastFlushed[n] = 0
    BY <1>1, <1>3, <1>5 DEF Handover, Unflushed
  <2>2. \A r \in Run : r > n => r > nrun
    BY <1>1, <1>5 DEF Run
  <2> QED
    BY <1>4, <1>5, <1>6, <2>1, <2>2 DEF Handover, Unflushed
<1>9. Ready'
  <2>1. ASSUME NEW q \in Proc, pc'[q] \in {"arm", "launch"}
        PROVE  base'[mine'[q]] = Len(history'[got'[q]])
    <3>1. q = p
      BY <1>4, <1>5, <2>1 DEF Single
    <3>2. mine'[q] = n /\ got'[q] = o
      BY <1>2, <1>4, <1>5, <3>1
    <3>3. base'[n] = Len(msgs[o]) /\ history'[o] = msgs[o]
      BY <1>3, <1>4, <1>5
    <3> QED
      BY <3>2, <3>3
  <2> QED
    BY <2>1 DEF Ready
<1> QED
  BY <1>7, <1>8, <1>9 DEF Handover

(* The run begins where historyLen is. *)
LEMMA LaunchHands == ASSUME HInv, NEW p \in Proc, Launch(p) PROVE Handover'
<1>1. PICK n : n = mine[p]
  OBVIOUS
<1>2. /\ UNCHANGED <<msgs, history, runObj, base, lastFlushed, snap, from, nrun, got, mine>>
      /\ pc[p] = "launch" /\ pc' = [pc EXCEPT ![p] = "free"] /\ phase' = [phase EXCEPT ![n] = "run"]
  BY <1>1 DEF Launch, GoTo, counts
<1>3. /\ Handover /\ pc \in [Proc -> PC] /\ phase \in [Run -> Phase]
      /\ n \in Run /\ phase[n] = "armed" /\ runObj[n] = got[p]
  BY <1>1, <1>2 DEF HInv, IInv, Alone, Prepared, Control
<1>4. phase'[n] = "run" /\ \A r \in Run \ {n} : phase'[r] = phase[r]
  BY <1>2, <1>3
<1>5. ASSUME NEW r \in Run PROVE Handing(r)'
  <2>1. CASE r = n
    <3>1. PICK h : h = history[runObj[n]]
      OBVIOUS
    <3>2. h \in Seq(Known(nmsg))
      BY <1>3, <3>1, Values
    <3>3. base[n] = Len(h) /\ lastFlushed[n] = 0
      BY <1>1, <1>2, <1>3, <3>1 DEF Handover, Ready, Unflushed
    <3>4. Hand("run", h, msgs[runObj[n]], base[n], lastFlushed[n], from[n], snap[n])
      BY <3>2, <3>3, HandBegins
    <3> QED
      BY <1>2, <1>4, <2>1, <3>1, <3>4 DEF Handing
  <2>2. CASE r # n
    BY <1>2, <1>3, <1>4, <2>2 DEF Handover, Handing
  <2> QED
    BY <2>1, <2>2
<1>6. Unflushed'
  BY <1>2, <1>3, <1>4 DEF Handover, Unflushed
<1>7. Ready'
  BY <1>2, <1>3, ReadySame DEF Handover
<1> QED
  BY <1>5, <1>6, <1>7 DEF Handover

(* A run's step changes nothing of the handover of other runs, and only the *)
(* history and the messages of its own object, while it is executing.       *)
LEMMA RunReach ==
  ASSUME NEW r \in Run, RunStep(r)
  PROVE  /\ UNCHANGED history \/ (phase[r] \in Executing /\ \E e : history' = [history EXCEPT ![runObj[r]] = e])
         /\ UNCHANGED msgs \/ (phase[r] \in Executing /\ \E e : msgs' = [msgs EXCEPT ![runObj[r]] = e])
         /\ UNCHANGED snap \/ \E e : snap' = [snap EXCEPT ![r] = e]
<1>1. CASE FireLLM(r) \/ FireHITL(r) \/ AnswerHITL(r)
  BY <1>1 DEF FireLLM, FireHITL, AnswerHITL, AddRows, Executing
<1>2. CASE BatchFlush(r) \/ FlushSave(r) \/ FlushAdd(r)
  BY <1>2 DEF BatchFlush, FlushSave, FlushAdd, objVars, Executing
<1>3. CASE RunReturns(r) \/ SetIdle(r) \/ TakeNew(r) \/ PersistAfterRun(r)
  BY <1>3 DEF RunReturns, SetIdle, TakeNew, PersistAfterRun, objVars
<1>4. CASE Sync(r)
  BY <1>4 DEF Sync, Executing
<1>5. CASE CollectOutput(r)
  BY <1>5 DEF CollectOutput, Executing
<1> QED
  BY <1>1, <1>2, <1>3, <1>4, <1>5 DEF RunStep

(* The run's own handover, step by step. *)
LEMMA FireHand == ASSUME HInv, NEW r \in Run, Fire(r) PROVE Handing(r)'
<1>1. PICK n \in Nat : n = nmsg
  BY Values
<1>2. PICK o \in Obj : o = runObj[r]
  BY Values
<1>3. PICK h \in Seq(Known(n)) : h = history[o]
  BY <1>1, <1>2, Values
<1>4. PICK m \in Seq(Known(n)) : m = msgs[o]
  BY <1>1, <1>2, Values
<1>5. PICK ms \in Made(n) : AddRows(r, ms)
  BY <1>1 DEF Fire
<1>6. PICK h2 : h2 = h \o ms
  OBVIOUS
<1>7. Len(ms) \in 1..2 /\ n + Len(ms) \in Nat /\ ms \in Seq(Known(n + Len(ms))) /\ \A k \in 1..Len(ms) : ms[k].uid = n + k
  BY MadeShape
<1>8. h \in Seq(Known(n + Len(ms)))
  <2>1. n <= n + Len(ms)
    BY <1>7
  <2> QED
    BY <1>7, <2>1, KnownGrows, SeqGrows
<1>9. Grown(h, h2, n)
  <2>1. \A k \in 1..Len(ms) : ms[k].uid > n
    BY <1>7
  <2> QED
    BY <1>6, <1>7, <1>8, <2>1, ConcatGrown
<1>10. \A i, j \in (Len(h) + 1)..Len(h2) : i # j => h2[i].uid # h2[j].uid
  <2>1. PICK x \in Nat : x = Len(h)
    OBVIOUS
  <2>2. PICK y \in Nat : y = Len(ms)
    BY <1>7
  <2>3. Len(h2) = x + y /\ \A j \in (x + 1)..(x + y) : h2[j] = ms[j - x]
    BY <1>6, <1>7, <1>8, <2>1, <2>2, ConcatShape
  <2>4. ASSUME NEW j \in (x + 1)..(x + y) PROVE h2[j].uid = n + (j - x)
    <3>1. j - x \in 1..y
      OBVIOUS
    <3> QED
      BY <1>7, <2>2, <2>3, <3>1
  <2> QED
    BY <2>1, <2>3, <2>4
<1>11. history'[o] = h2 /\ UNCHANGED <<msgs, runObj, base, lastFlushed, from>>
  <2>1. history \in [Obj -> Seq(Known(nmsg))]
    BY DEF HInv, Typed, Texts, TextsAt
  <2>2. history' = [history EXCEPT ![o] = @ \o ms]
    BY <1>2, <1>5 DEF AddRows
  <2> QED
    BY <1>3, <1>5, <1>6, <2>1, <2>2 DEF AddRows
<1>12. phase[r] = "run"
  BY DEF Fire
<1>13. Hand("run", h, m, base[r], lastFlushed[r], from[r], snap[r])
  BY <1>2, <1>3, <1>4, <1>12 DEF HInv, Handover, Handing, Executing
<1>14. /\ Hand("run", h2, m, base[r], lastFlushed[r], from[r], snap[r])
       /\ Hand("flush", h2, m, base[r], lastFlushed[r], from[r], h2)
  BY <1>9, <1>10, <1>13, Values, HandFire
<1>15. CASE UNCHANGED <<phase, snap>>
  BY <1>2, <1>4, <1>11, <1>12, <1>14, <1>15 DEF Handing
<1>16. CASE snap' = [snap EXCEPT ![r] = history'[runObj[r]]] /\ phase' = [phase EXCEPT ![r] = "flush"]
  <2>1. phase \in [Run -> Phase] /\ snap \in [Run -> Seq(Known(nmsg))]
    BY DEF HInv, IInv, Control, Typed, Texts, TextsAt
  <2>2. phase'[r] = "flush" /\ snap'[r] = h2
    BY <1>2, <1>11, <1>16, <2>1
  <2> QED
    BY <1>2, <1>4, <1>11, <1>14, <2>2 DEF Handing
<1> QED
  BY <1>15, <1>16 DEF Fire

LEMMA FlushHand ==
  ASSUME HInv, NEW r \in Run, BatchFlush(r) \/ FlushSave(r) \/ FlushAdd(r) \/ RunReturns(r)
  PROVE  Handing(r)'
<1>1. PICK K : K = Known(nmsg)
  OBVIOUS
<1>2. PICK o \in Obj : o = runObj[r]
  BY Values
<1>3. PICK h \in Seq(K) : h = history[o]
  BY <1>1, <1>2, Values
<1>4. PICK m \in Seq(K) : m = msgs[o]
  BY <1>1, <1>2, Values
<1>5. PICK b \in Nat : b = base[r]
  BY Values
<1>6. PICK lf \in Nat : lf = lastFlushed[r]
  BY Values
<1>7. PICK f \in Nat : f = from[r]
  BY Values
<1>8. PICK s : s = snap[r]
  OBVIOUS
<1>9. phase[r] \in Executing => Hand(phase[r], h, m, b, lf, f, s)
  BY <1>2, <1>3, <1>4, <1>5, <1>6, <1>7, <1>8 DEF HInv, Handover, Handing
<1>10. /\ phase \in [Run -> Phase] /\ snap \in [Run -> Seq(K)] /\ msgs \in [Obj -> Seq(K)]
       /\ from \in [Run -> Nat] /\ lastFlushed \in [Run -> Nat]
  BY <1>1 DEF HInv, IInv, Control, Typed, Texts, TextsAt, Numbers
<1>11. UNCHANGED <<history, runObj, base>>
  BY DEF BatchFlush, FlushSave, FlushAdd, RunReturns, objVars
<1>12. CASE BatchFlush(r)
  <2>1. /\ phase[r] = "run" /\ phase' = [phase EXCEPT ![r] = "flush"] /\ snap' = [snap EXCEPT ![r] = h]
        /\ UNCHANGED <<msgs, lastFlushed, from>>
    BY <1>2, <1>3, <1>12 DEF BatchFlush, objVars
  <2>2. phase'[r] = "flush" /\ snap'[r] = h
    BY <1>10, <2>1
  <2>3. Hand("flush", h, m, b, lf, f, h)
    BY <1>9, <2>1, HandFlush DEF Executing
  <2> QED
    BY <1>2, <1>3, <1>4, <1>5, <1>6, <1>7, <1>11, <2>1, <2>2, <2>3 DEF Handing
<1>13. CASE FlushSave(r)
  <2>1. /\ phase[r] = "flush" /\ phase' = [phase EXCEPT ![r] = "add"] /\ UNCHANGED <<msgs, snap>>
        /\ from' = [from EXCEPT ![r] = Later(b, lf)] /\ lastFlushed' = [lastFlushed EXCEPT ![r] = Len(s)]
    BY <1>5, <1>6, <1>8, <1>13 DEF FlushSave, objVars, Synced
  <2>2. phase'[r] = "add" /\ from'[r] = Later(b, lf) /\ lastFlushed'[r] = Len(s)
    BY <1>10, <2>1
  <2>3. Hand("add", h, m, b, Len(s), Later(b, lf), s)
    BY <1>9, <2>1, HandSave DEF Executing
  <2> QED
    BY <1>2, <1>3, <1>4, <1>5, <1>8, <1>11, <2>1, <2>2, <2>3 DEF Handing
<1>14. CASE FlushAdd(r)
  <2>1. /\ phase[r] = "add" /\ phase' = [phase EXCEPT ![r] = "run"] /\ UNCHANGED <<lastFlushed, from>>
        /\ msgs' = [msgs EXCEPT ![o] = @ \o Rows(Rest(s, f))]
    BY <1>2, <1>7, <1>8, <1>14 DEF FlushAdd
  <2>2. phase'[r] = "run" /\ msgs'[o] = m \o Rows(Rest(s, f))
    BY <1>4, <1>10, <2>1
  <2>3. Hand("run", h, m \o Rows(Rest(s, f)), b, lf, f, snap'[r])
    BY <1>9, <2>1, HandAdd DEF Executing
  <2> QED
    BY <1>2, <1>3, <1>5, <1>6, <1>7, <1>11, <2>1, <2>2, <2>3 DEF Handing
<1>15. CASE RunReturns(r)
  <2>1. PICK res \in {"failed", "ok"} :
          phase[r] = "run" /\ phase' = [phase EXCEPT ![r] = res] /\ UNCHANGED <<msgs, lastFlushed, from, snap>>
    BY <1>15 DEF RunReturns, objVars
  <2>2. phase'[r] = res
    BY <1>10, <2>1
  <2>3. Hand("failed", h, m, b, lf, f, s) /\ Hand("ok", h, m, b, lf, f, s)
    BY <1>9, <2>1, HandFlush DEF Executing
  <2>4. Hand(res, h, m, b, lf, f, s)
    BY <2>3
  <2> QED
    BY <1>2, <1>3, <1>4, <1>5, <1>6, <1>7, <1>8, <1>11, <2>1, <2>2, <2>4 DEF Handing
<1> QED
  BY <1>12, <1>13, <1>14, <1>15

LEMMA SyncHand ==
  ASSUME HInv, NEW r \in Run, Sync(r) \/ CollectOutput(r)
  PROVE  Handing(r)'
<1>1. PICK n \in Nat : n = nmsg
  BY Values
<1>2. PICK o \in Obj : o = runObj[r]
  BY Values
<1>3. PICK h \in Seq(Known(n)) : h = history[o]
  BY <1>1, <1>2, Values
<1>4. PICK m \in Seq(Known(n)) : m = msgs[o]
  BY <1>1, <1>2, Values
<1>5. PICK b \in Nat : b = base[r]
  BY Values
<1>6. PICK lf \in Nat : lf = lastFlushed[r]
  BY Values
<1>7. PICK f \in Nat : f = from[r]
  BY Values
<1>8. PICK s : s = snap[r]
  OBVIOUS
<1>9. phase[r] \in Executing => Hand(phase[r], h, m, b, lf, f, s)
  BY <1>2, <1>3, <1>4, <1>5, <1>6, <1>7, <1>8 DEF HInv, Handover, Handing
<1>10. phase \in [Run -> Phase] /\ msgs \in [Obj -> Seq(Known(n))]
  BY <1>1 DEF HInv, IInv, Control, Typed, Texts, TextsAt
<1>11. UNCHANGED <<history, runObj, base, lastFlushed, from, snap>>
  BY DEF Sync, CollectOutput
<1>12. CASE Sync(r)
  <2>1. PICK t : t = Rows(Rest(h, Later(b, lf)))
    OBVIOUS
  <2>2. PICK c : c = [k \in DOMAIN t |-> Named(t[k])]
    OBVIOUS
  <2>3. /\ phase[r] \in {"failed", "ok"} /\ msgs' = [msgs EXCEPT ![o] = @ \o c]
        /\ \E l \in {"collect", "synced"} : phase' = [phase EXCEPT ![r] = l]
    BY <1>2, <1>3, <1>5, <1>6, <1>12, <2>1, <2>2 DEF Sync, Synced
  <2>4. Hand(phase[r], h, m, b, lf, f, s)
    BY <1>9, <2>3 DEF Executing
  <2>5. Hand("collect", h, m \o c, b, lf, f, s) /\ Hand("synced", h, m \o c, b, lf, f, s)
    BY <2>1, <2>2, <2>3, <2>4, HandSync
  <2>6. msgs'[o] = m \o c /\ phase'[r] \in {"collect", "synced"}
    BY <1>4, <1>10, <2>3
  <2>7. Hand(phase'[r], h, m \o c, b, lf, f, s)
    BY <2>5, <2>6
  <2> QED
    BY <1>2, <1>3, <1>5, <1>6, <1>7, <1>8, <1>11, <2>6, <2>7 DEF Handing
<1>13. CASE CollectOutput(r)
  <2>1. phase[r] = "collect" /\ phase' = [phase EXCEPT ![r] = "synced"]
    BY <1>13 DEF CollectOutput
  <2>2. phase'[r] = "synced" /\ Hand("synced", h, m, b, lf, f, s)
    BY <1>9, <1>10, <2>1, HandCollect DEF Executing
  <2>3. CASE UNCHANGED msgs
    BY <1>2, <1>3, <1>4, <1>5, <1>6, <1>7, <1>8, <1>11, <2>2, <2>3 DEF Handing
  <2>4. CASE ~UNCHANGED msgs
    <3>1. PICK x : x = [uid |-> n + 1, id |-> n + 1, role |-> "assistant", parent |-> FALSE]
      OBVIOUS
    <3>2. msgs' = [msgs EXCEPT ![o] = Append(@, x)]
      BY <1>1, <1>2, <1>13, <2>4, <3>1 DEF CollectOutput
    <3>3. msgs'[o] = Append(m, x)
      BY <1>4, <1>10, <3>2
    <3>4. x.uid > n
      BY <3>1
    <3>5. Grown(m, Append(m, x), n)
      BY <3>4, AppendGrown
    <3>6. Hand("synced", h, Append(m, x), b, lf, f, s)
      BY <2>2, <3>5, HandGrown
    <3> QED
      BY <1>2, <1>3, <1>5, <1>6, <1>7, <1>8, <1>11, <2>2, <3>3, <3>6 DEF Handing
  <2> QED
    BY <2>3, <2>4
<1> QED
  BY <1>12, <1>13

LEMMA OwnHand == ASSUME HInv, NEW r \in Run, RunStep(r) PROVE Handing(r)'
<1>1. CASE FireLLM(r) \/ FireHITL(r) \/ AnswerHITL(r)
  BY <1>1, FireForm, FireHand
<1>2. CASE BatchFlush(r) \/ FlushSave(r) \/ FlushAdd(r) \/ RunReturns(r)
  BY <1>2, FlushHand
<1>3. CASE Sync(r) \/ CollectOutput(r)
  BY <1>3, SyncHand
<1>4. CASE SetIdle(r) \/ TakeNew(r) \/ PersistAfterRun(r)
  <2>1. phase \in [Run -> Phase]
    BY DEF HInv, IInv, Control
  <2>2. phase'[r] \in {"idle", "persist", "done"}
    BY <1>4, <2>1 DEF SetIdle, TakeNew, PersistAfterRun
  <2> QED
    BY <2>2 DEF Handing, Executing
<1> QED
  BY <1>1, <1>2, <1>3, <1>4 DEF RunStep

LEMMA RunHands == ASSUME HInv, NEW r \in Run, RunStep(r) PROVE Handover'
<1>0. /\ Control /\ Numbered /\ Alone /\ Handover /\ phase \in [Run -> Phase]
      /\ history \in [Obj -> Seq(Known(nmsg))] /\ msgs \in [Obj -> Seq(Known(nmsg))]
      /\ snap \in [Run -> Seq(Known(nmsg))] /\ from \in [Run -> Nat] /\ lastFlushed \in [Run -> Nat]
  BY DEF HInv, IInv, Control, Typed, Texts, TextsAt, Numbers
<1>1. UNCHANGED <<runObj, nrun, pc, got, mine, base>>
  BY <1>0, RunStepMoves, RunNumbers DEF RunMoves
<1>2. /\ phase[r] \notin {"none", "armed"}
      /\ \E l \in Phase \ {"none", "armed"} : phase' = [phase EXCEPT ![r] = l]
  BY <1>0, RunStepMoves DEF RunMoves
<1>3. phase'[r] \notin {"none", "armed"} /\ \A q \in Run \ {r} : phase'[q] = phase[q]
  BY <1>0, <1>2
<1>4. \A q \in Run \ {r} : lastFlushed'[q] = lastFlushed[q] /\ from'[q] = from[q]
  BY <1>0, RunNumbers
<1>5. \A q \in Run \ {r} : snap'[q] = snap[q]
  BY <1>0, RunReach
<1>6. ASSUME NEW q \in Run, q # r PROVE Handing(q)'
  <2>1. CASE phase[q] \in Executing
    <3>1. Handing(q) /\ runObj[q] \in Obj
      BY <1>0, Values DEF Handover
    <3>2. phase[r] \in Executing => runObj[q] # runObj[r]
      BY <1>0, <1>6, <2>1 DEF Alone, Exclusive
    <3>3. history'[runObj[q]] = history[runObj[q]]
      BY <1>0, <3>1, <3>2, RunReach
    <3>4. msgs'[runObj[q]] = msgs[runObj[q]]
      BY <1>0, <3>1, <3>2, RunReach
    <3> QED
      BY <1>1, <1>3, <1>4, <1>5, <1>6, <3>1, <3>3, <3>4 DEF Handing
  <2>2. CASE phase[q] \notin Executing
    BY <1>3, <1>6, <2>2 DEF Handing
  <2> QED
    BY <2>1, <2>2
<1>7. \A q \in Run : Handing(q)'
  BY <1>6, OwnHand
<1>8. Unflushed'
  <2>1. ~(r > nrun)
    BY <1>0, <1>2 DEF Numbered
  <2> QED
    BY <1>0, <1>1, <1>3, <1>4, <2>1 DEF Handover, Unflushed
<1>9. Ready'
  <2>1. ASSUME NEW p \in Proc, pc[p] \in {"arm", "launch"}
        PROVE  history'[got[p]] = history[got[p]]
    <3>1. Sending(p)
      BY <2>1 DEF Sending
    <3>2. phase[r] \in Executing => runObj[r] # got[p]
      BY <3>1, NoRunThere
    <3>3. got[p] \in Obj
      <4>1. got[p] = live /\ live # 0
        BY <1>0, <3>1 DEF Alone, Found
      <4> QED
        BY <1>0, <4>1, SessionAssumption DEF Control, Obj
    <3> QED
      BY <1>0, <3>2, <3>3, RunReach
  <2> QED
    BY <1>0, <1>1, <2>1 DEF Handover, Ready
<1> QED
  BY <1>7, <1>8, <1>9 DEF Handover

(* The awakening's card is newer than every row of a run.                   *)
LEMMA AwakenHands == ASSUME HInv, Awaken PROVE Handover'
<1>1. UNCHANGED <<phase, runObj, base, lastFlushed, from, snap, history, nrun, pc, got, mine>>
  BY DEF Awaken, reqVars, runVars
<1>2. Handover /\ msgs \in [Obj -> Seq(Known(nmsg))] /\ nmsg \in Nat
  BY DEF HInv, Typed, Texts, TextsAt
<1>3. PICK n \in Nat : n = nmsg
  BY <1>2
<1>4. PICK x : x = [uid |-> n + 1, id |-> n + 1, role |-> "assistant", parent |-> FALSE]
  OBVIOUS
<1>5. \E new : (new = <<x>> \/ new = <<>>) /\ msgs' = [msgs EXCEPT ![1] = @ \o new]
  <2>1. PICK a \in runAwakening :
          LET new == IF a.card THEN <<[uid |-> nmsg + 1, id |-> nmsg + 1, role |-> "assistant", parent |-> FALSE]>>
                     ELSE <<>>
          IN  msgs' = [msgs EXCEPT ![1] = @ \o new]
    BY DEF Awaken
  <2> QED
    BY <1>3, <1>4, <2>1
<1>6. ASSUME NEW m \in Seq(Known(n)), NEW new, new = <<x>> \/ new = <<>> PROVE Grown(m, m \o new, n)
  <2>1. x \in Known(n + 1) /\ x.uid > n
    BY <1>4 DEF Known, Msg
  <2>2. m \in Seq(Known(n + 1))
    BY KnownGrows, SeqGrows
  <2>3. new \in Seq(Known(n + 1)) /\ \A k \in 1..Len(new) : new[k].uid > n
    <3>1. CASE new = <<x>>
      BY <2>1, <3>1
    <3>2. CASE new = <<>>
      <4>1. <<>> \in Seq(Known(n + 1)) /\ Len(<<>>) = 0 /\ 1..0 = {}
        OBVIOUS
      <4> QED
        BY <3>2, <4>1
    <3> QED
      BY <1>6, <3>1, <3>2
  <2> QED
    BY <2>2, <2>3, ConcatGrown
<1>7. \A o \in Obj : msgs'[o] = msgs[o] \/ Grown(msgs[o], msgs'[o], n)
  <2> SUFFICES ASSUME NEW o \in Obj PROVE msgs'[o] = msgs[o] \/ Grown(msgs[o], msgs'[o], n)
    OBVIOUS
  <2>1. PICK new : (new = <<x>> \/ new = <<>>) /\ msgs' = [msgs EXCEPT ![1] = @ \o new]
    BY <1>5
  <2>2. msgs'[o] = msgs[o] \/ msgs'[o] = msgs[o] \o new
    BY <1>2, <2>1
  <2> QED
    BY <1>2, <1>3, <1>6, <2>1, <2>2
<1>8. ASSUME NEW r \in Run PROVE Handing(r)'
  <2>1. CASE msgs'[runObj[r]] = msgs[runObj[r]]
    BY <1>1, <1>2, <2>1 DEF Handover, Handing
  <2>2. CASE Grown(msgs[runObj[r]], msgs'[runObj[r]], n) /\ phase[r] \in Executing
    <3>1. Hand(phase[r], history[runObj[r]], msgs[runObj[r]], base[r], lastFlushed[r], from[r], snap[r])
      BY <1>2, <2>2 DEF Handover, Handing
    <3>2. Hand(phase[r], history[runObj[r]], msgs'[runObj[r]], base[r], lastFlushed[r], from[r], snap[r])
      BY <1>3, <2>2, <3>1, Values, HandGrown
    <3> QED
      BY <1>1, <3>2 DEF Handing
  <2> QED
    BY <1>1, <1>7, <2>1, <2>2, Values DEF Handing
<1>9. Unflushed' /\ Ready'
  BY <1>1, <1>2 DEF Handover, Unflushed, Ready
<1> QED
  BY <1>8, <1>9 DEF Handover

LEMMA RestartHands == ASSUME HInv, Restart PROVE Handover'
<1>1. /\ pc' = [p \in Proc |-> "free"] /\ UNCHANGED <<lastFlushed, nrun>>
      /\ phase' = [r \in Run |-> IF phase[r] = "none" THEN "none" ELSE "dead"]
  BY DEF Restart
<1>2. (\A p \in Proc : pc'[p] = "free") /\ \A r \in Run : phase'[r] \in {"none", "dead"}
  BY <1>1
<1>3. \A r \in Run : Handing(r)'
  BY <1>2 DEF Handing, Executing
<1>4. Unflushed' /\ Ready'
  BY <1>1, <1>2 DEF HInv, Handover, Unflushed, Ready
<1> QED
  BY <1>3, <1>4 DEF Handover

LEMMA NextHands == ASSUME HInv, [Next]_vars PROVE HInv'
<1>1. Handover'
  <2>1. CASE \E p \in Proc : Start(p) \/ Request(p)
    <3>1. PICK p \in Proc : Start(p) \/ Request(p)
      BY <2>1
    <3>2. PlainRequest(p) \/ AppendUser(p) \/ Build(p) \/ ResetRoot(p) \/ Launch(p)
      BY <3>1 DEF Request, PlainRequest
    <3> QED
      BY <3>2, PlainHands, AppendUserHands, BuildHands, ResetRootHands, LaunchHands
  <2>2. CASE \E r \in Run : RunStep(r)
    BY <2>2, RunHands
  <2>3. CASE AwakenSave \/ CacheExpires \/ UNCHANGED vars
    BY <2>3, PlainHands
  <2>4. CASE Awaken \/ Restart
    BY <2>4, AwakenHands, RestartHands
  <2> QED
    BY <2>1, <2>2, <2>3, <2>4 DEF Next
<1>2. IInv' /\ Typed'
  BY NextKeeps, NextTyped DEF HInv
<1> QED
  BY <1>1, <1>2 DEF HInv

LEMMA InitHands == ASSUME Init, load.clients = 1 PROVE HInv
<1>1. (\A p \in Proc : pc[p] = "free") /\ (\A r \in Run : phase[r] = "none" /\ lastFlushed[r] = 0)
  BY DEF Init
<1>2. Handover
  BY <1>1 DEF Handover, Handing, Unflushed, Ready, Executing
<1> QED
  BY <1>2, InitHolds, InitTyped DEF HInv

LEMMA AlwaysHands == Spec => [](load.clients = 1 => HInv)
<1>1. Init => (load.clients = 1 => HInv)
  BY InitHands
<1>2. (load.clients = 1 => HInv) /\ [Next]_vars => (load.clients = 1 => HInv)'
  BY NextHands, LoadFixed
<1> QED
  BY <1>1, <1>2, PTL DEF Spec

LEMMA OnceCounts ==
  ASSUME NEW l, NEW u, Once(l, u), DOMAIN l = 1..Len(l)
  PROVE  Cardinality({j \in DOMAIN l : l[j].uid = u}) = 1
<1>1. PICK j \in 1..Len(l) : l[j].uid = u /\ \A i \in 1..Len(l) : l[i].uid = u => i = j
  BY DEF Once
<1>2. {i \in DOMAIN l : l[i].uid = u} = {j}
  BY <1>1
<1> QED
  BY <1>2, FS_Singleton

(* flushHistory and the sync after Run, for a client that sends one request *)
(* at a time and any number of runs, firings, failed flushes and restarts:  *)
(* lastFlushed, startIdx and historyLen never let a row be handed over      *)
(* twice or be left out.                                                    *)
THEOREM HandedOverHolds == Spec => []HandedOver
<1>1. (load.clients = 1 => HInv) => HandedOver
  <2> SUFFICES ASSUME HInv, NEW r \in Run, phase[r] = "synced", NEW h, h = history[runObj[r]],
                      NEW k \in (base[r] + 1)..Len(h), Promoted(h[k])
               PROVE  Cardinality({j \in DOMAIN msgs[runObj[r]] : msgs[runObj[r]][j].uid = h[k].uid}) = 1
    BY DEF HandedOver
  <2>1. Hand("synced", h, msgs[runObj[r]], base[r], lastFlushed[r], from[r], snap[r])
    BY DEF HInv, Handover, Handing, Executing
  <2>2. Over(h, msgs[runObj[r]], base[r], Len(h))
    BY <2>1 DEF Hand, Reached
  <2>3. k <= Len(h)
    BY Values
  <2>4. Once(msgs[runObj[r]], h[k].uid)
    BY <2>2, <2>3 DEF Over
  <2>5. DOMAIN msgs[runObj[r]] = 1..Len(msgs[runObj[r]])
    BY Values
  <2> QED
    BY <2>4, <2>5, OnceCounts
<1> QED
  BY <1>1, AlwaysHands, PTL

-----------------------------------------------------------------------------
(* Rehydration after a restart. *)

(* A restarted server without a cache that nobody has sent to yet.           *)
Restarted == ~load.cache /\ restarts > 0 /\ \A r \in Run : phase[r] \in {"none", "dead"}

(* Without Redis no request waits for it. *)
Uncached == ~load.cache => \A p \in Proc : pc[p] \notin {"cacheget", "fill"}

(* What a request has read is the whole table, in the record and then in    *)
(* the object.                                                              *)
Reading ==
  Restarted =>
    \A p \in Proc : /\ pc[p] = "build" => Within(rows, rec[p])
                    /\ pc[p] = "insert" => Within(rows, msgs[got[p]])

RInv == IInv /\ Typed /\ AwakeOnce /\ Uncached /\ Reading

LEMMA UncachedKept == ASSUME RInv, [Next]_vars PROVE Uncached'
<1>0. /\ UNCHANGED load /\ pc \in [Proc -> PC] /\ ret \in [Proc -> {"free", "build", "title", "update"}]
      /\ Control /\ Uncached
  BY LoadFixed DEF RInv, IInv, Control
<1> SUFFICES ASSUME ~load.cache, NEW q \in Proc, pc'[q] \in {"cacheget", "fill"} PROVE FALSE
  BY <1>0 DEF Uncached
<1>1. pc[q] \notin {"cacheget", "fill"}
  BY <1>0 DEF Uncached
<1>2. CASE \E p \in Proc : Start(p) \/ Request(p)
  <2>1. PICK p \in Proc : Start(p) \/ Request(p)
    BY <1>2
  <2>2. CASE CacheGet(p) \/ DbGet(p) \/ Fill(p)
    <3>1. \E l \in {"free", "build", "title", "update", "dbget"} : pc' = [pc EXCEPT ![p] = l]
      BY <1>0, <2>2 DEF CacheGet, DbGet, Fill, GoTo
    <3> QED
      BY <1>0, <1>1, <3>1
  <2>3. CASE Start(p) \/ Evict(p) \/ Check(p) \/ AppendUser(p) \/ AutoTitle(p) \/ CloseDb(p) \/ Update(p) \/ SoftDelete(p)
    <3>1. \E l \in PC \ {"cacheget", "fill"} : pc' = [pc EXCEPT ![p] = l]
      BY <2>3 DEF Start, Evict, Check, AppendUser, AutoTitle, CloseDb, Update, SoftDelete, GoTo, PC
    <3> QED
      BY <1>0, <1>1, <3>1
  <2>4. CASE Lookup(p) \/ UpdateExists(p) \/ AppendUserDb(p) \/ Insert(p)
    <3>1. AfterGet(op[p]) \in {"find", "unmap", "free", "exists"}
      BY DEF AfterGet
    <3>2. \E l \in PC \ {"cacheget", "fill"} : pc' = [pc EXCEPT ![p] = l]
      BY <2>4, <3>1 DEF Lookup, UpdateExists, AppendUserDb, Insert, CallGet, GoTo, PC
    <3> QED
      BY <1>0, <1>1, <3>2
  <2>5. CASE Find(p) \/ Unmap(p) \/ ResetRoot(p) \/ Arm(p) \/ Launch(p) \/ CancelRun(p)
    <3>1. \E l \in PC \ {"cacheget", "fill"} : pc' = [pc EXCEPT ![p] = l]
      BY <2>5 DEF Find, Unmap, ResetRoot, Arm, Launch, CancelRun, GoTo, PC
    <3> QED
      BY <1>0, <1>1, <3>1
  <2>6. CASE Build(p)
    <3>1. pc'[q] = "insert" \/ pc'[q] = pc[q]
      BY <2>6 DEF Build
    <3> QED
      BY <1>1, <3>1
  <2>7. CASE GetFails(p)
    <3>1. pc'[q] \in {"reset", "free"} \/ pc'[q] = pc[q]
      BY <2>7 DEF GetFails
    <3> QED
      BY <1>1, <3>1
  <2> QED
    BY <2>1, <2>2, <2>3, <2>4, <2>5, <2>6, <2>7 DEF Request
<1>3. CASE \E r \in Run : RunStep(r)
  BY <1>0, <1>1, <1>3, RunStepMoves DEF RunMoves
<1>4. CASE Awaken \/ AwakenSave \/ CacheExpires \/ UNCHANGED vars
  BY <1>1, <1>4 DEF Awaken, AwakenSave, CacheExpires, vars, reqVars
<1>5. CASE Restart
  BY <1>5 DEF Restart
<1> QED
  BY <1>2, <1>3, <1>4, <1>5 DEF Next

(* A step to such a state is a restart, or comes from such a state and no    *)
(* run has taken it.                                                        *)
LEMMA RestartedBefore ==
  ASSUME RInv, [Next]_vars, Restarted', ~Restart
  PROVE  /\ Restarted
         /\ \/ \E p \in Proc : Start(p) \/ (Request(p) /\ ~ResetRoot(p) /\ ~Launch(p))
            \/ CacheExpires \/ UNCHANGED vars
<1>0. /\ UNCHANGED load /\ phase \in [Run -> Phase] /\ Base /\ Control /\ Alone /\ AwakeOnce
  BY LoadFixed DEF RInv, IInv, Control, Typed
<1>1. \A p \in Proc : ~ResetRoot(p)
  <2> SUFFICES ASSUME NEW p \in Proc, ResetRoot(p) PROVE FALSE
    OBVIOUS
  <2>1. PICK n \in Run : n = nrun + 1
    BY <1>0, ResetRootBase
  <2>2. phase' = [phase EXCEPT ![n] = "armed"]
    BY <2>1 DEF ResetRoot
  <2>3. phase'[n] = "armed"
    BY <1>0, <2>2
  <2> QED
    BY <2>3 DEF Restarted
<1>2. \A p \in Proc : ~Launch(p)
  <2> SUFFICES ASSUME NEW p \in Proc, Launch(p) PROVE FALSE
    OBVIOUS
  <2>1. pc[p] = "launch" /\ phase' = [phase EXCEPT ![mine[p]] = "run"]
    BY DEF Launch
  <2>2. mine[p] \in Run
    BY <1>0, <2>1 DEF Alone, Prepared
  <2>3. phase'[mine[p]] = "run"
    BY <1>0, <2>1, <2>2
  <2> QED
    BY <2>2, <2>3 DEF Restarted
<1>3. \A r \in Run : ~RunStep(r)
  <2> SUFFICES ASSUME NEW r \in Run, RunStep(r) PROVE FALSE
    OBVIOUS
  <2>1. \/ PersistAfterRun(r) \/ ~Active(r) \/ Active(r)' \/ (Restart /\ phase'[r] \in {"none", "dead"})
    BY PhaseSteps DEF RInv
  <2>2. PersistAfterRun(r) => phase'[r] = "done"
    BY <1>0 DEF PersistAfterRun
  <2>3. Active(r)
    BY DEF Active, RunStep, FireLLM, FireHITL, AnswerHITL, BatchFlush, FlushSave, FlushAdd, RunReturns,
       Sync, CollectOutput, SetIdle, TakeNew, PersistAfterRun
  <2> QED
    BY <2>1, <2>2, <2>3 DEF Restarted, Active
<1>4. CASE \E p \in Proc : Start(p) \/ (Request(p) /\ ~ResetRoot(p) /\ ~Launch(p))
  <2>1. UNCHANGED <<phase, restarts>>
    BY <1>4 DEF Start, Request, CacheGet, DbGet, GetFails, Fill, Evict, Lookup, Build, Insert, Find, Check,
       AppendUser, AppendUserDb, AutoTitle, Arm, Unmap, CancelRun, CloseDb, UpdateExists, Update, SoftDelete,
       runVars, counts
  <2> QED
    BY <1>0, <1>4, <2>1 DEF Restarted
<1>5. CASE CacheExpires \/ UNCHANGED vars
  <2>1. UNCHANGED <<phase, restarts>>
    BY <1>5 DEF CacheExpires, vars, runVars, counts
  <2> QED
    BY <1>0, <1>5, <2>1 DEF Restarted
<1>6. ~Awaken /\ ~AwakenSave
  <2> SUFFICES ASSUME Awaken \/ AwakenSave PROVE FALSE
    OBVIOUS
  <2>1. UNCHANGED restarts /\ awake.at \in {"run", "save"}
    BY DEF Awaken, AwakenSave
  <2>2. restarts > 0
    BY <2>1 DEF Restarted
  <2> QED
    BY <1>0, <2>1, <2>2 DEF AwakeOnce
<1> QED
  BY <1>1, <1>2, <1>3, <1>4, <1>5, <1>6 DEF Next

LEMMA ReadingKept == ASSUME RInv, [Next]_vars PROVE Reading'
<1>0. /\ pc \in [Proc -> PC] /\ got \in [Proc -> 0..MaxObj] /\ Single /\ Uncached /\ Typed /\ Control
      /\ ret \in [Proc -> {"free", "build", "title", "update"}]
      /\ rec \in [Proc -> Seq(Known(nmsg))] /\ msgs \in [Obj -> Seq(Known(nmsg))] /\ rows \in Seq(Known(nmsg))
  BY DEF RInv, IInv, Control, Alone, Typed, Texts, TextsAt
<1> SUFFICES ASSUME Restarted', NEW q \in Proc
             PROVE  /\ pc'[q] = "build" => Within(rows', rec'[q])
                    /\ pc'[q] = "insert" => Within(rows', msgs'[got'[q]])
  BY DEF Reading
<1>1. CASE Restart
  <2>1. pc'[q] = "free"
    BY <1>1 DEF Restart
  <2> QED
    BY <2>1
<1>2. ASSUME Restarted, pc'[q] = pc[q], UNCHANGED rows, rec'[q] = rec[q], got'[q] = got[q],
             pc[q] = "insert" => msgs'[got[q]] = msgs[got[q]]
      PROVE  /\ pc'[q] = "build" => Within(rows', rec'[q])
             /\ pc'[q] = "insert" => Within(rows', msgs'[got'[q]])
  BY <1>2 DEF RInv, Reading
<1>3. CASE (CacheExpires \/ UNCHANGED vars) /\ ~Restart
  <2>1. UNCHANGED <<pc, rows, rec, got, msgs>>
    BY <1>3 DEF CacheExpires, vars, objVars, dbVars, reqVars
  <2>2. Restarted
    BY <1>3, RestartedBefore
  <2> QED
    BY <1>2, <2>1, <2>2
<1>4. CASE \E p \in Proc : Start(p) \/ (Request(p) /\ ~ResetRoot(p) /\ ~Launch(p))
  <2>1. PICK p \in Proc : Start(p) \/ (Request(p) /\ ~ResetRoot(p) /\ ~Launch(p))
    BY <1>4
  <2>2. CASE Restart
    BY <1>1, <2>2
  <2>3. CASE ~Restart
    <3>0. Restarted /\ ~load.cache /\ pc[p] \notin {"cacheget", "fill"}
      BY <1>0, <2>3, RestartedBefore DEF Restarted, Uncached
    <3>1. CASE DbGet(p)
      <4>1. /\ UNCHANGED <<rows, msgs, got>> /\ pc[p] = "dbget" /\ rec' = [rec EXCEPT ![p] = ByTimestamp(rows)]
            /\ pc' = [pc EXCEPT ![p] = ret[p]]
        BY <3>0, <3>1 DEF DbGet, GoTo, objVars, dbVars
      <4>2. CASE q = p
        <5>1. rec'[q] = ByTimestamp(rows) /\ pc'[q] = ret[p] /\ ret[p] # "insert"
          BY <1>0, <4>1, <4>2
        <5>2. Within(rows, ByTimestamp(rows))
          BY <1>0, ByTimestampShape
        <5> QED
          BY <4>1, <5>1, <5>2
      <4>3. CASE q # p
        <5>1. pc'[q] = pc[q] /\ rec'[q] = rec[q]
          BY <1>0, <4>1, <4>3
        <5> QED
          BY <1>2, <3>0, <4>1, <5>1
      <4> QED
        BY <4>2, <4>3
    <3>2. CASE Build(p)
      <4>1. /\ UNCHANGED <<rows, rec>> /\ pc[p] = "build" /\ msgs' = [msgs EXCEPT ![nobj'] = rec[p]]
            /\ got' = [x \in Proc |-> IF x = p \/ pc[x] = "join" THEN nobj' ELSE got[x]]
            /\ pc' = [x \in Proc |-> IF x = p \/ pc[x] = "join" THEN "insert" ELSE pc[x]]
            /\ nobj < MaxObj /\ nobj' = nobj + 1
        BY <3>2 DEF Build, dbVars
      <4>2. nobj' \in Obj
        BY <1>0, <4>1, SessionAssumption DEF Control, Obj
      <4>3. CASE q = p
        <5>1. pc'[q] = "insert" /\ got'[q] = nobj'
          BY <4>1, <4>3
        <5>2. msgs'[nobj'] = rec[p]
          BY <1>0, <4>1, <4>2
        <5>3. Within(rows, rec[p])
          BY <3>0, <4>1 DEF RInv, Reading
        <5> QED
          BY <4>1, <5>1, <5>2, <5>3
      <4>4. CASE q # p
        <5>1. pc[q] = "free" /\ pc'[q] = "free"
          BY <1>0, <4>1, <4>4 DEF Single
        <5> QED
          BY <5>1
      <4> QED
        BY <4>3, <4>4
    <3>3. CASE AppendUserDb(p)
      <4>1. pc[p] = "appenddb" /\ \E l \in {"dbget", "reset"} : pc' = [pc EXCEPT ![p] = l]
        BY <3>0, <3>3 DEF AppendUserDb, CallGet, GoTo
      <4>2. pc'[q] \in {"dbget", "reset", "free"}
        BY <1>0, <4>1 DEF Single
      <4> QED
        BY <4>2
    <3>4. CASE AppendUser(p)
      <4>1. pc[p] = "append" /\ pc' = [pc EXCEPT ![p] = "appenddb"]
        BY <3>4 DEF AppendUser, GoTo
      <4>2. pc'[q] \in {"appenddb", "free"}
        BY <1>0, <4>1 DEF Single
      <4> QED
        BY <4>2
    <3>5. CASE /\ ~DbGet(p) /\ ~Build(p) /\ ~AppendUserDb(p) /\ ~AppendUser(p)
      <4>0. ~CacheGet(p) /\ ~Fill(p)
        BY <3>0 DEF CacheGet, Fill
      <4>1. UNCHANGED <<rows, rec, msgs>>
        BY <2>1, <3>5, <4>0 DEF Start, Request, GetFails, Evict, Lookup, Insert, Find, Check, AutoTitle, Arm,
           Unmap, CancelRun, CloseDb, UpdateExists, Update, SoftDelete, dbVars, objVars
      <4>2. \A x \in Proc : (pc'[x] = pc[x] /\ got'[x] = got[x]) \/ pc'[x] \notin {"build", "insert"}
        <5>1. CASE QuietRequest(p)
          <6>1. UNCHANGED got
            BY <1>0, <5>1, QuietMoves DEF RInv, IInv, held
          <6>2. \E l \in PC \ {"build", "insert"} : pc' = [pc EXCEPT ![p] = l]
            <7>1. AfterGet(op[p]) \in {"find", "unmap", "free", "exists"}
              BY DEF AfterGet
            <7> QED
              BY <3>5, <4>0, <5>1, <7>1 DEF QuietRequest, Evict, Lookup, Check, AutoTitle, CloseDb, UpdateExists,
                 Update, SoftDelete, CallGet, GoTo, PC
          <6> QED
            BY <1>0, <6>1, <6>2
        <5>2. CASE Start(p) \/ GetFails(p) \/ Arm(p) \/ CancelRun(p)
          <6>1. UNCHANGED got
            BY <5>2 DEF Start, GetFails, Arm, CancelRun
          <6>2. CASE GetFails(p)
            BY <6>1, <6>2 DEF GetFails
          <6>3. CASE Start(p) \/ Arm(p) \/ CancelRun(p)
            <7>1. \E l \in PC \ {"build", "insert"} : pc' = [pc EXCEPT ![p] = l]
              BY <6>3 DEF Start, Arm, CancelRun, GoTo, PC
            <7> QED
              BY <1>0, <6>1, <7>1
          <6> QED
            BY <5>2, <6>2, <6>3
        <5>3. CASE Insert(p)
          <6>1. UNCHANGED got /\ pc' = [pc EXCEPT ![p] = AfterGet(op[p])]
            BY <5>3 DEF Insert, GoTo
          <6>2. AfterGet(op[p]) \in {"find", "unmap", "free", "exists"}
            BY DEF AfterGet
          <6> QED
            BY <1>0, <6>1, <6>2
        <5>4. CASE Find(p) \/ Unmap(p)
          <6>1. /\ got' = [got EXCEPT ![p] = live]
                /\ \E l \in {"free", "check", "cancel"} : pc' = [pc EXCEPT ![p] = l]
            BY <5>4 DEF Find, Unmap, GoTo
          <6> QED
            BY <1>0, <6>1
        <5> QED
          BY <2>1, <3>5, <5>1, <5>2, <5>3, <5>4 DEF Request, QuietRequest
      <4> QED
        BY <1>2, <3>0, <4>1, <4>2
    <3> QED
      BY <3>1, <3>2, <3>3, <3>4, <3>5
  <2> QED
    BY <2>2, <2>3
<1> QED
  BY <1>1, <1>3, <1>4, RestartedBefore

LEMMA NextReads == ASSUME RInv, [Next]_vars PROVE RInv'
BY NextKeeps, NextTyped, AwakeKept, UncachedKept, ReadingKept DEF RInv

LEMMA InitReads == ASSUME Init, load.clients = 1 PROVE RInv
<1>1. \A p \in Proc : pc[p] = "free"
  BY DEF Init
<1> QED
  BY <1>1, InitHolds, InitLasting DEF Lasting, RInv, Uncached, Reading

(* Only the insertion of a rehydrated object fills the maps.                *)
LEMMA OnlyInsertFills ==
  ASSUME RInv, [Next]_vars, live = 0, live' # 0
  PROVE  \E p \in Proc : Insert(p)
<1>1. CASE \E p \in Proc : (Start(p) \/ Request(p)) /\ ~Insert(p)
  <2>1. UNCHANGED live \/ live' = 0
    BY <1>1 DEF Start, Request, CacheGet, DbGet, GetFails, Fill, Evict, Lookup, Build, Find, Check,
       AppendUser, AppendUserDb, AutoTitle, ResetRoot, Arm, Launch, Unmap, CancelRun, CloseDb, UpdateExists,
       Update, SoftDelete, objVars
  <2> QED
    BY <2>1
<1>2. CASE \E r \in Run : RunStep(r)
  <2>1. UNCHANGED live
    BY <1>2, RunStepMoves DEF RInv, IInv, RunMoves
  <2> QED
    BY <2>1
<1>3. CASE Awaken \/ AwakenSave \/ CacheExpires \/ Restart \/ UNCHANGED vars
  BY <1>3 DEF Awaken, AwakenSave, CacheExpires, Restart, vars, objVars
<1> QED
  BY <1>1, <1>2, <1>3 DEF Next

LEMMA RehydrationComplete ==
  ASSUME RInv, [Next]_vars, Restarted, live = 0, live' # 0
  PROVE  ToSet(rows) \subseteq ToSet(msgs[live'])
<1>1. PICK p \in Proc : Insert(p)
  BY OnlyInsertFills
<1>2. pc[p] = "insert" /\ live' = got[p]
  BY <1>1 DEF Insert
<1>3. Within(rows, msgs[live'])
  BY <1>2 DEF RInv, Reading
<1>4. rows \in Seq(Known(nmsg)) /\ got[p] \in Obj /\ msgs \in [Obj -> Seq(Known(nmsg))]
  BY <1>2 DEF RInv, IInv, Alone, Unused, Typed, Texts, TextsAt
<1>5. PICK m \in Seq(Known(nmsg)) : m = msgs[live']
  BY <1>2, <1>4
<1>6. DOMAIN rows = 1..Len(rows) /\ DOMAIN m = 1..Len(m)
  BY <1>4
<1>7. ToSet(rows) = {rows[i] : i \in DOMAIN rows} /\ ToSet(m) = {m[i] : i \in DOMAIN m}
  BY DEF ToSet
<1> QED
  BY <1>3, <1>5, <1>6, <1>7 DEF Within

(* loadFromPersist after a restart, for a client that sends one request at  *)
(* a time: no row is added to the table between the read of the record and  *)
(* the insertion of the object, so that the object has all of them.         *)
THEOREM RehydratedCompleteHolds == Spec => RehydratedComplete
<1> DEFINE I == load.clients = 1 => RInv
<1>1. Init => I
  BY InitReads
<1>2. I /\ [Next]_vars => I'
  BY NextReads, LoadFixed
<1>3. I /\ [Next]_vars =>
        [load.clients = 1 /\ ~load.cache /\ live = 0 /\ live' # 0 /\ restarts > 0
         /\ (\A r \in Run : phase[r] \in {"none", "dead"}) =>
           ToSet(rows) \subseteq ToSet(msgs[live'])]_live
  BY RehydrationComplete DEF Restarted
<1> HIDE DEF I
<1> QED
  BY <1>1, <1>2, <1>3, PTL DEF Spec, RehydratedComplete
=============================================================================
