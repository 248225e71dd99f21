------------------------- MODULE HostSessionProofs -------------------------
(***************************************************************************)
(* Proofs about HostSession, for any number of firings and of requests to  *)
(* stop the session, any capacity of its channels, and any output.         *)
(***************************************************************************)
EXTENDS HostSession, TLAPS

Actor == Request \cup {Watcher}

(* What TypeOK needs to be inductive: a firing that has begun has a          *)
(* configuration, and one that sleeps has an attempt left.                   *)
Counted ==
  /\ \A f \in Firing : fire[f] # "idle" => f \in DOMAIN conf
  /\ \A f \in Firing : fire[f] = "sleep" => attempt[f] < conf[f].attempts

(* How far openWithEmitConfig is: a loop is there once its go statement was  *)
(* reached, and before the session is in the map nobody stops it.            *)
Opening ==
  /\ reader = "none" <=> opener \in {"start", "published", "failed"}
  /\ waiter = "none" <=> opener \in {"start", "published", "reading", "failed"}
  /\ ~Known => \A k \in Actor : req[k] = "idle"

(* What each loop has left behind when it is at a given place.               *)
LoopsLeft ==
  /\ reader = "gone" => chunksClosed
  /\ waiter \in {"close", "send", "shut", "gone"} => proc = "reaped"
  /\ waiter \in {"send", "shut", "gone"} => ~pty
  /\ waiter = "gone" => statusClosed

(* Both loops have run to their ends.                                        *)
BothGone == reader = "gone" /\ waiter = "gone"

(* Who is about to remove the session has waited for sess.wg, in vain if     *)
(* Open had not added both loops to it.                                      *)
Waited == \A k \in Actor : req[k] = "remove" => early \/ BothGone

(* The session is out of the map only after somebody removed it, and has     *)
(* cancelled its context.                                                    *)
Removed == Known /\ ~inMap => sessDone /\ (early \/ BothGone)

IInv == Opening /\ LoopsLeft /\ Waited /\ Removed

-----------------------------------------------------------------------------
(* A configured firing has a configuration.                                  *)
LEMMA ConfTyped == ASSUME conf \in Setup, NEW f \in DOMAIN conf PROVE conf[f] \in Config
BY HostSessionAssumption

(* The bounds are numbers.                                                   *)
LEMMA Bounds == /\ ChunkBuffer \in Nat \ {0} /\ StatusBuffer \in Nat \ {0}
                /\ MaxAttempts \in Nat \ {0} /\ TTYBuffer \in Nat
BY HostSessionAssumption

(* A notification that finds no room in statusCh is dropped.                 *)
LEMMA StatusTyped ==
  ASSUME status \in Seq(Status), Len(status) <= StatusBuffer, NEW st \in Status,
         status' = IF Len(status) < StatusBuffer THEN Append(status, st) ELSE status
  PROVE  status' \in Seq(Status) /\ Len(status') <= StatusBuffer
BY Bounds

(* A firing step leaves everything alone but the channels and the firings.   *)
LEMMA FiringKeepsSystem ==
  ASSUME NEW f \in Firing, fireBash(f) \/ Attempts(f) \/ Selects(f)
  PROVE  UNCHANGED <<opener, inMap, alive, pty, proc, code, tty, reader, waiter,
                     chunksClosed, statusClosed, sessDone, callerDone, req, early, crashed>>
BY DEF fireBash, Attempts, Selects, Backoff, fireBashOneShot, Lookup, Write, SelectDone,
       SelectChunk, SelectEnd, SelectStatus, sysVars, chanVars, procVars, ctxVars

-----------------------------------------------------------------------------
(* Types *)

(* TypeOK in two parts: the flags, and the rest.                             *)
Flags ==
  /\ inMap \in BOOLEAN /\ alive \in BOOLEAN /\ pty \in BOOLEAN
  /\ chunksClosed \in BOOLEAN /\ statusClosed \in BOOLEAN
  /\ sessDone \in BOOLEAN /\ callerDone \in BOOLEAN /\ early \in BOOLEAN /\ crashed \in BOOLEAN

Values ==
  /\ opener \in {"start", "published", "reading", "ready", "done", "failed"}
  /\ proc \in {"none", "run", "exited", "reaped"} /\ code \in {Killed, 0, 1}
  /\ tty \in 0..TTYBuffer
  /\ reader \in {"none", "read", "gone"}
  /\ waiter \in {"none", "wait", "close", "send", "shut", "gone"}
  /\ chunks \in 0..ChunkBuffer
  /\ status \in Seq(Status) /\ Len(status) <= StatusBuffer
  /\ req \in [Request \cup {Watcher} ->
              {"idle", "watch", "signal", "closepty", "grace", "wait", "remove", "gone"}]
  /\ conf \in Setup
  /\ fire \in [Firing -> {"idle", "exec", "lookup", "write", "select", "sleep", "ok", "err"}]
  /\ attempt \in [Firing -> 0..MaxAttempts]

LEMMA TypeParts == TypeOK <=> Flags /\ Values
BY DEF TypeOK, Flags, Values

(* The flags are only set and cleared.                                       *)
LEMMA FlagsTyped ==
  ASSUME Flags,
         \/ Opens \/ Process \/ Reads \/ Waits \/ WatcherWakes \/ CallerEnds
         \/ \E k \in Request : KillCalled(k) \/ CloseCalled(k)
         \/ \E k \in Actor : Stops(k)
  PROVE  Flags'
<1> USE DEF Flags
<1>1. CASE OpenStart
  <2>1. inMap' \in BOOLEAN /\ alive' \in BOOLEAN /\ pty' \in BOOLEAN
    BY <1>1, Zenon DEF OpenStart
  <2> QED
    BY <1>1, <2>1, Zenon DEF OpenStart, chanVars, ctxVars
<1>2. CASE OpenReadLoop
  BY <1>2, Zenon DEF OpenReadLoop, procVars, chanVars, ctxVars
<1>9. CASE OpenWaitLoop
  <2>1. crashed' \in BOOLEAN
    BY <1>9, Zenon DEF OpenWaitLoop
  <2> QED
    BY <1>9, <2>1, Zenon DEF OpenWaitLoop, procVars, chanVars, ctxVars
<1>3. CASE OpenReady
  <2>1. crashed' \in BOOLEAN
    BY <1>3, Zenon DEF OpenReady
  <2> QED
    BY <1>3, <2>1, Zenon DEF OpenReady, procVars, ctxVars
<1>4. CASE Process
  BY <1>4, Zenon DEF Process, ProcWrite, ProcExit, ProcKilled, chanVars, ctxVars
<1>5. CASE Reads
  BY <1>5, Zenon DEF Reads, ReadLine, ReadEnd, procVars, ctxVars
<1>6. CASE Waits
  BY <1>6, Zenon DEF Waits, WaitReturns, WaitClosesPty, WaitSends, WaitShuts, procVars, chanVars, ctxVars
<1>7. CASE WatcherWakes \/ CallerEnds \/ \E k \in Request : KillCalled(k) \/ CloseCalled(k)
  BY <1>7, Zenon DEF WatcherWakes, CallerEnds, KillCalled, CloseCalled, procVars, chanVars, ctxVars
<1>8. ASSUME NEW k \in Actor, Stops(k) PROVE Flags'
  <2>1. early' \in BOOLEAN
    BY <1>8, Zenon DEF Stops, Kill, ClosePty, CloseGrace, WaitLoops, Remove, WaitOver
  <2>2. sessDone' \in BOOLEAN
    BY <1>8, Zenon DEF Stops, Kill, ClosePty, CloseGrace, WaitLoops, Remove, ctxVars
  <2> QED
    BY <1>8, <2>1, <2>2, Zenon DEF Stops, Kill, ClosePty, CloseGrace, WaitLoops, Remove, procVars,
                                   chanVars, ctxVars
<1> QED
  BY <1>1, <1>2, <1>9, <1>3, <1>4, <1>5, <1>6, <1>7, <1>8 DEF Opens

ReqState == {"idle", "watch", "signal", "closepty", "grace", "wait", "remove", "gone"}

(* A request goes to a place there is.                                       *)
LEMMA ReqTyped ==
  ASSUME TypeOK, NEW k \in Actor,
         UNCHANGED req \/ \E to \in ReqState : req' = [req EXCEPT ![k] = to]
  PROVE  req' \in [Actor -> ReqState]
BY DEF TypeOK, Actor, ReqState

(* The steps of the opener, the process, the loops and the requests.         *)
LEMMA SystemTyped ==
  ASSUME TypeOK, Counted,
         \/ Opens \/ Process \/ Reads \/ Waits \/ WatcherWakes \/ CallerEnds
         \/ \E k \in Request : KillCalled(k) \/ CloseCalled(k)
         \/ \E k \in Actor : Stops(k)
  PROVE  TypeOK' /\ Counted'
<1> USE Bounds
<1>0. Flags /\ Values
  BY TypeParts
<1> USE <1>0
<1>1. ASSUME Opens PROVE Values' /\ Counted'
  <2>1. CASE OpenReady
    <3>1. status' \in Seq(Status) /\ Len(status') <= StatusBuffer
      <4>1. [kind |-> "ready", exit |-> 0] \in Status
        BY DEF Status
      <4> QED
        BY <2>1, <4>1, StatusTyped DEF OpenReady, Values
    <3>2. req' \in [Actor -> ReqState]
      BY <2>1, ReqTyped DEF OpenReady, Actor, ReqState
    <3> QED
      BY <2>1, <3>1, <3>2 DEF OpenReady, Values, Counted, Actor, ReqState, procVars, ctxVars, fireVars
  <2>2. CASE OpenStart
    BY <2>2 DEF OpenStart, Values, Counted, procVars, chanVars, ctxVars, fireVars
  <2>3. CASE OpenReadLoop \/ OpenWaitLoop
    BY <2>3 DEF OpenReadLoop, OpenWaitLoop, Values, Counted, procVars, chanVars, ctxVars, fireVars
  <2> QED
    BY <1>1, <2>1, <2>2, <2>3 DEF Opens
<1>2. ASSUME Process PROVE Values' /\ Counted'
  <2>1. code' \in {Killed, 0, 1} /\ proc' \in {"none", "run", "exited", "reaped"}
    BY <1>2 DEF Process, ProcWrite, ProcExit, ProcKilled, Values
  <2>2. tty' \in 0..TTYBuffer
    BY <1>2 DEF Process, ProcWrite, ProcExit, ProcKilled, Values, Counted
  <2>3. UNCHANGED <<opener, inMap, alive, pty, reader, waiter, chanVars, ctxVars, req, early, fireVars, crashed>>
    BY <1>2 DEF Process, ProcWrite, ProcExit, ProcKilled
  <2> QED
    BY <2>1, <2>2, <2>3 DEF Values, Counted, chanVars, ctxVars, fireVars
<1>3. ASSUME Reads PROVE Values' /\ Counted'
  BY <1>3 DEF Reads, ReadLine, ReadEnd, Values, Counted, procVars, ctxVars, fireVars
<1>4. ASSUME Waits PROVE Values' /\ Counted'
  <2>1. CASE WaitSends
    <3>1. PICK kind \in {"exited", "error"} :
            status' = IF Len(status) < StatusBuffer
                      THEN Append(status, [kind |-> kind, exit |-> code]) ELSE status
      BY <2>1 DEF WaitSends
    <3>2. [kind |-> kind, exit |-> code] \in Status
      BY DEF Values, Status
    <3>3. status' \in Seq(Status) /\ Len(status') <= StatusBuffer
      BY <3>1, <3>2, StatusTyped DEF Values
    <3>4. UNCHANGED <<opener, inMap, alive, procVars, reader, chunks, chunksClosed, statusClosed,
                      ctxVars, req, early, fireVars, crashed>> /\ waiter' = "shut"
      BY <2>1 DEF WaitSends
    <3> QED
      BY <3>3, <3>4 DEF Values, Counted, procVars, ctxVars, fireVars
  <2>2. CASE WaitReturns \/ WaitClosesPty \/ WaitShuts
    BY <2>2 DEF WaitReturns, WaitClosesPty, WaitShuts, Values, Counted, procVars, chanVars, ctxVars, fireVars
  <2> QED
    BY <1>4, <2>1, <2>2 DEF Waits
<1>5. ASSUME WatcherWakes \/ CallerEnds PROVE Values' /\ Counted'
  <2>1. req' \in [Actor -> ReqState]
    BY <1>5, ReqTyped DEF WatcherWakes, CallerEnds, At, Values, Actor, ReqState
  <2> QED
    BY <1>5, <2>1 DEF WatcherWakes, CallerEnds, Values, Counted, Actor, ReqState, procVars, chanVars,
                      ctxVars, fireVars
<1>6. ASSUME NEW k \in Request, KillCalled(k) \/ CloseCalled(k) PROVE Values' /\ Counted'
  <2>1. req' \in [Actor -> ReqState]
    BY <1>6, ReqTyped DEF KillCalled, CloseCalled, At, Actor, ReqState
  <2> QED
    BY <1>6, <2>1 DEF KillCalled, CloseCalled, Values, Counted, Actor, ReqState, procVars, chanVars,
                      ctxVars, fireVars
<1>7. ASSUME NEW k \in Actor, Stops(k) PROVE Values' /\ Counted'
  BY <1>7 DEF Stops, Kill, ClosePty, CloseGrace, WaitLoops, Remove, At, Actor, Values, Counted,
              procVars, chanVars, ctxVars, fireVars
<1> QED
  <2>1. Values' /\ Counted'
    BY <1>1, <1>2, <1>3, <1>4, <1>5, <1>6, <1>7
  <2>2. Flags'
    BY FlagsTyped
  <2> QED
    BY <2>1, <2>2 DEF TypeOK, Flags, Values

(* Where a failed attempt leaves a firing.                                   *)
LEMMA FailedTyped ==
  ASSUME TypeOK, Counted, NEW f \in Firing, f \in DOMAIN conf,
         Failed(f) \/ Goto(f, "ok") \/ Goto(f, "write") \/ Goto(f, "select") \/ UNCHANGED fire,
         UNCHANGED <<conf, attempt>>
  PROVE  /\ fire' \in [Firing -> {"idle", "exec", "lookup", "write", "select", "sleep", "ok", "err"}]
         /\ \A g \in Firing : fire'[g] # "idle" => g \in DOMAIN conf'
         /\ \A g \in Firing : fire'[g] = "sleep" => attempt'[g] < conf'[g].attempts
BY DEF TypeOK, Counted, Failed, Goto

(* doRetry counts up to MaxAttempts.                                         *)
LEMMA FiringTyped ==
  ASSUME TypeOK, Counted, NEW f \in Firing, fireBash(f) \/ Attempts(f) \/ Selects(f)
  PROVE  TypeOK' /\ Counted'
<1> USE HostSessionAssumption
<1> DEFINE FireOK ==
      /\ fire' \in [Firing -> {"idle", "exec", "lookup", "write", "select", "sleep", "ok", "err"}]
      /\ \A g \in Firing : fire'[g] # "idle" => g \in DOMAIN conf'
      /\ \A g \in Firing : fire'[g] = "sleep" => attempt'[g] < conf'[g].attempts
<1>1. UNCHANGED <<opener, inMap, alive, pty, proc, code, tty, reader, waiter,
                  chunksClosed, statusClosed, sessDone, callerDone, req, early, crashed>>
  BY FiringKeepsSystem
<1>2. conf' = conf
  BY DEF fireBash, Attempts, Selects, Backoff, fireBashOneShot, Lookup, Write, SelectDone,
         SelectChunk, SelectEnd, SelectStatus
<1>3. f \in DOMAIN conf /\ conf[f] \in Config
  <2>1. f \in DOMAIN conf
    BY DEF fireBash, Attempts, Selects, Backoff, fireBashOneShot, Lookup, Write, SelectDone,
           SelectChunk, SelectEnd, SelectStatus, Counted
  <2> QED
    BY <2>1, ConfTyped DEF TypeOK
<1>4. chunks' \in 0..ChunkBuffer
  BY DEF fireBash, Attempts, Selects, Backoff, fireBashOneShot, Lookup, Write, SelectDone,
         SelectChunk, SelectEnd, SelectStatus, chanVars, TypeOK
<1>5. status' \in Seq(Status) /\ Len(status') <= StatusBuffer
  <2>1. CASE SelectStatus(f)
    BY <2>1 DEF SelectStatus, TypeOK
  <2>2. CASE ~SelectStatus(f)
    BY <2>2 DEF fireBash, Attempts, Selects, Backoff, fireBashOneShot, Lookup, Write, SelectDone,
                SelectChunk, SelectEnd, chanVars, TypeOK
  <2> QED
    BY <2>1, <2>2
<1>6. attempt' \in [Firing -> 0..MaxAttempts] /\ FireOK
  <2>1. CASE fireBash(f)
    BY <2>1, <1>2, <1>3 DEF fireBash, Goto, TypeOK, Counted
  <2>2. CASE Backoff(f)
    <3>1. attempt[f] + 1 \in 0..MaxAttempts
      BY <2>2, <1>3 DEF Backoff, TypeOK, Counted, Config
    <3> QED
      BY <2>2, <3>1, <1>2, <1>3 DEF Backoff, Goto, TypeOK, Counted
  <2>3. CASE ~fireBash(f) /\ ~Backoff(f)
    <3>1. attempt' = attempt
      BY <2>3 DEF Attempts, Selects, fireBashOneShot, Lookup, Write, SelectDone, SelectChunk,
                  SelectEnd, SelectStatus
    <3>2. Failed(f) \/ Goto(f, "ok") \/ Goto(f, "write") \/ Goto(f, "select") \/ UNCHANGED fire
      BY <2>3 DEF Attempts, Selects, fireBashOneShot, Lookup, Write, SelectDone, SelectChunk,
                  SelectEnd, SelectStatus
    <3>3. FireOK
      BY <3>1, <3>2, <1>2, <1>3, FailedTyped
    <3> QED
      BY <3>1, <3>3 DEF TypeOK
  <2> QED
    BY <2>1, <2>2, <2>3
<1> QED
  BY <1>1, <1>2, <1>4, <1>5, <1>6 DEF TypeOK, Counted

(* Every variable keeps its type: no counter of the session, of a channel or *)
(* of doRetry leaves its bounds.                                             *)
THEOREM TypeCorrect == Spec => [](TypeOK /\ Counted)
<1>1. Init => TypeOK /\ Counted
  <2> SUFFICES ASSUME Init PROVE TypeOK /\ Counted
    OBVIOUS
  <2>1. status \in Seq(Status) /\ Len(status) <= StatusBuffer
    BY Bounds DEF Init
  <2>2. /\ attempt \in [Firing -> 0..MaxAttempts]
        /\ fire \in [Firing -> {"idle", "exec", "lookup", "write", "select", "sleep", "ok", "err"}]
        /\ \A f \in Firing : fire[f] = "idle"
    BY Bounds DEF Init
  <2>3. tty \in 0..TTYBuffer /\ chunks \in 0..ChunkBuffer
    BY Bounds DEF Init
  <2> QED
    BY <2>1, <2>2, <2>3 DEF Init, TypeOK, Counted
<1>2. TypeOK /\ Counted /\ [Next]_vars => TypeOK' /\ Counted'
  <2> SUFFICES ASSUME TypeOK, Counted, [Next]_vars PROVE TypeOK' /\ Counted'
    OBVIOUS
  <2>1. CASE UNCHANGED vars
    BY <2>1 DEF vars, procVars, chanVars, ctxVars, fireVars, TypeOK, Counted
  <2>2. ASSUME NEW f \in Firing, fireBash(f) \/ Attempts(f) \/ Selects(f) PROVE TypeOK' /\ Counted'
    BY <2>2, FiringTyped
  <2> QED
    BY <2>1, <2>2, SystemTyped DEF Next, Actor
<1> QED
  BY <1>1, <1>2, PTL DEF Spec

-----------------------------------------------------------------------------
(* RemovedIsDone *)

(* Open.  While it starts a loop the session may be out of the map already,  *)
(* but then somebody's wait ended early.                                     *)
LEMMA OpensKeep == ASSUME TypeOK, IInv, Opens PROVE IInv'
<1> USE DEF IInv, Opening, LoopsLeft, Waited, Removed, BothGone, Known
<1>1. CASE OpenStart
  BY <1>1 DEF OpenStart, chanVars, ctxVars, TypeOK
<1>2. CASE OpenReadLoop
  BY <1>2 DEF OpenReadLoop, procVars, chanVars, ctxVars, TypeOK
<1>3. CASE OpenWaitLoop
  BY <1>3 DEF OpenWaitLoop, procVars, chanVars, ctxVars, TypeOK
<1>4. CASE OpenReady
  <2>1. \A j \in Actor : req'[j] = "remove" => req[j] = "remove"
    BY <1>4 DEF OpenReady, TypeOK, Actor
  <2> QED
    BY <1>4, <2>1 DEF OpenReady, procVars, ctxVars
<1> QED
  BY <1>1, <1>2, <1>3, <1>4 DEF Opens

(* The process and both loops.                                               *)
LEMMA LoopsKeep == ASSUME TypeOK, IInv, Process \/ Reads \/ Waits PROVE IInv'
<1> USE DEF IInv, Opening, LoopsLeft, Waited, Removed, BothGone, Known
<1>1. CASE Process
  BY <1>1 DEF Process, ProcWrite, ProcExit, ProcKilled, chanVars, ctxVars
<1>2. CASE Reads
  BY <1>2 DEF Reads, ReadLine, ReadEnd, procVars, ctxVars
<1>3. CASE Waits
  BY <1>3 DEF Waits, WaitReturns, WaitClosesPty, WaitSends, WaitShuts, procVars, chanVars, ctxVars
<1> QED
  BY <1>1, <1>2, <1>3

(* sess.wg is at zero: either Open has still a loop to start, or both have   *)
(* run to their ends.                                                        *)
LEMMA WaitOverMeans == ASSUME TypeOK, Opening, Known, WaitOver PROVE early' \/ BothGone
BY DEF TypeOK, Opening, Known, WaitOver, LoopsGone, BothGone

(* Kill, Close and the watcher: only CloseGrace and WaitLoops lead to        *)
(* "remove", and both look at sess.wg.                                       *)
LEMMA StopsKeep ==
  ASSUME TypeOK, IInv,
         \/ WatcherWakes \/ \E k \in Request : KillCalled(k) \/ CloseCalled(k)
         \/ \E k \in Actor : Stops(k)
  PROVE  IInv'
<1> USE DEF IInv, Opening, LoopsLeft, Waited, Removed, BothGone, At
<1>1. ASSUME NEW k \in Actor, KillCalled(k) \/ CloseCalled(k) \/ WatcherWakes \/ Stops(k) PROVE Known
  BY <1>1 DEF KillCalled, CloseCalled, WatcherWakes, Stops, Kill, ClosePty, CloseGrace, WaitLoops, Remove, Actor
<1>2. CASE WatcherWakes
  BY <1>1, <1>2 DEF WatcherWakes, TypeOK, Actor, procVars, chanVars, ctxVars, Known
<1>3. ASSUME NEW k \in Request, KillCalled(k) \/ CloseCalled(k) PROVE IInv'
  BY <1>3 DEF KillCalled, CloseCalled, TypeOK, Actor, procVars, chanVars, ctxVars, Known
<1>4. ASSUME NEW k \in Actor, Stops(k) PROVE IInv'
  <2>1. CASE Kill(k)
    BY <1>1, <1>4, <2>1 DEF Kill, TypeOK, Actor, procVars, chanVars, Known
  <2>2. CASE ClosePty(k)
    BY <1>1, <1>4, <2>2 DEF ClosePty, TypeOK, Actor, chanVars, ctxVars, Known
  <2>3. CASE CloseGrace(k) \/ WaitLoops(k)
    <3>1. early => early'
      BY <2>3 DEF CloseGrace, WaitLoops, WaitOver
    <3>2. \A j \in Actor : req'[j] = "remove" => req[j] = "remove" \/ WaitOver
      BY <2>3 DEF CloseGrace, WaitLoops, TypeOK, Actor
    <3>3. WaitOver => early' \/ BothGone
      BY <1>1, <1>4, WaitOverMeans
    <3>4. /\ UNCHANGED <<opener, inMap, pty, proc, reader, waiter, chunksClosed, statusClosed>>
          /\ sessDone' = sessDone \/ sessDone' = TRUE
      BY <2>3 DEF CloseGrace, WaitLoops, procVars, chanVars, ctxVars
    <3> QED
      BY <1>1, <1>4, <3>1, <3>2, <3>3, <3>4 DEF Known
  <2>4. CASE Remove(k)
    BY <1>1, <1>4, <2>4 DEF Remove, TypeOK, Actor, procVars, chanVars, Known
  <2> QED
    BY <1>4, <2>1, <2>2, <2>3, <2>4 DEF Stops
<1> QED
  BY <1>2, <1>3, <1>4

(* RemovedIsDone: whichever of Kill, Close and the watcher takes the session *)
(* out of the map, its process was waited for, both loops are gone and its   *)
(* channels are closed, or the request came while Open was still starting    *)
(* the loops, and then the session's context is cancelled; for any number of *)
(* concurrent requests.                                                      *)
THEOREM RemovedIsDoneHolds == Spec => []RemovedIsDone
<1>1. Init => IInv
  BY DEF Init, IInv, Opening, LoopsLeft, Waited, Removed, Actor, Known
<1>2. TypeOK /\ IInv /\ [Next]_vars => IInv'
  <2> SUFFICES ASSUME TypeOK, IInv, [Next]_vars PROVE IInv'
    OBVIOUS
  <2> USE DEF IInv, Opening, LoopsLeft, Waited, Removed, BothGone, Known
  <2>1. CASE UNCHANGED vars
    BY <2>1 DEF vars, procVars, chanVars, ctxVars
  <2>2. CASE CallerEnds
    BY <2>2 DEF CallerEnds, procVars, chanVars
  <2>3. ASSUME NEW f \in Firing, fireBash(f) \/ Attempts(f) \/ Selects(f) PROVE IInv'
    BY <2>3, FiringKeepsSystem
  <2> QED
    BY <2>1, <2>2, <2>3, OpensKeep, LoopsKeep, StopsKeep DEF Next, Actor
<1>3. IInv => RemovedIsDone
  BY DEF IInv, LoopsLeft, Removed, RemovedIsDone, BothGone, NothingLeft
<1> QED
  BY <1>1, <1>2, <1>3, TypeCorrect, PTL DEF Spec
=============================================================================
