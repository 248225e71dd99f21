---------------------------- MODULE HostSession ----------------------------
(***************************************************************************)
(* A PTY session of the host (infra/host/session_manager.go) and the bash  *)
(* transitions that use it (cpn/fire_bash.go).  Open starts a process and  *)
(* leaves three goroutines behind: readLoop sends the output to a bounded  *)
(* channel, waitLoop waits for the process and closes the PTY and the      *)
(* status channel, and a watcher kills the session when the caller's       *)
(* context ends.  Firings of bash transitions read both channels; Kill and *)
(* Close may come at any time, several at once.  A bash transition without *)
(* a session runs its command through OSHostAdapter.Exec.                  *)
(*                                                                         *)
(* Lines of output are only counted.  The gate's decision before a firing  *)
(* is module HostGate's, the circuit breaker of doRetry module             *)
(* CircuitBreaker's; the events of emitProcessEvent are left out.          *)
(***************************************************************************)
EXTENDS Integers, Sequences, FiniteSets

CONSTANTS
  Firing,        \* firings of bash transitions
  Setup,         \* which of them there may be, and their configurations
  Request,       \* requests to Kill or Close the session
  Watcher,       \* the watcher, which is a request too
  ChunkBuffer,   \* sessionChunkBuffer
  StatusBuffer,  \* capacity of statusCh
  MaxAttempts,   \* bound: RetryPolicy.MaxAttempts of the transitions
  TTYBuffer      \* bound: lines the terminal holds before its writer blocks

(* What a transition may be configured with: the colour of its output place, *)
(* AllowNonZeroExit, whether BashConfig.SessionID is set, and the attempts.  *)
Config == [color : {"chunk", "result"}, allow : BOOLEAN, session : BOOLEAN, attempts : 1..MaxAttempts]

ASSUME HostSessionAssumption ==
  /\ IsFiniteSet(Firing) /\ Setup \subseteq UNION {[F -> Config] : F \in SUBSET Firing}
  /\ Watcher \notin Request
  /\ ChunkBuffer \in Nat \ {0} /\ StatusBuffer \in Nat \ {0}
  /\ MaxAttempts \in Nat \ {0} /\ TTYBuffer \in Nat

Killed == -1

VARIABLES
  opener,        \* openWithEmitConfig
  inMap,         \* the session is in m.sessions
  alive,         \* bashSession.alive
  pty,           \* the PTY master is open
  proc, code,    \* the process and its exit code
  tty,           \* number of lines written that nobody has read
  reader,        \* readLoop
  waiter,        \* waitLoop
  chunks, chunksClosed,   \* chunkCh
  status, statusClosed,   \* statusCh
  sessDone,      \* sessCtx is cancelled
  callerDone,    \* the context of Open's caller is done
  req,           \* where each Kill or Close is
  early,         \* a wait for the loops ended before Open had started both (history)
  conf,          \* configuration of each firing
  fire,          \* where each firing is
  attempt,       \* doRetry's attempt
  crashed        \* a goroutine panicked: the server is gone

procVars == <<pty, proc, code, tty>>
chanVars == <<chunks, chunksClosed, status, statusClosed>>
ctxVars == <<sessDone, callerDone>>
fireVars == <<conf, fire, attempt>>
vars == <<opener, inMap, alive, procVars, reader, waiter, chanVars, ctxVars, req, early, fireVars, crashed>>

Status == [kind : {"ready", "exited", "error"}, exit : {Killed, 0, 1}]

TypeOK ==
  /\ opener \in {"start", "published", "reading", "ready", "done", "failed"}
  /\ inMap \in BOOLEAN /\ alive \in BOOLEAN /\ pty \in BOOLEAN
  /\ proc \in {"none", "run", "exited", "reaped"} /\ code \in {Killed, 0, 1}
  /\ tty \in 0..TTYBuffer
  /\ reader \in {"none", "read", "gone"}
  /\ waiter \in {"none", "wait", "close", "send", "shut", "gone"}
  /\ chunks \in 0..ChunkBuffer
  /\ status \in Seq(Status) /\ Len(status) <= StatusBuffer
  /\ chunksClosed \in BOOLEAN /\ statusClosed \in BOOLEAN
  /\ sessDone \in BOOLEAN /\ callerDone \in BOOLEAN
  /\ req \in [Request \cup {Watcher} ->
              {"idle", "watch", "signal", "closepty", "grace", "wait", "remove", "gone"}]
  /\ early \in BOOLEAN
  /\ conf \in Setup
  /\ fire \in [Firing -> {"idle", "exec", "lookup", "write", "select", "sleep", "ok", "err"}]
  /\ attempt \in [Firing -> 0..MaxAttempts]
  /\ crashed \in BOOLEAN

Init ==
  /\ opener = "start" /\ inMap = FALSE /\ alive = FALSE
  /\ pty = FALSE /\ proc = "none" /\ code = 0 /\ tty = 0
  /\ reader = "none" /\ waiter = "none"
  /\ chunks = 0 /\ chunksClosed = FALSE /\ status = <<>> /\ statusClosed = FALSE
  /\ sessDone = FALSE /\ callerDone = FALSE
  /\ req = [k \in Request \cup {Watcher} |-> "idle"] /\ early = FALSE
  /\ conf \in Setup
  /\ fire = [f \in Firing |-> "idle"] /\ attempt = [f \in Firing |-> 0]
  /\ crashed = FALSE
-----------------------------------------------------------------------------
(* Open *)

(* Under m.mu: pty.Start, and the session enters the map.  From here on its  *)
(* ID can be known, from List and from EventProcessStarted.                  *)
OpenStart ==
  /\ opener = "start"
  /\ \/ /\ opener' = "published"
        /\ inMap' = TRUE /\ alive' = TRUE /\ pty' = TRUE /\ proc' = "run"
     \/ /\ opener' = "failed"
        /\ UNCHANGED <<inMap, alive, pty, proc>>
  /\ UNCHANGED <<code, tty, reader, waiter, chanVars, ctxVars, req, early, fireVars, crashed>>

OpenReadLoop ==
  /\ opener = "published"
  /\ opener' = "reading"
  /\ reader' = "read"
  /\ UNCHANGED <<inMap, alive, procVars, waiter, chanVars, ctxVars, req, early, fireVars, crashed>>

(* When the reader has gone already, wg.Add may meet a Wait that has not     *)
(* returned yet: sync.WaitGroup panics.                                      *)
OpenWaitLoop ==
  /\ opener = "reading"
  /\ opener' = "ready"
  /\ waiter' = "wait"
  /\ crashed' \in {FALSE, reader = "gone" /\ \E k \in Request : req[k] \in {"grace", "wait"}}
  /\ UNCHANGED <<inMap, alive, procVars, reader, chanVars, ctxVars, req, early, fireVars>>

(* The ready notification: a send on a channel that waitLoop may have closed *)
(* already panics, in a select with a default too.                           *)
OpenReady ==
  /\ opener = "ready"
  /\ opener' = "done"
  /\ IF statusClosed THEN crashed' = TRUE /\ UNCHANGED <<status, req>>
     ELSE /\ status' = IF Len(status) < StatusBuffer
                       THEN Append(status, [kind |-> "ready", exit |-> 0]) ELSE status
          /\ req' = [req EXCEPT ![Watcher] = "watch"]
          /\ UNCHANGED crashed
  /\ UNCHANGED <<inMap, alive, procVars, reader, waiter, chunks, chunksClosed, statusClosed, ctxVars, early, fireVars>>
-----------------------------------------------------------------------------
(* The process (external) *)

ProcWrite ==
  /\ proc = "run" /\ pty /\ tty < TTYBuffer
  /\ tty' = tty + 1
  /\ UNCHANGED <<opener, inMap, alive, pty, proc, code, reader, waiter, chanVars, ctxVars, req, early, fireVars, crashed>>

ProcExit ==
  /\ proc = "run"
  /\ proc' = "exited"
  /\ code' \in {0, 1}
  /\ UNCHANGED <<opener, inMap, alive, pty, tty, reader, waiter, chanVars, ctxVars, req, early, fireVars, crashed>>

(* SIGKILL, from Kill or from exec.CommandContext: both cancel sessCtx.       *)
ProcKilled ==
  /\ proc = "run" /\ sessDone
  /\ proc' = "exited" /\ code' = Killed
  /\ UNCHANGED <<opener, inMap, alive, pty, tty, reader, waiter, chanVars, ctxVars, req, early, fireVars, crashed>>
-----------------------------------------------------------------------------
(* readLoop and waitLoop *)

(* A line is read, from the PTY or, once it is closed, from the buffer of    *)
(* the reader; a full channel drops it.                                      *)
ReadLine ==
  /\ reader = "read" /\ tty > 0
  /\ tty' = tty - 1
  /\ chunks' = IF chunks < ChunkBuffer THEN chunks + 1 ELSE chunks
  /\ UNCHANGED <<opener, inMap, alive, pty, proc, code, reader, waiter, chunksClosed, status,
                 statusClosed, ctxVars, req, early, fireVars, crashed>>

(* An error ends the loop: the PTY was closed, whatever is unread, or the    *)
(* process is gone and everything was read.  chunkCh is closed, then Done.   *)
ReadEnd ==
  /\ reader = "read"
  /\ ~pty \/ (tty = 0 /\ proc \in {"exited", "reaped"})
  /\ reader' = "gone"
  /\ chunksClosed' = TRUE
  /\ UNCHANGED <<opener, inMap, alive, procVars, waiter, chunks, status, statusClosed, ctxVars, req,
                 early, fireVars, crashed>>

(* cmd.Wait returns; the session is no longer alive.                         *)
WaitReturns ==
  /\ waiter = "wait" /\ proc = "exited"
  /\ proc' = "reaped" /\ alive' = FALSE
  /\ waiter' = "close"
  /\ UNCHANGED <<opener, inMap, pty, code, tty, reader, chanVars, ctxVars, req, early, fireVars, crashed>>

WaitClosesPty ==
  /\ waiter = "close"
  /\ pty' = FALSE
  /\ waiter' = "send"
  /\ UNCHANGED <<opener, inMap, alive, proc, code, tty, reader, chanVars, ctxVars, req, early, fireVars, crashed>>

(* The terminal status: a clean exit after a cancel is reported as an error, *)
(* because Wait then returns the context's.                                  *)
WaitSends ==
  /\ waiter = "send"
  /\ \E kind \in {"exited"} \cup (IF code = 0 /\ sessDone THEN {"error"} ELSE {}) :
       status' = IF Len(status) < StatusBuffer
                 THEN Append(status, [kind |-> kind, exit |-> code]) ELSE status
  /\ waiter' = "shut"
  /\ UNCHANGED <<opener, inMap, alive, procVars, reader, chunks, chunksClosed, statusClosed, ctxVars, req,
                 early, fireVars, crashed>>

WaitShuts ==
  /\ waiter = "shut"
  /\ statusClosed' = TRUE
  /\ waiter' = "gone"
  /\ UNCHANGED <<opener, inMap, alive, procVars, reader, chunks, chunksClosed, status, ctxVars, req,
                 early, fireVars, crashed>>

(* sess.wg is at zero: each loop is gone, or Open has not started it yet.    *)
LoopsGone == reader \in {"none", "gone"} /\ waiter \in {"none", "gone"}
-----------------------------------------------------------------------------
(* Kill and Close *)

(* sess.wg.Wait returns.                                                     *)
WaitOver == LoopsGone /\ early' = (early \/ opener \in {"published", "reading"})

At(k, from, to) == req[k] = from /\ req' = [req EXCEPT ![k] = to]

(* The session's ID can be known: it is in the map, whether or not Open has  *)
(* returned.                                                                 *)
Known == opener \notin {"start", "failed"}

KillCalled(k) ==
  /\ Known /\ At(k, "idle", IF inMap THEN "signal" ELSE "gone")
  /\ UNCHANGED <<opener, inMap, alive, procVars, reader, waiter, chanVars, ctxVars, early, fireVars, crashed>>

CloseCalled(k) ==
  /\ Known /\ At(k, "idle", IF inMap THEN "closepty" ELSE "gone")
  /\ UNCHANGED <<opener, inMap, alive, procVars, reader, waiter, chanVars, ctxVars, early, fireVars, crashed>>

(* The watcher calls Kill when the caller's context is done, and goes when   *)
(* the session's is.                                                         *)
WatcherWakes ==
  /\ \/ callerDone /\ At(Watcher, "watch", IF inMap THEN "signal" ELSE "gone")
     \/ sessDone /\ At(Watcher, "watch", "gone")
  /\ UNCHANGED <<opener, inMap, alive, procVars, reader, waiter, chanVars, ctxVars, early, fireVars, crashed>>

Kill(k) ==
  /\ At(k, "signal", "wait")
  /\ sessDone' = TRUE
  /\ UNCHANGED <<opener, inMap, alive, procVars, reader, waiter, chanVars, callerDone, early, fireVars, crashed>>

ClosePty(k) ==
  /\ At(k, "closepty", "grace")
  /\ pty' = FALSE
  /\ UNCHANGED <<opener, inMap, alive, proc, code, tty, reader, waiter, chanVars, ctxVars, early, fireVars, crashed>>

(* Slip: once the grace period is over, nobody waits for the loops. *)
CloseGrace_NoWait(k) ==
  /\ \/ WaitOver /\ At(k, "grace", "remove") /\ UNCHANGED sessDone
     \/ At(k, "grace", "remove") /\ sessDone' = TRUE /\ UNCHANGED early
  /\ UNCHANGED <<opener, inMap, alive, procVars, reader, waiter, chanVars, callerDone, fireVars, crashed>>

(* Both loops end by themselves, or two seconds or the request's context are *)
(* over and the session's context is cancelled.                              *)
CloseGrace(k) ==
  /\ \/ WaitOver /\ At(k, "grace", "remove") /\ UNCHANGED sessDone
     \/ At(k, "grace", "wait") /\ sessDone' = TRUE /\ UNCHANGED early
  /\ UNCHANGED <<opener, inMap, alive, procVars, reader, waiter, chanVars, callerDone, fireVars, crashed>>

WaitLoops(k) ==
  /\ WaitOver
  /\ At(k, "wait", "remove")
  /\ UNCHANGED <<opener, inMap, alive, procVars, reader, waiter, chanVars, ctxVars, fireVars, crashed>>

(* Close cancels the session's context in any case.                          *)
Remove(k) ==
  /\ At(k, "remove", "gone")
  /\ inMap' = FALSE /\ sessDone' = TRUE
  /\ UNCHANGED <<opener, alive, procVars, reader, waiter, chanVars, callerDone, early, fireVars, crashed>>
-----------------------------------------------------------------------------
(* Firings of bash transitions *)

sysVars == <<opener, inMap, alive, procVars, reader, waiter, ctxVars, req, early, crashed>>

(* The context of Open's caller ends.                                        *)
CallerEnds ==
  /\ ~callerDone
  /\ callerDone' = TRUE
  /\ UNCHANGED <<opener, inMap, alive, procVars, reader, waiter, chanVars, sessDone, req,
                 early, fireVars, crashed>>

Goto(f, pc) == fire' = [fire EXCEPT ![f] = pc]

(* doRetry: a failed attempt is the last, because of RetryOn or of           *)
(* MaxAttempts, or the firing sleeps.                                        *)
Failed(f) == \/ Goto(f, "err")
             \/ attempt[f] < conf[f].attempts /\ Goto(f, "sleep")

(* depositAll: the output place takes tokens of one colour, and whatever it  *)
(* took stays there when the attempt then fails.                             *)
depositAll(f, color) == conf[f].color = color

fireBash(f) ==
  /\ fire[f] = "idle" /\ f \in DOMAIN conf /\ (conf[f].session => Known)
  /\ Goto(f, IF conf[f].session THEN "lookup" ELSE "exec")
  /\ attempt' = [attempt EXCEPT ![f] = 1]
  /\ UNCHANGED <<sysVars, chanVars, conf>>

(* The next attempt, or the firing's context ended during the backoff.       *)
Backoff(f) ==
  /\ fire[f] = "sleep"
  /\ \/ /\ Goto(f, IF conf[f].session THEN "lookup" ELSE "exec")
        /\ attempt' = [attempt EXCEPT ![f] = @ + 1]
     \/ Goto(f, "err") /\ UNCHANGED attempt
  /\ UNCHANGED <<sysVars, chanVars, conf>>

(* guard: a path traversal, or a command of the deny list, is refused; the   *)
(* command is not modelled, so it may be either.                             *)
guard == BOOLEAN

(* OSHostAdapter.Exec, and whether it fails: refused by guard, a timeout, an *)
(* unknown command, or a non-zero exit that is not allowed.                  *)
Exec(f) ==
  {refused \/ broken \/ (exit # 0 /\ ~conf[f].allow) :
     refused \in guard, broken \in BOOLEAN, exit \in {0, 1}}

(* One command, no session: streamed or not, a chunk for every line and then *)
(* the result.                                                               *)
fireBashOneShot(f) ==
  /\ fire[f] = "exec"
  /\ \E failed \in Exec(f), lines \in 0..1 :
       IF ~failed /\ (lines > 0 => depositAll(f, "chunk")) /\ depositAll(f, "result")
       THEN Goto(f, "ok") ELSE Failed(f)
  /\ UNCHANGED <<sysVars, chanVars, conf, attempt>>

(* Chunks and Status, in two lookups that nothing separates but a lock.      *)
Lookup(f) ==
  /\ fire[f] = "lookup"
  /\ IF inMap THEN Goto(f, "write") ELSE Failed(f)
  /\ UNCHANGED <<sysVars, chanVars, conf, attempt>>

(* Stdin, if any, goes to a session that is still there, alive and open.     *)
Write(f) ==
  /\ fire[f] = "write"
  /\ \/ Goto(f, "select")
     \/ ~(inMap /\ alive /\ pty /\ proc = "run") /\ Failed(f)
  /\ UNCHANGED <<sysVars, chanVars, conf, attempt>>

(* The select of fireBashSession: one action for each case.                  *)

SelectDone(f) ==
  /\ fire[f] = "select"
  /\ Failed(f)
  /\ UNCHANGED <<sysVars, chanVars, conf, attempt>>

SelectChunk(f) ==
  /\ fire[f] = "select" /\ chunks > 0
  /\ chunks' = chunks - 1
  /\ IF depositAll(f, "chunk") THEN UNCHANGED fire ELSE Failed(f)
  /\ UNCHANGED <<sysVars, chunksClosed, status, statusClosed, conf, attempt>>

(* Slip: the closed chunk channel is skipped like the closed status channel. *)
SelectEnd_Skip(f) ==
  /\ fire[f] = "select" /\ chunks = 0 /\ chunksClosed
  /\ UNCHANGED <<sysVars, chanVars, fireVars>>

(* The chunk channel is closed: a result with exit code 0, whatever the      *)
(* process returned.                                                         *)
SelectEnd(f) ==
  /\ fire[f] = "select" /\ chunks = 0 /\ chunksClosed
  /\ IF depositAll(f, "result") THEN Goto(f, "ok") ELSE Failed(f)
  /\ UNCHANGED <<sysVars, chanVars, conf, attempt>>

(* A status; on a terminal one the result is deposited, even when the firing *)
(* then fails.  On a closed and empty channel the loop only spins.           *)
SelectStatus(f) ==
  /\ fire[f] = "select" /\ status # <<>>
  /\ status' = Tail(status)
  /\ LET st == Head(status)
     IN  IF st.kind = "ready" THEN UNCHANGED fire
         ELSE IF depositAll(f, "result") /\ st.kind = "exited" /\ (st.exit = 0 \/ conf[f].allow)
              THEN Goto(f, "ok") ELSE Failed(f)
  /\ UNCHANGED <<sysVars, chunks, chunksClosed, statusClosed, conf, attempt>>
-----------------------------------------------------------------------------
Opens == OpenStart \/ OpenReadLoop \/ OpenWaitLoop \/ OpenReady
Process == ProcWrite \/ ProcExit \/ ProcKilled
Reads == ReadLine \/ ReadEnd
Waits == WaitReturns \/ WaitClosesPty \/ WaitSends \/ WaitShuts
Stops(k) == Kill(k) \/ ClosePty(k) \/ CloseGrace(k) \/ WaitLoops(k) \/ Remove(k)
Attempts(f) == Backoff(f) \/ fireBashOneShot(f) \/ Lookup(f) \/ Write(f)
Selects(f) == SelectDone(f) \/ SelectChunk(f) \/ SelectEnd(f) \/ SelectStatus(f)

Next ==
  /\ ~crashed
  /\ \/ Opens \/ Process \/ Reads \/ Waits \/ WatcherWakes \/ CallerEnds
     \/ \E k \in Request : KillCalled(k) \/ CloseCalled(k)
     \/ \E k \in Request \cup {Watcher} : Stops(k)
     \/ \E f \in Firing : fireBash(f) \/ Attempts(f) \/ Selects(f)

Spec == Init /\ [][Next]_vars

(* Every goroutine goes on, a killed process dies, and a select that keeps   *)
(* finding the chunk channel closed takes that case in the end, however      *)
(* often the closed status channel is chosen.                                *)
FairSpec ==
  /\ Spec
  /\ WF_vars(~crashed /\ Opens) /\ WF_vars(~crashed /\ ProcKilled)
  /\ WF_vars(~crashed /\ Reads) /\ WF_vars(~crashed /\ Waits)
  /\ WF_vars(~crashed /\ WatcherWakes)
  /\ \A k \in Request \cup {Watcher} : WF_vars(~crashed /\ Stops(k))
  /\ \A f \in Firing :
       /\ WF_vars(~crashed /\ Attempts(f))
       /\ WF_vars(~crashed /\ SelectChunk(f)) /\ WF_vars(~crashed /\ SelectEnd(f))
       /\ WF_vars(~crashed /\ SelectStatus(f))
-----------------------------------------------------------------------------
(* Nothing of the session is left: the process was waited for, both loops    *)
(* are gone and nobody will send on its channels again.                      *)
NothingLeft ==
  reader = "gone" /\ waiter = "gone" /\ proc = "reaped" /\ ~pty /\ chunksClosed /\ statusClosed

(* Kill and Close ("waits for the process to exit, and releases resources"): *)
(* a session leaves the manager's map only when nothing of it is left,       *)
(* whichever of Kill, Close and the watcher came first and however many of   *)
(* them run at once; unless one of them found sess.wg at zero because Open,  *)
(* which puts the session into the map first, had not started both loops.    *)
(* Then at least the session's context is cancelled, which kills what Open   *)
(* starts.                                                                   *)
RemovedIsDone == Known /\ ~inMap => sessDone /\ (early \/ NothingLeft)

(* The session dies with its caller ("so the session dies with the caller"): *)
(* nothing of it stays, in the map or out of it, also when it was removed    *)
(* while Open was under way, and no firing that was waiting for its output   *)
(* waits for ever; or the server is gone.                                    *)
EndsWithCaller ==
  callerDone ~> \/ crashed
                \/ /\ ~inMap /\ (opener = "failed" \/ (opener = "done" /\ NothingLeft))
                   /\ \A f \in Firing : fire[f] \in {"idle", "ok", "err"}
=============================================================================
