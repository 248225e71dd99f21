----------------------------- MODULE HostGate ------------------------------
(***************************************************************************)
(* The host gate (infra/host/gate): every command or file operation of a   *)
(* firing is judged by PolicyHostGate.Check against the current policy and *)
(* the first-run ledger, and may need a human's approval, which            *)
(* HandleRequiresHITL turns into learned or forbidden patterns.  Firings   *)
(* of all sessions share one gate, one policy and one pool of audit        *)
(* writers; an administrator swaps the policy and revokes binaries.       *)
(*                                                                         *)
(* A pattern is the set of commands it matches.  Evaluate reads the        *)
(* policy without the Holder's lock while approvals change it.  Its reads  *)
(* up to the forbidden band are one step, since the writes they race with  *)
(* commute; the later bands, the two calls of the ledger and the wait are  *)
(* steps of their own.                                                     *)
(***************************************************************************)
EXTENDS Integers, FiniteSets

CONSTANTS
  Caller,        \* concurrent firings of fireBash and fireLLM
  Wired,         \* those whose transition has a HITL channel
  Cmd,           \* operations: kind, command line, path and sandbox
  Kill,          \* operations of kind kill
  AwakeDenied,   \* commands that isIntrospectionCommand rejects
  NoSandbox,     \* operations whose sandbox runtime is not installed
  Inner,         \* what Classify matches: the script of sh -c, or the command
  Covers,        \* what the pattern made of a command line matches
  Binary,        \* files that are executed
  BinaryOf,      \* the file a command resolves to, NoBinary without one
  NoBinary,
  InitPolicy,    \* the policy file
  Policies,      \* policies an administrator may put
  MaxPatterns,   \* maxPatternsPerBucket
  QueueSize,     \* auditQueueSize
  Workers,       \* auditWorkerCount
  MaxCalls,      \* bound: operations
  MaxAnswers,    \* bound: answers of humans
  MaxEvents      \* bound: policies put, restarts, revocations, upgrades, awakenings

(* The compiled bands; hitl_patterns are classified like caution_patterns.   *)
(* nsafe, nforbidden: entries of the two lists that grow.  headroom: the     *)
(* default estimate of one CPU second fits into the session's budget.        *)
Policy == [forbidden : SUBSET Cmd, dangerous : SUBSET Cmd, caution : SUBSET Cmd,
           safe : SUBSET Cmd, nsafe : Nat, nforbidden : Nat, headroom : BOOLEAN]

(* finalize compiles a policy only if every list is within its cap.          *)
Fits(p) == p.nsafe <= MaxPatterns /\ p.nforbidden <= MaxPatterns

Approval == {"approve-once", "approve-and-remember"}
Action == Approval \cup {"deny", "deny-and-blacklist"}

ASSUME GateAssumption ==
  /\ Wired \subseteq Caller
  /\ Cmd # {} /\ Kill \subseteq Cmd /\ AwakeDenied \subseteq Cmd /\ NoSandbox \subseteq Cmd
  /\ Inner \in [Cmd -> Cmd] /\ Covers \in [Cmd -> SUBSET Cmd]
  /\ IsFiniteSet(Cmd)
  /\ NoBinary \notin Binary /\ BinaryOf \in [Cmd -> Binary \cup {NoBinary}]
  /\ MaxPatterns \in Nat
  /\ \A p \in Policies \cup {InitPolicy} : p \in Policy /\ Fits(p)
  /\ QueueSize \in Nat /\ Workers \in Nat
  /\ MaxCalls \in Nat /\ MaxAnswers \in Nat /\ MaxEvents \in Nat

Version == 1..(MaxEvents + 1)
Sum == Binary \X (0..MaxEvents)    \* contents by their SHA-256
NoSum == <<NoBinary, 0>>

Band == {"dangerous", "caution", "safe", "unknown"}
Reason == {"none", "budget", "dangerous", "first_run", "caution", "unknown"}

(* A call of the gate: its place in the code, the operation, the policy it   *)
(* holds, its decision, whether it has taken an approval, the hash, the      *)
(* context, and (history) what the gate had been told of the operation when  *)
(* it began.                                                                 *)
Call == [pc : {"idle", "bands", "record", "lookup", "await", "again", "approve", "exec"},
         cmd : Cmd, ver : Version, band : Band, reason : Reason, human : BOOLEAN,
         sum : Sum \cup {NoSum}, cancelled : BOOLEAN, remembered : BOOLEAN, barred : BOOLEAN]

Idle == [pc |-> "idle", cmd |-> CHOOSE c \in Cmd : TRUE, ver |-> 1, band |-> "unknown",
         reason |-> "none", human |-> FALSE, sum |-> NoSum, cancelled |-> FALSE,
         remembered |-> FALSE, barred |-> FALSE]

VARIABLES
  pol, cur,    \* the policies loaded so far, the one in the Holder
  disk,        \* commands remembered in the learned overlay
  row,         \* first_run_ledger: state of each SHA
  file,        \* content of each executed file
  awake,       \* the session is in awakening mode
  chan,        \* HITL channel of each caller, "" when empty
  queue,       \* audit records queued
  writing,     \* audit workers that write a record
  workers,     \* audit workers
  call,        \* the call each caller is in
  remembered,  \* commands remembered under the current policy (history)
  barred,      \* commands blacklisted under the current policy (history)
  stamped,     \* SHAs approved in the ledger at some time (history)
  granted,     \* approvals sent to each caller's channel (history)
  dangers,     \* dangerous operations each caller has run (history)
  calls, answers, events

policyVars == <<pol, cur, disk, remembered, barred>>
ledgerVars == <<row, file, stamped>>
auditVars == <<queue, writing, workers>>
counts == <<granted, dangers, calls, answers, events>>
vars == <<policyVars, ledgerVars, auditVars, awake, chan, call, counts>>

(* Every variable has its type. *)
TypeOK ==
  /\ pol \in [Version -> Policy] /\ cur \in Version /\ disk \subseteq Cmd
  /\ row \in [Sum -> {"none", "new", "approved", "revoked"}]
  /\ file \in [Binary -> 0..MaxEvents] /\ stamped \subseteq Sum
  /\ awake \in BOOLEAN /\ chan \in [Caller -> Action \cup {""}]
  /\ queue \in 0..QueueSize /\ writing \in 0..Workers /\ workers \in 0..Workers
  /\ call \in [Caller -> Call]
  /\ remembered \subseteq Cmd /\ barred \subseteq Cmd
  /\ granted \in [Caller -> Nat] /\ dangers \in [Caller -> Nat]
  /\ calls \in 0..MaxCalls /\ answers \in 0..MaxAnswers /\ events \in 0..MaxEvents
-----------------------------------------------------------------------------
(* Evaluate and Check *)

At(f, l) == call[f].pc = l
Current(f) == pol[call[f].ver]

(* auditAsync: a full queue drops the record. *)
Submit == queue' = IF queue < QueueSize THEN queue + 1 ELSE queue

(* The three ways Check returns, after auditAsync. *)
Allow(f, c) == call' = [call EXCEPT ![f] = [c EXCEPT !.pc = "exec"]] /\ Submit
Deny(f) == call' = [call EXCEPT ![f] = Idle] /\ Submit
RequireHITL(f, c, r) ==
  call' = [call EXCEPT ![f] = [c EXCEPT !.pc = "await", !.reason = r]] /\ Submit

Silent(c) == awake /\ c \in AwakeDenied

(* fireBash, or a tool call of fireLLM, asks the gate.  Awakening mode denies *)
(* silently, then kill is allowed, then forbidden_patterns deny.              *)
Check(f, c) ==
  /\ At(f, "idle") /\ calls < MaxCalls
  /\ calls' = calls + 1
  /\ LET begun == [Idle EXCEPT !.cmd = c, !.ver = cur, !.remembered = c \in remembered,
                               !.barred = c \in barred] IN
     \/ Silent(c) /\ Deny(f)
     \/ ~Silent(c) /\ c \in Kill /\ Allow(f, begun)
     \/ ~Silent(c) /\ c \notin Kill /\ Inner[c] \in pol[cur].forbidden /\ Deny(f)
     \/ /\ ~Silent(c) /\ c \notin Kill /\ Inner[c] \notin pol[cur].forbidden
        /\ call' = [call EXCEPT ![f] = [begun EXCEPT !.pc = "bands"]]
        /\ UNCHANGED queue
  /\ UNCHANGED <<policyVars, ledgerVars, writing, workers, awake, chan, granted, dangers, answers, events>>

(* Slip: the learned patterns are looked at first. *)
BandOf_SafeFirst(p, c) ==
  CASE c \in p.safe -> "safe"
    [] c \notin p.safe /\ c \in p.dangerous -> "dangerous"
    [] c \notin p.safe /\ c \notin p.dangerous /\ c \in p.caution -> "caution"
    [] OTHER -> "unknown"

(* Classify: dangerous, caution, safe, in this order. *)
BandOf(p, c) ==
  CASE c \in p.dangerous -> "dangerous"
    [] c \notin p.dangerous /\ c \in p.caution -> "caution"
    [] c \notin p.dangerous /\ c \notin p.caution /\ c \in p.safe -> "safe"
    [] OTHER -> "unknown"

(* The end of Evaluate: a caution is overruled by a safe pattern, matched    *)
(* without unwrapping; a safe command is allowed, an unknown one asks.       *)
Final(f, c) ==
  \/ c.band = "safe" /\ Allow(f, c)
  \/ c.band = "caution" /\ c.cmd \in pol[c.ver].safe /\ Allow(f, c)
  \/ c.band = "caution" /\ c.cmd \notin pol[c.ver].safe /\ RequireHITL(f, c, "caution")
  \/ c.band = "unknown" /\ RequireHITL(f, c, "unknown")

(* The budget, the sandbox and the dangerous band come before the ledger.    *)
Bands(f) ==
  /\ At(f, "bands")
  /\ LET c == [call[f] EXCEPT !.band = BandOf(Current(f), Inner[call[f].cmd])]
         p == Current(f)
     IN
     \/ ~p.headroom /\ RequireHITL(f, c, "budget")
     \/ p.headroom /\ c.cmd \in NoSandbox /\ Deny(f)
     \/ /\ p.headroom /\ c.cmd \notin NoSandbox /\ c.band = "dangerous"
        /\ RequireHITL(f, c, "dangerous")
     \/ /\ p.headroom /\ c.cmd \notin NoSandbox /\ c.band # "dangerous"
        /\ BinaryOf[c.cmd] = NoBinary /\ Final(f, c)
     \/ /\ p.headroom /\ c.cmd \notin NoSandbox /\ c.band # "dangerous"
        /\ BinaryOf[c.cmd] # NoBinary
        /\ call' = [call EXCEPT ![f] = [c EXCEPT !.pc = "record"]] /\ UNCHANGED queue
  /\ UNCHANGED <<policyVars, ledgerVars, writing, workers, awake, chan, counts>>

Content(f) == LET b == BinaryOf[call[f].cmd] IN <<b, file[b]>>

(* FirstRunStore.Record inserts a row unless there is one. *)
RecordRow(s) == row' = [row EXCEPT ![s] = IF @ = "none" THEN "new" ELSE @]

(* firstRunLookup hashes the file and records it; an error of the ledger     *)
(* skips the first-run check.                                                *)
Record(f) ==
  /\ At(f, "record")
  /\ \/ /\ RecordRow(Content(f))
        /\ call' = [call EXCEPT ![f].sum = Content(f), ![f].pc = "lookup"]
        /\ UNCHANGED queue
     \/ Final(f, call[f]) /\ UNCHANGED row
  /\ UNCHANGED <<policyVars, file, stamped, writing, workers, awake, chan, counts>>

(* Slip: a row that is not revoked is enough. *)
Lookup_Unapproved(f) ==
  /\ At(f, "lookup")
  /\ \/ row[call[f].sum] = "revoked" /\ RequireHITL(f, call[f], "first_run")
     \/ row[call[f].sum] # "revoked" /\ Final(f, call[f])
     \/ Final(f, [call[f] EXCEPT !.sum = NoSum])
  /\ UNCHANGED <<policyVars, ledgerVars, writing, workers, awake, chan, counts>>

(* GetBySHA, with the same error path. *)
Lookup(f) ==
  /\ At(f, "lookup")
  /\ \/ row[call[f].sum] # "approved" /\ RequireHITL(f, call[f], "first_run")
     \/ row[call[f].sum] = "approved" /\ Final(f, call[f])
     \/ Final(f, [call[f] EXCEPT !.sum = NoSum])
  /\ UNCHANGED <<policyVars, ledgerVars, writing, workers, awake, chan, counts>>
-----------------------------------------------------------------------------
(* HandleRequiresHITL: AwaitResponse takes what is in the channel, whenever  *)
(* it was sent.                                                              *)

Take(f, a) == At(f, "await") /\ f \in Wired /\ chan[f] = a /\ chan' = [chan EXCEPT ![f] = ""]

(* recordHITLOutcome writes its audit row at once; a first run goes back to  *)
(* the ledger.                                                               *)
Approved(f) ==
  call' = [call EXCEPT ![f].human = TRUE,
                       ![f].pc = IF call[f].reason = "first_run" THEN "again" ELSE "exec"]
Denied(f) == call' = [call EXCEPT ![f] = Idle]

ApproveOnce(f) ==
  /\ Take(f, "approve-once") /\ Approved(f)
  /\ UNCHANGED <<policyVars, ledgerVars, auditVars, awake, counts>>

DenyOnce(f) ==
  /\ Take(f, "deny") /\ Denied(f)
  /\ UNCHANGED <<policyVars, ledgerVars, auditVars, awake, counts>>

(* Slip: the pattern is kept for the file only, not compiled. *)
Remember_FileOnly(f) ==
  /\ Take(f, "approve-and-remember") /\ Approved(f)
  /\ pol' = [pol EXCEPT ![cur].nsafe = @ + 1]
  /\ remembered' = remembered \cup {call[f].cmd}
  /\ disk' \in {disk, disk \cup {call[f].cmd}}
  /\ UNCHANGED <<cur, barred, ledgerVars, auditVars, awake, counts>>

(* AppendLearnedSafePattern: into the policy that is current now, compiled   *)
(* without a look at the cap; a failed write of the overlay is logged.       *)
Remember(f) ==
  /\ Take(f, "approve-and-remember") /\ Approved(f)
  /\ pol' = [pol EXCEPT ![cur].safe = @ \cup Covers[call[f].cmd], ![cur].nsafe = @ + 1]
  /\ remembered' = remembered \cup {call[f].cmd}
  /\ disk' \in {disk, disk \cup {call[f].cmd}}
  /\ UNCHANGED <<cur, barred, ledgerVars, auditVars, awake, counts>>

(* Slip: the list grows, finalize is forgotten. *)
Blacklist_NotFinal(f) ==
  /\ Take(f, "deny-and-blacklist") /\ Denied(f)
  /\ pol' = [pol EXCEPT ![cur].nforbidden = @ + 1]
  /\ barred' = barred \cup {call[f].cmd}
  /\ UNCHANGED <<cur, disk, remembered, ledgerVars, auditVars, awake, counts>>

(* blacklist: in memory only.  The list has grown when finalize refuses to   *)
(* compile a policy over its caps.                                           *)
Blacklist(f) ==
  /\ Take(f, "deny-and-blacklist") /\ Denied(f)
  /\ LET p == [pol[cur] EXCEPT !.nforbidden = @ + 1] IN
     pol' = [pol EXCEPT ![cur] =
               IF Fits(p) THEN [p EXCEPT !.forbidden = @ \cup Covers[call[f].cmd]] ELSE p]
  /\ barred' = barred \cup {call[f].cmd}
  /\ UNCHANGED <<cur, disk, remembered, ledgerVars, auditVars, awake, counts>>

(* Slip: the wait ignores the context. *)
AwaitCancelled_Never(f) == f \notin Caller /\ UNCHANGED vars

(* Without a channel, the context's end is all there is to wait for.         *)
AwaitCancelled(f) ==
  /\ At(f, "await") /\ call[f].cancelled /\ Denied(f)
  /\ UNCHANGED <<policyVars, ledgerVars, auditVars, awake, chan, counts>>

(* A first run is approved for what the file holds now; the calls of the     *)
(* ledger may fail and nothing comes of it.                                  *)
RecordAgain(f) ==
  /\ At(f, "again")
  /\ \/ /\ RecordRow(Content(f))
        /\ call' = [call EXCEPT ![f].sum = Content(f), ![f].pc = "approve"]
     \/ call' = [call EXCEPT ![f].pc = "exec"] /\ UNCHANGED row
  /\ UNCHANGED <<policyVars, file, stamped, auditVars, awake, chan, counts>>

Approve(f) ==
  /\ At(f, "approve")
  /\ \/ /\ row' = [row EXCEPT ![call[f].sum] = "approved"]
        /\ stamped' = stamped \cup {call[f].sum}
     \/ UNCHANGED <<row, stamped>>
  /\ call' = [call EXCEPT ![f].pc = "exec"]
  /\ UNCHANGED <<policyVars, file, auditVars, awake, chan, counts>>

(* What the policy a call was judged by says of the script or command.       *)
Dangerous(c) == Inner[c.cmd] \in pol[c.ver].dangerous /\ c.cmd \notin Kill

(* The operation runs, and the firing goes on. *)
Exec(f) ==
  /\ At(f, "exec")
  /\ call' = [call EXCEPT ![f] = Idle]
  /\ dangers' = IF Dangerous(call[f]) THEN [dangers EXCEPT ![f] = @ + 1] ELSE dangers
  /\ UNCHANGED <<policyVars, ledgerVars, auditVars, awake, chan, granted, calls, answers, events>>
-----------------------------------------------------------------------------
(* The audit pool *)

TakeJob ==
  /\ queue > 0 /\ writing < workers
  /\ queue' = queue - 1 /\ writing' = writing + 1
  /\ UNCHANGED <<policyVars, ledgerVars, workers, awake, chan, call, counts>>

(* The row is inserted, or the error logged. *)
JobDone ==
  /\ writing > 0
  /\ writing' = writing - 1
  /\ UNCHANGED <<policyVars, ledgerVars, queue, workers, awake, chan, call, counts>>
-----------------------------------------------------------------------------
(* The environment *)

(* A response of a human, at any time the channel has room. *)
Answer(f, a) ==
  /\ f \in Wired /\ chan[f] = "" /\ answers < MaxAnswers
  /\ chan' = [chan EXCEPT ![f] = a]
  /\ answers' = answers + 1
  /\ granted' = IF a \in Approval THEN [granted EXCEPT ![f] = @ + 1] ELSE granted
  /\ UNCHANGED <<policyVars, ledgerVars, auditVars, awake, call, dangers, calls, events>>

(* The firing's context ends; of the steps that look at it, the calls of the *)
(* ledger may fail anyway, so the wait is what matters.                      *)
Cancel(f) ==
  /\ At(f, "await") /\ ~call[f].cancelled
  /\ call' = [call EXCEPT ![f].cancelled = TRUE]
  /\ UNCHANGED <<policyVars, ledgerVars, auditVars, awake, chan, counts>>

(* HandleHostPolicyPut: the document is compiled first, then the pointer     *)
(* swapped.                                                                  *)
Put(p) ==
  /\ events < MaxEvents /\ events' = events + 1
  /\ cur' = cur + 1
  /\ pol' = [pol EXCEPT ![cur + 1] = p]
  /\ remembered' = {} /\ barred' = {}
  /\ UNCHANGED <<disk, ledgerVars, auditVars, awake, chan, call, granted, dangers, calls, answers>>

(* HandleFirstRunRevoke. *)
Revoke(s) ==
  /\ row[s] \in {"new", "approved"} /\ events < MaxEvents
  /\ row' = [row EXCEPT ![s] = "revoked"]
  /\ events' = events + 1
  /\ UNCHANGED <<policyVars, file, stamped, auditVars, awake, chan, call, granted, dangers, calls, answers>>

(* A file is replaced, say by a package upgrade. *)
Upgrade(b) ==
  /\ events < MaxEvents /\ events' = events + 1
  /\ file' = [file EXCEPT ![b] = @ + 1]
  /\ UNCHANGED <<policyVars, row, stamped, auditVars, awake, chan, call, granted, dangers, calls, answers>>

(* AwakeningModeRegistry.Begin and End, around the awakening's Run. *)
AwakenBegin ==
  /\ ~awake
  /\ events < MaxEvents /\ events' = events + 1
  /\ awake' = TRUE
  /\ UNCHANGED <<policyVars, ledgerVars, auditVars, chan, call, granted, dangers, calls, answers>>

AwakenEnd ==
  /\ awake
  /\ awake' = FALSE
  /\ UNCHANGED <<policyVars, ledgerVars, auditVars, chan, call, counts>>

(* MergeLearnedFromFile: the overlay's patterns are in the list even if      *)
(* finalize then refuses to compile them.                                    *)
Loaded ==
  LET p == [InitPolicy EXCEPT !.nsafe = @ + Cardinality(disk)] IN
  IF Fits(p) THEN [p EXCEPT !.safe = @ \cup UNION {Covers[c] : c \in disk}] ELSE p

(* The server stops and starts again. *)
Restart ==
  /\ events < MaxEvents /\ events' = events + 1
  /\ cur' = cur + 1
  /\ pol' = [pol EXCEPT ![cur + 1] = Loaded]
  /\ remembered' = disk /\ barred' = {}
  /\ queue' = 0 /\ writing' = 0 /\ workers' = Workers
  /\ call' = [f \in Caller |-> Idle] /\ chan' = [f \in Caller |-> ""]
  /\ awake' = FALSE
  /\ UNCHANGED <<disk, ledgerVars, granted, dangers, calls, answers>>

Init ==
  /\ pol = [v \in Version |-> InitPolicy] /\ cur = 1 /\ disk = {}
  /\ row = [s \in Sum |-> "none"] /\ file = [b \in Binary |-> 0] /\ stamped = {}
  /\ awake = FALSE /\ chan = [f \in Caller |-> ""]
  /\ queue = 0 /\ writing = 0 /\ workers = Workers
  /\ call = [f \in Caller |-> Idle]
  /\ remembered = {} /\ barred = {}
  /\ granted = [f \in Caller |-> 0] /\ dangers = [f \in Caller |-> 0]
  /\ calls = 0 /\ answers = 0 /\ events = 0

Step(f) ==
  \/ Bands(f) \/ Record(f) \/ Lookup(f)
  \/ ApproveOnce(f) \/ DenyOnce(f) \/ Remember(f) \/ Blacklist(f) \/ AwaitCancelled(f)
  \/ RecordAgain(f) \/ Approve(f) \/ Exec(f)

Next ==
  \/ \E f \in Caller : \/ Step(f) \/ Cancel(f)
                       \/ \E c \in Cmd : Check(f, c)
                       \/ \E a \in Action : Answer(f, a)
  \/ TakeJob \/ JobDone
  \/ \E p \in Policies : Put(p)
  \/ \E s \in Sum : Revoke(s)
  \/ \E b \in Binary : Upgrade(b)
  \/ AwakenBegin \/ AwakenEnd \/ Restart

Spec == Init /\ [][Next]_vars

(* Firings and audit workers go on, and an insert ends within its timeout.   *)
Fairness == (\A f \in Caller : WF_vars(Step(f))) /\ WF_vars(TakeJob) /\ WF_vars(JobDone)

FairSpec == Spec /\ Fairness
-----------------------------------------------------------------------------
(* Evaluate's order of bands, whatever humans told the gate to remember: of  *)
(* the commands that are dangerous under the policy they were judged by, a   *)
(* firing runs at most one for every approval that humans have given it.     *)
(* Which question an approval was meant for is not certain: the channel      *)
(* keeps one that came late, or early, for the next call.                    *)
DangerAsked == \A f \in Caller : dangers[f] <= granted[f]

(* A command line that the pattern made of it matches, also unwrapped. *)
Plain(c) == Inner[c] = c /\ c \in Covers[c]

(* deny-and-blacklist: a call that begins after its command was blacklisted, *)
(* under the same policy, does not run, even if the command is remembered as *)
(* safe and a human would approve; unless approvals have pushed a list over  *)
(* its cap.  (The script of a blacklisted sh -c is judged by its own         *)
(* patterns.)                                                                *)
BlacklistHolds ==
  \A f \in Caller :
    At(f, "exec") /\ call[f].barred /\ Plain(call[f].cmd) /\ call[f].cmd \notin Kill =>
      ~Fits(Current(f))

(* approve-and-remember: a call that begins after its command was            *)
(* remembered, under the same policy or one loaded with the overlay, asks no *)
(* more about the command line itself, only about danger, budget or a binary.*)
RememberSticks ==
  \A f \in Caller :
    At(f, "await") /\ call[f].remembered /\ Plain(call[f].cmd) /\ Fits(Current(f)) =>
      call[f].reason \notin {"caution", "unknown"}

(* firstRunLookup: when the ledger answers, a binary runs unasked only if    *)
(* its content as hashed for this call was approved at some time; a replaced *)
(* file is asked about again.                                                *)
UnaskedIsKnown ==
  \A f \in Caller :
    At(f, "exec") /\ ~call[f].human /\ call[f].sum # NoSum => call[f].sum \in stamped

(* The end of the caller's context ends the call, also a wait for an answer  *)
(* that never comes or has no channel.                                       *)
CancelEndsCall == \A f \in Caller : call[f].cancelled ~> At(f, "idle")

=============================================================================
