-------------------------- MODULE HostGateProofs ---------------------------
(***************************************************************************)
(* The safety properties of the host gate, for any number of firings,      *)
(* commands, policies and restarts.  The argument: within one loaded       *)
(* policy the dangerous patterns never change and the other bands and the  *)
(* lists only grow, so what Evaluate found out about a call remains true   *)
(* while the call goes on, whoever approves, blacklists or swaps the       *)
(* policy meanwhile.                                                       *)
(***************************************************************************)
EXTENDS HostGate, FiniteSetTheorems, TLAPS

(* What holds of a call c in each place of the code, given the policies p,   *)
(* the current version k and the approved contents s.                        *)
Sound(c, p, k, s) ==
  /\ c.ver <= k
  /\ c.pc \in {"record", "lookup", "again"} \/ c.reason = "first_run" =>
       BinaryOf[c.cmd] # NoBinary
  /\ c.pc \in {"lookup", "approve"} => c.sum \in Sum
  /\ c.pc \in {"again", "approve"} => c.human
  /\ c.pc \in {"bands", "record"} => c.sum = NoSum
  /\ c.pc \in {"bands", "record", "lookup", "await"} => ~c.human
  /\ \/ c.pc \in {"record", "lookup"}
     \/ c.pc = "exec" /\ ~c.human /\ c.cmd \notin Kill
     => Inner[c.cmd] \notin p[c.ver].dangerous
  /\ c.pc # "idle" /\ c.barred /\ Plain(c.cmd) /\ c.cmd \notin Kill => ~Fits(p[c.ver])
  /\ c.pc # "idle" /\ c.remembered /\ Plain(c.cmd) /\ Fits(p[c.ver]) =>
       /\ c.cmd \in p[c.ver].safe
       /\ c.pc \in {"record", "lookup"} => c.band # "unknown"
       /\ c.pc = "await" => c.reason \notin {"caution", "unknown"}
  /\ c.pc = "exec" /\ ~c.human /\ c.sum # NoSum => c.sum \in s

(* How the shared state may change: versions up to the current one keep      *)
(* their dangerous patterns, and grow otherwise.                             *)
Grows(p, k, s, p2, k2, s2) ==
  /\ k <= k2 /\ s \subseteq s2
  /\ \A v \in Version : v <= k =>
       /\ p2[v].dangerous = p[v].dangerous
       /\ p[v].safe \subseteq p2[v].safe
       /\ Fits(p2[v]) => Fits(p[v])

(* The shared state by itself. *)
Learned ==
  /\ cur <= events + 1
  /\ \A b \in Binary : file[b] <= events
  /\ workers = Workers
  /\ \A c \in barred : Plain(c) /\ Fits(pol[cur]) => c \in pol[cur].forbidden
  /\ \A c \in remembered : Plain(c) /\ Fits(pol[cur]) => c \in pol[cur].safe
  /\ \A s \in Sum : row[s] = "approved" => s \in stamped

IInv == TypeOK /\ Learned /\ \A f \in Caller : Sound(call[f], pol, cur, stamped)

(* Sound survives every growth of the shared state. *)
LEMMA SoundGrows ==
  ASSUME NEW c \in Call, NEW p, NEW k, NEW s, NEW p2, NEW k2 \in Int, NEW s2, k \in Int,
         Sound(c, p, k, s), Grows(p, k, s, p2, k2, s2)
  PROVE  Sound(c, p2, k2, s2)
BY DEF Sound, Grows, Call, Version

(* A caller that is not in the gate is sound. *)
LEMMA IdleSound ==
  ASSUME NEW p, NEW k \in Nat \ {0}, NEW s
  PROVE  Idle \in Call /\ Sound(Idle, p, k, s)
BY GateAssumption DEF Sound, Idle, Call, Version, Band, Reason, NoSum

(* One caller's step that leaves the policies and the stamps alone: it is    *)
(* enough to look at the caller's new call.                                  *)
LEMMA OneCall ==
  ASSUME IInv, NEW f \in Caller, NEW STATE d, d \in Call, Sound(d, pol, cur, stamped),
         call' = [call EXCEPT ![f] = d], UNCHANGED <<policyVars, stamped>>
  PROVE  /\ call' \in [Caller -> Call]
         /\ \A g \in Caller : Sound(call'[g], pol', cur', stamped')
<1>1. pol' = pol /\ cur' = cur /\ stamped' = stamped
  BY DEF policyVars
<1>2. call \in [Caller -> Call]
  BY DEF IInv, TypeOK
<1>3. ASSUME NEW g \in Caller PROVE Sound(call'[g], pol, cur, stamped)
  <2>1. CASE g = f
    <3>1. call'[g] = d
      BY <1>2, <2>1
    <3> QED
      BY <3>1
  <2>2. CASE g # f
    <3>1. call'[g] = call[g]
      BY <1>2, <2>2
    <3> QED
      BY <3>1 DEF IInv
  <2> QED
    BY <2>1, <2>2
<1> QED
  BY <1>1, <1>2, <1>3

(* auditAsync never fills the queue beyond its size. *)
LEMMA SubmitType == TypeOK /\ Submit => queue' \in 0..QueueSize
<1> SUFFICES ASSUME TypeOK, Submit PROVE queue' \in 0..QueueSize
  OBVIOUS
<1>1. QueueSize \in Nat
  BY GateAssumption
<1>2. queue \in 0..QueueSize
  BY DEF TypeOK
<1> QED
  BY <1>1, <1>2 DEF Submit

(* The end of Evaluate allows or asks; Submit keeps the queue's type. *)
LEMMA FinalStep ==
  ASSUME IInv, NEW f \in Caller, NEW STATE c, c \in Call, Sound(c, pol, cur, stamped),
         c.pc \in {"bands", "record", "lookup"}, ~c.human, Inner[c.cmd] \notin pol[c.ver].dangerous,
         c.sum # NoSum => c.sum \in stamped,
         c.remembered /\ Plain(c.cmd) /\ Fits(pol[c.ver]) => c.band # "unknown",
         Final(f, c), UNCHANGED <<policyVars, stamped>>
  PROVE  /\ call' \in [Caller -> Call]
         /\ \A g \in Caller : Sound(call'[g], pol', cur', stamped')
         /\ queue' \in 0..QueueSize
<1> DEFINE run == [c EXCEPT !.pc = "exec"]
           ask(r) == [c EXCEPT !.pc = "await", !.reason = r]
<1>1. run \in Call /\ Sound(run, pol, cur, stamped)
  BY DEF Sound, Call
<1>2. /\ ask("caution") \in Call /\ ask("unknown") \in Call
      /\ c.band = "unknown" => Sound(ask("unknown"), pol, cur, stamped)
      /\ c.cmd \notin pol[c.ver].safe => Sound(ask("caution"), pol, cur, stamped)
  BY DEF Sound, Call, Reason
<1>3. queue' \in 0..QueueSize
  <2>1. Submit
    BY DEF Final, Allow, RequireHITL
  <2> QED
    BY <2>1, SubmitType DEF IInv
<1>4. CASE call' = [call EXCEPT ![f] = run]
  BY <1>1, <1>3, <1>4, OneCall
<1>5. CASE c.band = "unknown" /\ call' = [call EXCEPT ![f] = ask("unknown")]
  BY <1>2, <1>3, <1>5, OneCall
<1>6. CASE c.cmd \notin pol[c.ver].safe /\ call' = [call EXCEPT ![f] = ask("caution")]
  BY <1>2, <1>3, <1>6, OneCall
<1> QED
  BY <1>4, <1>5, <1>6 DEF Final, Allow, RequireHITL

RowState == {"none", "new", "approved", "revoked"}

(* What is left to show of a step that touches neither the policies nor the  *)
(* stamps, and approves nothing.                                             *)
LEMMA Frame ==
  ASSUME IInv, call' \in [Caller -> Call],
         \A g \in Caller : Sound(call'[g], pol', cur', stamped'),
         queue' \in 0..QueueSize, calls' \in 0..MaxCalls,
         chan' \in [Caller -> Action \cup {""}],
         row' \in [Sum -> RowState], \A s \in Sum : row'[s] = "approved" => row[s] = "approved",
         dangers' \in [Caller -> Nat],
         UNCHANGED <<policyVars, file, stamped, writing, workers, awake, granted, answers, events>>
  PROVE  IInv'
BY DEF IInv, TypeOK, Learned, policyVars, RowState

(* firstRunLookup's insertion approves nothing. *)
LEMMA RowRecorded ==
  ASSUME IInv, NEW STATE x, RecordRow(x)
  PROVE  row' \in [Sum -> RowState] /\ \A s \in Sum : row'[s] = "approved" => row[s] = "approved"
BY DEF IInv, TypeOK, RecordRow, RowState

(* The row and the channels of an invariant state. *)
LEMMA Shape ==
  ASSUME IInv
  PROVE  /\ row \in [Sum -> RowState] /\ queue \in 0..QueueSize /\ calls \in 0..MaxCalls
         /\ chan \in [Caller -> Action \cup {""}] /\ call \in [Caller -> Call]
         /\ pol \in [Version -> Policy] /\ cur \in Version /\ cur \in Nat \ {0}
         /\ granted \in [Caller -> Nat] /\ dangers \in [Caller -> Nat]
         /\ MaxCalls \in Nat /\ QueueSize \in Nat /\ MaxEvents \in Nat
<1>1. MaxCalls \in Nat /\ QueueSize \in Nat /\ MaxEvents \in Nat
  BY GateAssumption
<1>2. /\ row \in [Sum -> RowState] /\ queue \in 0..QueueSize /\ calls \in 0..MaxCalls
      /\ chan \in [Caller -> Action \cup {""}] /\ call \in [Caller -> Call]
      /\ pol \in [Version -> Policy] /\ cur \in Version
      /\ granted \in [Caller -> Nat] /\ dangers \in [Caller -> Nat]
  BY DEF IInv, TypeOK, RowState
<1>3. cur \in Nat \ {0}
  <2>1. cur \in Version /\ MaxEvents \in Nat
    BY <1>1, <1>2
  <2> QED
    BY <2>1 DEF Version
<1> QED
  BY <1>1, <1>2, <1>3

(* Awakening, kill and the forbidden band: a call that begins knows what the *)
(* current policy has been told of its command.                              *)
LEMMA CheckStep == ASSUME IInv, NEW f \in Caller, NEW c \in Cmd, Check(f, c) PROVE IInv'
<1> DEFINE begun == [Idle EXCEPT !.cmd = c, !.ver = cur, !.remembered = c \in remembered,
                                 !.barred = c \in barred]
           run == [begun EXCEPT !.pc = "exec"]
           on == [begun EXCEPT !.pc = "bands"]
<1>1. Idle \in Call /\ Sound(Idle, pol, cur, stamped)
  BY IdleSound, Shape
<1>2. run \in Call /\ on \in Call
  <2>1. (c \in remembered) \in BOOLEAN /\ (c \in barred) \in BOOLEAN
    OBVIOUS
  <2>2. cur \in Version
    BY Shape
  <2> HIDE DEF Idle
  <2> QED
    BY <1>1, <2>1, <2>2 DEF Call
<1>a. /\ run.ver = cur /\ run.cmd = c /\ run.sum = NoSum /\ run.reason = "none"
      /\ run.pc = "exec" /\ (run.remembered <=> c \in remembered)
      /\ on.ver = cur /\ on.cmd = c /\ on.sum = NoSum /\ on.reason = "none"
      /\ on.pc = "bands" /\ on.human = FALSE
      /\ (on.remembered <=> c \in remembered) /\ (on.barred <=> c \in barred)
  BY DEF Idle
<1>b. cur \in Nat
  BY Shape
<1>c. Fits(pol[cur]) /\ Plain(c) =>
        (c \in remembered => c \in pol[cur].safe) /\ (c \in barred => c \in pol[cur].forbidden)
  BY DEF IInv, Learned
<1> HIDE DEF run, on
<1>3. c \in Kill => Sound(run, pol, cur, stamped)
  BY <1>a, <1>b, <1>c DEF Sound
<1>4. c \notin Kill /\ Inner[c] \notin pol[cur].forbidden => Sound(on, pol, cur, stamped)
  BY <1>a, <1>b, <1>c DEF Sound, Plain
<1> USE DEF run, on
<1>5. \/ call' = [call EXCEPT ![f] = Idle]
      \/ c \in Kill /\ call' = [call EXCEPT ![f] = run]
      \/ /\ c \notin Kill /\ Inner[c] \notin pol[cur].forbidden
         /\ call' = [call EXCEPT ![f] = on]
  BY DEF Check, Deny, Allow
<1>6. UNCHANGED <<policyVars, stamped>>
  BY DEF Check, ledgerVars
<1>7. call' \in [Caller -> Call] /\ \A g \in Caller : Sound(call'[g], pol', cur', stamped')
  BY <1>1, <1>2, <1>3, <1>4, <1>5, <1>6, OneCall
<1>8. Submit \/ UNCHANGED queue
  BY DEF Check, Deny, Allow
<1>9. queue' \in 0..QueueSize
  BY <1>8, SubmitType, Shape DEF IInv
<1>10. calls' \in 0..MaxCalls
  <2>1. calls < MaxCalls /\ calls' = calls + 1
    BY DEF Check
  <2>2. calls \in 0..MaxCalls /\ MaxCalls \in Nat
    BY Shape
  <2> QED
    BY <2>1, <2>2
<1> QED
  BY <1>7, <1>9, <1>10, Shape, Frame DEF Check, ledgerVars

(* Asking for a reason other than the command line keeps a call sound. *)
LEMMA AskSound ==
  ASSUME NEW c \in Call, NEW p, NEW k, NEW s, NEW r \in {"budget", "dangerous", "first_run"},
         Sound(c, p, k, s), c.pc # "idle", ~c.human, r = "first_run" => BinaryOf[c.cmd] # NoBinary
  PROVE  /\ [c EXCEPT !.pc = "await", !.reason = r] \in Call
         /\ Sound([c EXCEPT !.pc = "await", !.reason = r], p, k, s)
BY DEF Sound, Call, Reason

(* Classify: the band says where the command was found. *)
LEMMA BandCorrect ==
  ASSUME NEW p, NEW c
  PROVE  /\ BandOf(p, c) \in Band
         /\ BandOf(p, c) # "dangerous" => c \notin p.dangerous
         /\ c \in p.safe => BandOf(p, c) # "unknown"
BY DEF BandOf, Band

(* Evaluate up to the dangerous band. *)
LEMMA BandsStep == ASSUME IInv, NEW f \in Caller, Bands(f) PROVE IInv'
<1> DEFINE c == [call[f] EXCEPT !.band = BandOf(Current(f), Inner[call[f].cmd])]
           on == [c EXCEPT !.pc = "record"]
<1>1. call[f] \in Call /\ call[f].pc = "bands" /\ Sound(call[f], pol, cur, stamped)
  BY Shape DEF IInv, Bands, At
<1>2. /\ c \in Call /\ c.pc = "bands" /\ c.cmd = call[f].cmd /\ c.ver = call[f].ver
      /\ c.human = call[f].human
      /\ c.sum = call[f].sum /\ c.remembered = call[f].remembered
      /\ c.band = BandOf(pol[c.ver], Inner[c.cmd])
  BY <1>1, BandCorrect DEF Call, Current
<1>3. Sound(c, pol, cur, stamped)
  BY <1>1, BandCorrect DEF Sound, Call
<1>4. UNCHANGED <<policyVars, stamped, row, file, writing, workers, awake, chan, counts>>
  BY DEF Bands, ledgerVars
<1> HIDE DEF c
<1>5. c.remembered /\ Plain(c.cmd) /\ Fits(pol[c.ver]) => c.band # "unknown"
  BY <1>2, <1>3, BandCorrect DEF Sound, Plain
<1>6. CASE RequireHITL(f, c, "budget") \/ RequireHITL(f, c, "dangerous")
  <2>1. Submit
    BY <1>6 DEF RequireHITL
  <2>3. ~c.human
    BY <1>2, <1>3 DEF Sound
  <2>2. call' \in [Caller -> Call] /\ \A g \in Caller : Sound(call'[g], pol', cur', stamped')
    BY <1>2, <1>3, <1>4, <1>6, <2>3, AskSound, OneCall DEF RequireHITL
  <2> QED
    BY <1>4, <2>1, <2>2, SubmitType, Shape, Frame DEF counts, IInv
<1>7. CASE Deny(f)
  <2>1. Submit
    BY <1>7 DEF Deny
  <2>2. call' \in [Caller -> Call] /\ \A g \in Caller : Sound(call'[g], pol', cur', stamped')
    BY <1>4, <1>7, IdleSound, Shape, OneCall DEF Deny
  <2> QED
    BY <1>4, <2>1, <2>2, SubmitType, Shape, Frame DEF counts, IInv
<1>8. CASE c.band # "dangerous" /\ Final(f, c)
  <2>1. ~c.human
    BY <1>1, <1>2 DEF Sound
  <2>2. /\ call' \in [Caller -> Call] /\ queue' \in 0..QueueSize
        /\ \A g \in Caller : Sound(call'[g], pol', cur', stamped')
    BY <1>2, <1>3, <1>4, <1>5, <1>8, <2>1, BandCorrect, FinalStep DEF Sound
  <2> QED
    BY <1>4, <2>2, Shape, Frame DEF counts
<1>9. CASE /\ c.band # "dangerous" /\ BinaryOf[c.cmd] # NoBinary
           /\ call' = [call EXCEPT ![f] = on] /\ UNCHANGED queue
  <2>1. on \in Call /\ Sound(on, pol, cur, stamped)
    BY <1>2, <1>3, <1>5, <1>9, BandCorrect DEF Sound, Call
  <2>2. call' \in [Caller -> Call] /\ \A g \in Caller : Sound(call'[g], pol', cur', stamped')
    BY <1>4, <1>9, <2>1, OneCall
  <2> QED
    BY <1>4, <1>9, <2>2, Shape, Frame DEF counts
<1> QED
  BY <1>6, <1>7, <1>8, <1>9 DEF Bands, c

(* The file a call is about to hash is one of the files. *)
LEMMA ContentType ==
  ASSUME IInv, NEW f \in Caller, BinaryOf[call[f].cmd] # NoBinary
  PROVE  Content(f) \in Sum /\ Content(f) # NoSum
<1>1. call[f].cmd \in Cmd
  BY Shape DEF Call
<1>2. BinaryOf[call[f].cmd] \in Binary
  BY <1>1, GateAssumption
<1>3. file[BinaryOf[call[f].cmd]] \in 0..MaxEvents
  BY <1>2 DEF IInv, TypeOK
<1>4. NoBinary \notin Binary
  BY GateAssumption
<1> QED
  BY <1>2, <1>3, <1>4 DEF Content, Sum, NoSum

(* A call's steps at the ledger, before the decision. *)
LEMMA RecordStep == ASSUME IInv, NEW f \in Caller, Record(f) PROVE IInv'
<1>1. call[f] \in Call /\ call[f].pc = "record" /\ Sound(call[f], pol, cur, stamped)
  BY Shape DEF IInv, Record, At
<1>2. UNCHANGED <<policyVars, stamped, file, writing, workers, awake, chan, counts>>
  BY DEF Record
<1>3. CASE /\ RecordRow(Content(f)) /\ UNCHANGED queue
           /\ call' = [call EXCEPT ![f].sum = Content(f), ![f].pc = "lookup"]
  <2> DEFINE d == [call[f] EXCEPT !.sum = Content(f), !.pc = "lookup"]
  <2>1. Content(f) \in Sum
    BY <1>1, ContentType DEF Sound
  <2>2. d \in Call /\ Sound(d, pol, cur, stamped)
    BY <1>1, <2>1 DEF Sound, Call
  <2>3. call' = [call EXCEPT ![f] = d]
    BY <1>3, Shape
  <2>4. call' \in [Caller -> Call] /\ \A g \in Caller : Sound(call'[g], pol', cur', stamped')
    BY <1>2, <2>2, <2>3, OneCall
  <2> QED
    BY <1>2, <1>3, <2>4, Shape, RowRecorded, Frame DEF counts
<1>4. CASE Final(f, call[f]) /\ UNCHANGED row
  <2>1. /\ call' \in [Caller -> Call] /\ queue' \in 0..QueueSize
        /\ \A g \in Caller : Sound(call'[g], pol', cur', stamped')
    BY <1>1, <1>2, <1>4, FinalStep DEF Sound
  <2> QED
    BY <1>2, <1>4, <2>1, Shape, Frame DEF counts
<1> QED
  BY <1>3, <1>4 DEF Record

(* GetBySHA decides on an approved row only. *)
LEMMA LookupStep == ASSUME IInv, NEW f \in Caller, Lookup(f) PROVE IInv'
<1>1. call[f] \in Call /\ call[f].pc = "lookup" /\ Sound(call[f], pol, cur, stamped)
  BY Shape DEF IInv, Lookup, At
<1>2. UNCHANGED <<policyVars, stamped, row, file, writing, workers, awake, chan, counts>>
  BY DEF Lookup, ledgerVars
<1>3. CASE RequireHITL(f, call[f], "first_run")
  <2>1. Submit
    BY <1>3 DEF RequireHITL
  <2>2. BinaryOf[call[f].cmd] # NoBinary /\ ~call[f].human
    BY <1>1 DEF Sound
  <2>3. call' \in [Caller -> Call] /\ \A g \in Caller : Sound(call'[g], pol', cur', stamped')
    BY <1>1, <1>2, <1>3, <2>2, AskSound, OneCall DEF RequireHITL
  <2> QED
    BY <1>2, <2>1, <2>3, SubmitType, Shape, Frame DEF counts, IInv
<1>4. CASE row[call[f].sum] = "approved" /\ Final(f, call[f])
  <2>1. call[f].sum \in stamped
    BY <1>1, <1>4 DEF Sound, IInv, Learned
  <2>2. /\ call' \in [Caller -> Call] /\ queue' \in 0..QueueSize
        /\ \A g \in Caller : Sound(call'[g], pol', cur', stamped')
    BY <1>1, <1>2, <1>4, <2>1, FinalStep DEF Sound
  <2> QED
    BY <1>2, <2>2, Shape, Frame DEF counts
<1>5. CASE Final(f, [call[f] EXCEPT !.sum = NoSum])
  <2> DEFINE d == [call[f] EXCEPT !.sum = NoSum, !.pc = "record"]
  <2>1. d \in Call /\ Sound(d, pol, cur, stamped)
    BY <1>1 DEF Sound, Call
  <2>2. /\ Final(f, d)
        /\ d.pc = "record"
    BY <1>1, <1>5 DEF Final, Allow, RequireHITL, Call
  <2> HIDE DEF d
  <2>3. /\ call' \in [Caller -> Call] /\ queue' \in 0..QueueSize
        /\ \A g \in Caller : Sound(call'[g], pol', cur', stamped')
    BY <1>2, <2>1, <2>2, FinalStep DEF Sound
  <2> QED
    BY <1>2, <2>3, Shape, Frame DEF counts
<1> QED
  BY <1>3, <1>4, <1>5 DEF Lookup

(* The wait's outcome: a call that was approved goes on, others end. *)
LEMMA ApprovedSound ==
  ASSUME NEW c \in Call, NEW p, NEW k, NEW s, Sound(c, p, k, s), c.pc = "await",
         NEW d, d = [c EXCEPT !.human = TRUE,
                              !.pc = IF c.reason = "first_run" THEN "again" ELSE "exec"]
  PROVE  d \in Call /\ Sound(d, p, k, s)
BY DEF Sound, Call

(* A call that takes an answer was waiting for it. *)
LEMMA TakeShape ==
  ASSUME IInv, NEW f \in Caller, NEW a, Take(f, a)
  PROVE  /\ chan' \in [Caller -> Action \cup {""}]
         /\ call[f] \in Call /\ call[f].pc = "await" /\ Sound(call[f], pol, cur, stamped)
BY Shape DEF IInv, Take, At

(* What a caller becomes when a human has answered. *)
LEMMA AnsweredSound ==
  ASSUME IInv, NEW f \in Caller, call[f].pc = "await", Approved(f) \/ Denied(f)
  PROVE  /\ call' \in [Caller -> Call]
         /\ \A g \in Caller : Sound(call'[g], pol, cur, stamped)
<1> DEFINE d == [call[f] EXCEPT !.human = TRUE,
                   !.pc = IF call[f].reason = "first_run" THEN "again" ELSE "exec"]
<1>1. call[f] \in Call /\ Sound(call[f], pol, cur, stamped)
  BY Shape DEF IInv
<1>2. d \in Call /\ Sound(d, pol, cur, stamped)
  BY <1>1, ApprovedSound
<1>3. Idle \in Call /\ Sound(Idle, pol, cur, stamped)
  BY Shape, IdleSound
<1>4. call' = [call EXCEPT ![f] = d] \/ call' = [call EXCEPT ![f] = Idle]
  BY Shape DEF Approved, Denied
<1> HIDE DEF d
<1>5. call' \in [Caller -> Call]
  BY <1>2, <1>3, <1>4, Shape
<1>6. ASSUME NEW g \in Caller PROVE Sound(call'[g], pol, cur, stamped)
  <2>1. call'[g] = call[g] \/ call'[g] = d \/ call'[g] = Idle
    BY <1>4, Shape
  <2> QED
    BY <1>2, <1>3, <2>1 DEF IInv
<1> QED
  BY <1>5, <1>6

(* Answers, or the end of the context, that teach the gate nothing. *)
LEMMA OnceStep ==
  ASSUME IInv, NEW f \in Caller, ApproveOnce(f) \/ DenyOnce(f) \/ AwaitCancelled(f)
  PROVE  IInv'
<1>1. /\ call[f].pc = "await" /\ (Approved(f) \/ Denied(f))
      /\ UNCHANGED <<policyVars, ledgerVars, auditVars, awake, counts>>
  BY DEF ApproveOnce, DenyOnce, AwaitCancelled, Take, At
<1>2. chan' \in [Caller -> Action \cup {""}]
  BY Shape, TakeShape DEF ApproveOnce, DenyOnce, AwaitCancelled
<1>3. call' \in [Caller -> Call] /\ \A g \in Caller : Sound(call'[g], pol', cur', stamped')
  BY <1>1, AnsweredSound DEF policyVars, ledgerVars
<1> QED
  BY <1>1, <1>2, <1>3, Shape, Frame DEF policyVars, ledgerVars, auditVars, counts

(* The two records that an answer makes of a policy. *)
LEMMA Widened ==
  ASSUME NEW p \in Policy, NEW S \in SUBSET Cmd
  PROVE  /\ [p EXCEPT !.safe = p.safe \cup S, !.nsafe = p.nsafe + 1] \in Policy
         /\ [p EXCEPT !.nforbidden = p.nforbidden + 1] \in Policy
         /\ [p EXCEPT !.forbidden = p.forbidden \cup S] \in Policy
         /\ p.nsafe \in Nat /\ p.nforbidden \in Nat
<1>1. /\ p.safe \subseteq Cmd /\ p.forbidden \subseteq Cmd
      /\ p.nsafe \in Nat /\ p.nforbidden \in Nat
  BY DEF Policy
<1>2. /\ p.safe \cup S \in SUBSET Cmd /\ p.forbidden \cup S \in SUBSET Cmd
      /\ p.nsafe + 1 \in Nat /\ p.nforbidden + 1 \in Nat
  BY <1>1
<1> QED
  BY <1>1, <1>2 DEF Policy

(* A pattern is added to the current policy: versions keep their dangerous   *)
(* patterns, safe ones only grow, and a list over its cap stays over it.     *)
LEMMA AddPattern ==
  ASSUME IInv, NEW STATE q, q \in Policy, q.dangerous = pol[cur].dangerous,
         pol[cur].safe \subseteq q.safe, Fits(q) => Fits(pol[cur]),
         pol' = [pol EXCEPT ![cur] = q], cur' = cur, stamped' = stamped,
         call' \in [Caller -> Call], \A g \in Caller : Sound(call'[g], pol, cur, stamped)
  PROVE  /\ pol' \in [Version -> Policy] /\ pol'[cur] = q
         /\ \A g \in Caller : Sound(call'[g], pol', cur', stamped')
<1>1. pol \in [Version -> Policy] /\ cur \in Version /\ cur \in Nat
  BY Shape
<1>2. pol' \in [Version -> Policy] /\ pol'[cur] = q /\ \A v \in Version : v # cur => pol'[v] = pol[v]
  BY <1>1
<1>3. Grows(pol, cur, stamped, pol', cur, stamped)
  <2>1. ASSUME NEW v \in Version
        PROVE  /\ pol'[v].dangerous = pol[v].dangerous /\ pol[v].safe \subseteq pol'[v].safe
               /\ Fits(pol'[v]) => Fits(pol[v])
    BY <1>2
  <2> QED
    BY <1>1, <2>1 DEF Grows
<1>4. ASSUME NEW g \in Caller PROVE Sound(call'[g], pol', cur, stamped)
  <2>1. call'[g] \in Call /\ Sound(call'[g], pol, cur, stamped) /\ cur \in Int
    BY <1>1
  <2> QED
    BY <1>3, <2>1, SoundGrows
<1> QED
  BY <1>2, <1>4

(* AppendLearnedSafePattern makes the command safe in the current policy. *)
LEMMA RememberStep == ASSUME IInv, NEW f \in Caller, Remember(f) PROVE IInv'
<1> DEFINE m == call[f].cmd
           q == [pol[cur] EXCEPT !.safe = @ \cup Covers[m], !.nsafe = @ + 1]
<1>1. /\ chan' \in [Caller -> Action \cup {""}] /\ call[f].pc = "await" /\ call[f] \in Call
  BY TakeShape DEF Remember
<1>2. m \in Cmd /\ Covers[m] \subseteq Cmd
  BY <1>1, GateAssumption DEF Call
<1>3. pol[cur] \in Policy /\ pol \in [Version -> Policy] /\ cur \in Version
  BY Shape
<1>4. /\ q \in Policy
      /\ q.dangerous = pol[cur].dangerous /\ q.forbidden = pol[cur].forbidden
      /\ pol[cur].safe \subseteq q.safe /\ (m \in Covers[m] => m \in q.safe)
      /\ q.nsafe = pol[cur].nsafe + 1 /\ q.nforbidden = pol[cur].nforbidden
      /\ pol[cur].nsafe \in Nat
  <2>1. q \in Policy /\ pol[cur].nsafe \in Nat
    BY <1>2, <1>3, Widened
  <2> QED
    BY <1>3, <2>1 DEF Policy
<1>5. Fits(q) => Fits(pol[cur])
  <2>1. MaxPatterns \in Nat
    BY GateAssumption
  <2> QED
    BY <1>4, <2>1 DEF Fits
<1>6. pol' = [pol EXCEPT ![cur] = q] /\ cur' = cur /\ stamped' = stamped
  BY <1>3 DEF Remember, ledgerVars
<1> HIDE DEF q
<1>7. call' \in [Caller -> Call] /\ \A g \in Caller : Sound(call'[g], pol, cur, stamped)
  BY <1>1, AnsweredSound DEF Remember
<1>8. /\ pol' \in [Version -> Policy] /\ pol'[cur] = q
      /\ \A g \in Caller : Sound(call'[g], pol', cur', stamped')
  BY <1>4, <1>5, <1>6, <1>7, AddPattern
<1>9. TypeOK'
  BY <1>1, <1>2, <1>7, <1>8 DEF IInv, TypeOK, Remember, ledgerVars, auditVars, counts
<1>10. Learned'
  BY <1>4, <1>5, <1>6, <1>8 DEF IInv, Learned, Remember, ledgerVars, auditVars, counts, Plain
<1> QED
  BY <1>8, <1>9, <1>10 DEF IInv

(* blacklist makes the command forbidden in the current policy if it fits. *)
LEMMA BlacklistStep == ASSUME IInv, NEW f \in Caller, Blacklist(f) PROVE IInv'
<1> DEFINE m == call[f].cmd
           p == [pol[cur] EXCEPT !.nforbidden = @ + 1]
           q == IF Fits(p) THEN [p EXCEPT !.forbidden = @ \cup Covers[m]] ELSE p
<1>1. /\ chan' \in [Caller -> Action \cup {""}] /\ call[f].pc = "await" /\ call[f] \in Call
  BY TakeShape DEF Blacklist
<1>2. m \in Cmd /\ Covers[m] \subseteq Cmd
  BY <1>1, GateAssumption DEF Call
<1>3. pol[cur] \in Policy /\ pol \in [Version -> Policy] /\ cur \in Version
  BY Shape
<1>4. /\ q \in Policy
      /\ q.dangerous = pol[cur].dangerous /\ q.safe = pol[cur].safe
      /\ pol[cur].forbidden \subseteq q.forbidden
      /\ Fits(p) /\ m \in Covers[m] => m \in q.forbidden
      /\ q.nforbidden = pol[cur].nforbidden + 1 /\ q.nsafe = pol[cur].nsafe
      /\ p.nforbidden = q.nforbidden /\ p.nsafe = q.nsafe
      /\ pol[cur].nforbidden \in Nat
  <2>1. p \in Policy /\ pol[cur].nforbidden \in Nat
    BY <1>2, <1>3, Widened
  <2>2. [p EXCEPT !.forbidden = @ \cup Covers[m]] \in Policy
    BY <1>2, <2>1, Widened
  <2>3. CASE Fits(p)
    BY <1>3, <2>1, <2>2, <2>3 DEF Policy
  <2>4. CASE ~Fits(p)
    BY <1>3, <2>1, <2>4 DEF Policy
  <2> QED
    BY <2>3, <2>4
<1>5. (Fits(q) => Fits(pol[cur])) /\ (Fits(q) <=> Fits(p))
  <2>1. MaxPatterns \in Nat
    BY GateAssumption
  <2> QED
    BY <1>4, <2>1 DEF Fits
<1>6. pol' = [pol EXCEPT ![cur] = q] /\ cur' = cur /\ stamped' = stamped
  BY DEF Blacklist, ledgerVars
<1> HIDE DEF q, p
<1>7. call' \in [Caller -> Call] /\ \A g \in Caller : Sound(call'[g], pol, cur, stamped)
  BY <1>1, AnsweredSound DEF Blacklist
<1>8. /\ pol' \in [Version -> Policy] /\ pol'[cur] = q
      /\ \A g \in Caller : Sound(call'[g], pol', cur', stamped')
  BY <1>4, <1>5, <1>6, <1>7, AddPattern
<1>9. TypeOK'
  BY <1>1, <1>2, <1>7, <1>8 DEF IInv, TypeOK, Blacklist, ledgerVars, auditVars, counts
<1>10. Learned'
  BY <1>4, <1>5, <1>6, <1>8 DEF IInv, Learned, Blacklist, ledgerVars, auditVars, counts, Plain
<1> QED
  BY <1>8, <1>9, <1>10 DEF IInv

(* recordHITLOutcome's second visit to the ledger, and the operation.        *)
LEMMA AgainStep == ASSUME IInv, NEW f \in Caller, RecordAgain(f) PROVE IInv'
<1>1. call[f] \in Call /\ call[f].pc = "again" /\ Sound(call[f], pol, cur, stamped)
  BY Shape DEF IInv, RecordAgain, At
<1>2. UNCHANGED <<policyVars, stamped, file, queue, writing, workers, awake, chan, counts>>
  BY DEF RecordAgain, auditVars
<1>3. CASE /\ RecordRow(Content(f))
           /\ call' = [call EXCEPT ![f].sum = Content(f), ![f].pc = "approve"]
  <2> DEFINE d == [call[f] EXCEPT !.sum = Content(f), !.pc = "approve"]
  <2>1. Content(f) \in Sum
    BY <1>1, ContentType DEF Sound
  <2>2. d \in Call /\ Sound(d, pol, cur, stamped)
    BY <1>1, <2>1 DEF Sound, Call
  <2>3. call' = [call EXCEPT ![f] = d]
    BY <1>3, Shape
  <2>4. call' \in [Caller -> Call] /\ \A g \in Caller : Sound(call'[g], pol', cur', stamped')
    BY <1>2, <2>2, <2>3, OneCall
  <2> QED
    BY <1>2, <1>3, <2>4, Shape, RowRecorded, Frame DEF counts
<1>4. CASE call' = [call EXCEPT ![f].pc = "exec"] /\ UNCHANGED row
  <2> DEFINE d == [call[f] EXCEPT !.pc = "exec"]
  <2>1. d \in Call /\ Sound(d, pol, cur, stamped)
    BY <1>1 DEF Sound, Call
  <2>2. call' = [call EXCEPT ![f] = d]
    BY <1>4, Shape
  <2>3. call' \in [Caller -> Call] /\ \A g \in Caller : Sound(call'[g], pol', cur', stamped')
    BY <1>2, <2>1, <2>2, OneCall
  <2> QED
    BY <1>2, <1>4, <2>3, Shape, Frame DEF counts
<1> QED
  BY <1>3, <1>4 DEF RecordAgain

(* Approve stamps the content that the call has hashed again. *)
LEMMA ApproveStep == ASSUME IInv, NEW f \in Caller, Approve(f) PROVE IInv'
<1> DEFINE d == [call[f] EXCEPT !.pc = "exec"]
<1>1. call[f] \in Call /\ call[f].pc = "approve" /\ Sound(call[f], pol, cur, stamped)
  BY Shape DEF IInv, Approve, At
<1>2. d \in Call /\ Sound(d, pol, cur, stamped) /\ call[f].sum \in Sum
  BY <1>1 DEF Sound, Call
<1>3. call' = [call EXCEPT ![f] = d] /\ UNCHANGED <<policyVars, file, auditVars, awake, chan, counts>>
  BY Shape DEF Approve
<1>4. \/ row' = [row EXCEPT ![call[f].sum] = "approved"] /\ stamped' = stamped \cup {call[f].sum}
      \/ UNCHANGED <<row, stamped>>
  BY DEF Approve
<1>5. pol' = pol /\ cur' = cur /\ stamped \subseteq stamped' /\ cur \in Nat
  BY <1>3, <1>4, Shape DEF policyVars
<1>6. Grows(pol, cur, stamped, pol', cur', stamped')
  BY <1>5 DEF Grows
<1> HIDE DEF d
<1>7. call' \in [Caller -> Call]
  BY <1>2, <1>3, Shape
<1>8. ASSUME NEW g \in Caller PROVE Sound(call'[g], pol', cur', stamped')
  <2>1. call'[g] \in Call /\ Sound(call'[g], pol, cur, stamped)
    BY <1>2, <1>3, <1>7, Shape DEF IInv
  <2> QED
    BY <1>5, <1>6, <2>1, SoundGrows
<1>9. TypeOK'
  BY <1>2, <1>3, <1>4, <1>7 DEF IInv, TypeOK, policyVars, auditVars, counts
<1>10. Learned'
  BY <1>2, <1>3, <1>4, Shape DEF IInv, Learned, policyVars, auditVars, counts
<1> QED
  BY <1>8, <1>9, <1>10 DEF IInv

(* The operation ends, or the context does. *)
LEMMA EndStep == ASSUME IInv, NEW f \in Caller, Exec(f) \/ Cancel(f) PROVE IInv'
<1> DEFINE d == [call[f] EXCEPT !.cancelled = TRUE]
<1>1. UNCHANGED <<policyVars, ledgerVars, auditVars, awake, chan, granted, calls, answers, events>>
  BY DEF Exec, Cancel, counts
<1>a. dangers' \in [Caller -> Nat]
  <2>0. dangers \in [Caller -> Nat]
    BY Shape
  <2>1. dangers[f] + 1 \in Nat
    BY <2>0
  <2>2. dangers' = dangers \/ dangers' = [dangers EXCEPT ![f] = dangers[f] + 1]
    BY DEF Exec, Cancel, counts
  <2> QED
    BY <2>0, <2>1, <2>2
<1>2. d \in Call /\ Sound(d, pol, cur, stamped)
  <2>1. call[f] \in Call /\ Sound(call[f], pol, cur, stamped)
    BY Shape DEF IInv
  <2> QED
    BY <2>1 DEF Sound, Call
<1>3. Idle \in Call /\ Sound(Idle, pol, cur, stamped)
  BY IdleSound, Shape
<1>4. call' = [call EXCEPT ![f] = d] \/ call' = [call EXCEPT ![f] = Idle]
  BY Shape DEF Exec, Cancel
<1> HIDE DEF d
<1>5. call' \in [Caller -> Call] /\ \A g \in Caller : Sound(call'[g], pol', cur', stamped')
  BY <1>1, <1>2, <1>3, <1>4, OneCall DEF ledgerVars
<1> QED
  BY <1>1, <1>a, <1>5, Shape, Frame DEF ledgerVars, auditVars

(* Steps that leave the calls alone. *)
LEMMA OtherStep ==
  ASSUME IInv,
         \/ TakeJob \/ JobDone \/ AwakenBegin \/ AwakenEnd
         \/ \E f \in Caller, a \in Action : Answer(f, a)
         \/ \E s \in Sum : Revoke(s)
         \/ \E b \in Binary : Upgrade(b)
  PROVE  IInv'
<1>1. UNCHANGED <<policyVars, stamped, call>>
  BY DEF TakeJob, JobDone, AwakenBegin, AwakenEnd, Answer, Revoke, Upgrade, ledgerVars
<1>2. \A g \in Caller : Sound(call'[g], pol', cur', stamped')
  BY <1>1 DEF IInv, policyVars
<1>3. MaxAnswers \in Nat /\ MaxEvents \in Nat /\ QueueSize \in Nat /\ Workers \in Nat
  BY GateAssumption
<1>a. /\ queue \in 0..QueueSize /\ writing \in 0..Workers /\ workers = Workers
      /\ answers \in 0..MaxAnswers /\ events \in 0..MaxEvents /\ cur <= events + 1
      /\ file \in [Binary -> 0..MaxEvents] /\ \A x \in Binary : file[x] <= events
  BY DEF IInv, TypeOK, Learned
<1>b. cur \in Nat
  BY Shape
<1>c. ASSUME events < MaxEvents, events' = events + 1
      PROVE  events' \in 0..MaxEvents /\ cur <= events' + 1 /\ \A x \in Binary : file[x] <= events'
  BY <1>3, <1>a, <1>b, <1>c
<1>4. CASE TakeJob \/ JobDone
  <2>1. queue' \in 0..QueueSize /\ writing' \in 0..Workers /\ workers' = workers
    BY <1>3, <1>4, <1>a DEF TakeJob, JobDone
  <2>2. UNCHANGED <<policyVars, ledgerVars, awake, chan, call, counts>>
    BY <1>4 DEF TakeJob, JobDone
  <2> QED
    BY <1>2, <2>1, <2>2 DEF IInv, TypeOK, Learned, policyVars, ledgerVars, counts
<1>5. CASE AwakenBegin
  BY <1>2, <1>5, <1>c DEF IInv, TypeOK, Learned, AwakenBegin, policyVars, ledgerVars, auditVars
<1>6. CASE AwakenEnd
  BY <1>2, <1>6 DEF IInv, TypeOK, Learned, AwakenEnd, policyVars, ledgerVars, auditVars, counts
<1>7. ASSUME NEW f \in Caller, NEW a \in Action, Answer(f, a) PROVE IInv'
  <2>1. answers' \in 0..MaxAnswers
    <3>1. answers < MaxAnswers /\ answers' = answers + 1
      BY <1>7 DEF Answer
    <3> QED
      BY <1>3, <1>a, <3>1
  <2>2. chan' \in [Caller -> Action \cup {""}]
    BY <1>7, Shape DEF Answer
  <2>3. UNCHANGED <<policyVars, ledgerVars, auditVars, awake, call, dangers, calls, events>>
    BY <1>7 DEF Answer
  <2>4. granted' \in [Caller -> Nat]
    <3>0. granted \in [Caller -> Nat]
      BY Shape
    <3>1. granted[f] + 1 \in Nat
      BY <3>0
    <3>2. granted' = granted \/ granted' = [granted EXCEPT ![f] = granted[f] + 1]
      BY <1>7 DEF Answer
    <3> QED
      BY <3>0, <3>1, <3>2
  <2> QED
    BY <1>2, <2>1, <2>2, <2>3, <2>4 DEF IInv, TypeOK, Learned, policyVars, ledgerVars, auditVars
<1>8. ASSUME NEW s \in Sum, Revoke(s) PROVE IInv'
  <2>1. events' \in 0..MaxEvents /\ cur <= events' + 1 /\ \A x \in Binary : file[x] <= events'
    BY <1>8, <1>c DEF Revoke
  <2>2. /\ row' \in [Sum -> RowState]
        /\ \A x \in Sum : row'[x] = "approved" => row[x] = "approved"
    BY <1>8, Shape DEF Revoke, RowState
  <2>3. UNCHANGED <<policyVars, file, stamped, auditVars, awake, chan, call, granted, dangers, calls, answers>>
    BY <1>8 DEF Revoke
  <2> QED
    BY <1>2, <2>1, <2>2, <2>3 DEF IInv, TypeOK, Learned, policyVars, auditVars, RowState
<1>9. ASSUME NEW b \in Binary, Upgrade(b) PROVE IInv'
  <2>1. events' \in 0..MaxEvents /\ cur <= events' + 1 /\ events' = events + 1
    BY <1>9, <1>c DEF Upgrade
  <2>2. file[b] + 1 \in 0..MaxEvents /\ file[b] + 1 <= events'
    BY <1>3, <1>a, <2>1
  <2>3. file' \in [Binary -> 0..MaxEvents] /\ \A x \in Binary : file'[x] <= events'
    BY <1>9, <1>a, <1>c, <2>2 DEF Upgrade
  <2>4. UNCHANGED <<policyVars, row, stamped, auditVars, awake, chan, call, granted, dangers, calls, answers>>
    BY <1>9 DEF Upgrade
  <2> QED
    BY <1>2, <2>1, <2>3, <2>4 DEF IInv, TypeOK, Learned, policyVars, auditVars
<1> QED
  BY <1>4, <1>5, <1>6, <1>7, <1>8, <1>9

(* A policy is loaded into the next version; calls under way keep theirs.    *)
LEMMA NextVersion ==
  ASSUME IInv, NEW STATE q, q \in Policy, events < MaxEvents, events' = events + 1,
         cur' = cur + 1, pol' = [pol EXCEPT ![cur + 1] = q]
  PROVE  /\ cur' \in Version /\ cur' <= events' + 1 /\ events' \in 0..MaxEvents
         /\ pol' \in [Version -> Policy] /\ pol'[cur'] = q
         /\ Grows(pol, cur, stamped, pol', cur', stamped)
         /\ cur \in Nat \ {0} /\ cur' \in Nat \ {0}
         /\ \A b \in Binary : file[b] <= events'
<1>1. /\ events \in 0..MaxEvents /\ cur <= events + 1 /\ cur \in Nat \ {0} /\ MaxEvents \in Nat
      /\ pol \in [Version -> Policy]
  BY Shape DEF IInv, TypeOK, Learned
<1>2. cur' \in Version /\ cur' <= events' + 1 /\ events' \in 0..MaxEvents
  BY <1>1 DEF Version
<1>3. pol' \in [Version -> Policy] /\ pol'[cur'] = q
  BY <1>1, <1>2
<1>4. \A v \in Version : v <= cur => pol'[v] = pol[v]
  BY <1>1, <1>2 DEF Version
<1>5. cur <= cur' /\ cur' \in Nat \ {0}
  BY <1>1
<1>6. file \in [Binary -> 0..MaxEvents] /\ \A b \in Binary : file[b] <= events
  BY DEF IInv, TypeOK, Learned
<1>7. \A b \in Binary : file[b] <= events'
  BY <1>1, <1>6
<1> QED
  BY <1>1, <1>2, <1>3, <1>4, <1>5, <1>7 DEF Grows

(* HandleHostPolicyPut forgets what the old policy was told. *)
LEMMA PutStep == ASSUME IInv, NEW p \in Policies, Put(p) PROVE IInv'
<1>1. p \in Policy
  BY GateAssumption
<1>2. /\ events < MaxEvents /\ events' = events + 1 /\ cur' = cur + 1
      /\ pol' = [pol EXCEPT ![cur + 1] = p] /\ remembered' = {} /\ barred' = {}
      /\ UNCHANGED <<disk, ledgerVars, auditVars, awake, chan, call, granted, dangers, calls, answers>>
  BY DEF Put
<1>3. /\ cur' \in Version /\ cur' <= events' + 1 /\ events' \in 0..MaxEvents
      /\ pol' \in [Version -> Policy] /\ Grows(pol, cur, stamped, pol', cur', stamped)
      /\ cur \in Nat \ {0} /\ cur' \in Nat \ {0} /\ \A b \in Binary : file[b] <= events'
  BY <1>1, <1>2, NextVersion
<1>4. ASSUME NEW g \in Caller PROVE Sound(call'[g], pol', cur', stamped')
  <2>1. call[g] \in Call /\ Sound(call[g], pol, cur, stamped)
    BY Shape DEF IInv
  <2>2. cur \in Int /\ cur' \in Int
    BY <1>3
  <2>3. Sound(call[g], pol', cur', stamped)
    BY <1>3, <2>1, <2>2, SoundGrows
  <2> QED
    BY <1>2, <2>3 DEF ledgerVars
<1>5. TypeOK'
  BY <1>2, <1>3 DEF IInv, TypeOK, ledgerVars, auditVars
<1>6. Learned'
  BY <1>2, <1>3 DEF IInv, Learned, ledgerVars, auditVars
<1> QED
  BY <1>4, <1>5, <1>6 DEF IInv

(* MergeLearnedFromFile: the overlay's patterns are safe if they fit. *)
LEMMA LoadedPolicy ==
  ASSUME IInv
  PROVE  /\ Loaded \in Policy
         /\ \A c \in disk : Plain(c) /\ Fits(Loaded) => c \in Loaded.safe
<1> DEFINE S == UNION {Covers[c] : c \in disk}
           p == [InitPolicy EXCEPT !.nsafe = @ + Cardinality(disk)]
           q == [p EXCEPT !.safe = @ \cup S]
<1>1. disk \subseteq Cmd
  BY DEF IInv, TypeOK
<1>2. InitPolicy \in Policy /\ Covers \in [Cmd -> SUBSET Cmd] /\ IsFiniteSet(Cmd)
  BY GateAssumption
<1>3. Cardinality(disk) \in Nat
  BY <1>1, <1>2, FS_Subset, FS_CardinalityType
<1>4. S \subseteq Cmd
  BY <1>1, <1>2
<1>5. InitPolicy.nsafe \in Nat /\ InitPolicy.safe \subseteq Cmd
  BY <1>2 DEF Policy
<1>6. InitPolicy.nsafe + Cardinality(disk) \in Nat /\ InitPolicy.safe \cup S \in SUBSET Cmd
  BY <1>3, <1>4, <1>5
<1>7. p \in Policy
  BY <1>2, <1>6 DEF Policy
<1>8. q \in Policy /\ q.safe = InitPolicy.safe \cup S /\ q.nsafe = p.nsafe
      /\ q.nforbidden = p.nforbidden
  BY <1>2, <1>6, <1>7 DEF Policy
<1>9. Loaded = IF Fits(p) THEN q ELSE p
  BY DEF Loaded
<1>10. \A c \in disk : Plain(c) => c \in S
  BY DEF Plain
<1> HIDE DEF S, p, q
<1> QED
  BY <1>7, <1>8, <1>9, <1>10

(* A restart ends every call and loads the overlay. *)
LEMMA RestartStep == ASSUME IInv, Restart PROVE IInv'
<1>1. /\ events < MaxEvents /\ events' = events + 1 /\ cur' = cur + 1
      /\ pol' = [pol EXCEPT ![cur + 1] = Loaded] /\ remembered' = disk /\ barred' = {}
      /\ queue' = 0 /\ writing' = 0 /\ workers' = Workers /\ awake' = FALSE
      /\ call' = [f \in Caller |-> Idle] /\ chan' = [f \in Caller |-> ""]
      /\ UNCHANGED <<disk, ledgerVars, granted, dangers, calls, answers>>
  BY DEF Restart
<1>2. Loaded \in Policy /\ \A c \in disk : Plain(c) /\ Fits(Loaded) => c \in Loaded.safe
  BY LoadedPolicy
<1>3. /\ cur' \in Version /\ cur' <= events' + 1 /\ events' \in 0..MaxEvents
      /\ pol' \in [Version -> Policy] /\ pol'[cur'] = Loaded
      /\ cur' \in Nat \ {0} /\ \A b \in Binary : file[b] <= events'
  BY <1>1, <1>2, NextVersion
<1>4. QueueSize \in Nat /\ Workers \in Nat
  BY GateAssumption
<1>5. Idle \in Call /\ Sound(Idle, pol', cur', stamped')
  BY <1>3, IdleSound
<1>6. call' \in [Caller -> Call] /\ \A g \in Caller : Sound(call'[g], pol', cur', stamped')
  BY <1>1, <1>5
<1>7. /\ queue' \in 0..QueueSize /\ writing' \in 0..Workers /\ workers' \in 0..Workers
      /\ chan' \in [Caller -> Action \cup {""}]
  <2>1. 0 \in 0..QueueSize /\ 0 \in 0..Workers /\ Workers \in 0..Workers
    BY <1>4
  <2> QED
    BY <1>1, <2>1
<1>8. TypeOK'
  BY <1>1, <1>3, <1>6, <1>7 DEF IInv, TypeOK, ledgerVars
<1>9. Learned'
  BY <1>1, <1>2, <1>3 DEF IInv, Learned, ledgerVars
<1> QED
  BY <1>6, <1>8, <1>9 DEF IInv

(* The invariant at the start and in every step. *)
LEMMA InitInv == Init => IInv
<1> SUFFICES ASSUME Init PROVE IInv
  OBVIOUS
<1>1. /\ InitPolicy \in Policy /\ QueueSize \in Nat /\ Workers \in Nat /\ MaxCalls \in Nat
      /\ MaxAnswers \in Nat /\ MaxEvents \in Nat
  BY GateAssumption
<1>2. cur \in Version /\ cur \in Nat \ {0}
  <2>1. cur = 1
    BY DEF Init
  <2> QED
    BY <1>1, <2>1 DEF Version
<1>3. Idle \in Call /\ Sound(Idle, pol, cur, stamped)
  BY <1>2, IdleSound
<1>4. /\ 0 \in 0..QueueSize /\ 0 \in 0..Workers /\ Workers \in 0..Workers /\ 0 \in 0..MaxCalls
      /\ 0 \in 0..MaxAnswers /\ 0 \in 0..MaxEvents
  BY <1>1
<1>5. TypeOK
  BY <1>1, <1>2, <1>3, <1>4 DEF Init, TypeOK
<1>6. Learned
  <2>1. cur = 1 /\ events = 0 /\ \A b \in Binary : file[b] = 0
    BY DEF Init
  <2>2. cur <= events + 1 /\ \A b \in Binary : file[b] <= events
    BY <2>1
  <2> QED
    BY <2>2 DEF Init, Learned
<1> QED
  BY <1>3, <1>5, <1>6 DEF IInv, Init

(* Every action keeps the invariant. *)
LEMMA NextInv == IInv /\ [Next]_vars => IInv'
<1> SUFFICES ASSUME IInv, [Next]_vars PROVE IInv'
  OBVIOUS
<1>1. CASE UNCHANGED vars
  BY <1>1 DEF IInv, TypeOK, Learned, vars, policyVars, ledgerVars, auditVars, counts
<1>2. ASSUME NEW f \in Caller, Step(f) PROVE IInv'
  BY <1>2, BandsStep, RecordStep, LookupStep, OnceStep, RememberStep, BlacklistStep, AgainStep,
     ApproveStep, EndStep DEF Step
<1>3. ASSUME NEW f \in Caller, Cancel(f) \/ \E c \in Cmd : Check(f, c) PROVE IInv'
  BY <1>3, EndStep, CheckStep
<1> QED
  BY <1>1, <1>2, <1>3, OtherStep, PutStep, RestartStep DEF Next

(* The invariant holds in every state of the specification. *)
LEMMA Invariant == Spec => []IInv
BY InitInv, NextInv, PTL DEF Spec

(* Every variable of the gate keeps its type: in particular the audit queue  *)
(* and its writers stay within their counts.                                 *)
THEOREM TypeCorrect == Spec => []TypeOK
<1>1. IInv => TypeOK
  BY DEF IInv
<1> QED
  BY <1>1, Invariant, PTL

(* An approval is in the channel of a caller, or was taken by its call, or   *)
(* is used up: the approvals not yet used are owed to the caller.            *)
Taken(c) == IF c.human THEN 1 ELSE 0
Pending(a) == IF a \in Approval THEN 1 ELSE 0
Owed(c, a) == Taken(c) + Pending(a)

Balanced == \A f \in Caller : dangers[f] + Owed(call[f], chan[f]) <= granted[f]

(* A call has taken at most one approval.                                    *)
LEMMA TakenIs == ASSUME NEW c
                 PROVE  Taken(c) \in {0, 1} /\ (c.human => Taken(c) = 1) /\ (~c.human => Taken(c) = 0)
BY Zenon DEF Taken

(* A channel holds at most one approval.                                     *)
LEMMA PendingIs == ASSUME NEW a
                   PROVE  /\ Pending(a) \in {0, 1}
                          /\ (a \in Approval => Pending(a) = 1) /\ (a \notin Approval => Pending(a) = 0)
BY Zenon DEF Pending

(* Who owes nothing more than before keeps the balance.                      *)
LEMMA KeepsBalance ==
  ASSUME IInv, Balanced, NEW f \in Caller,
         \A g \in Caller \ {f} : Owed(call'[g], chan'[g]) = Owed(call[g], chan[g]),
         \A g \in Caller \ {f} : dangers'[g] = dangers[g] /\ granted'[g] = granted[g],
         dangers'[f] + Owed(call'[f], chan'[f]) <= granted'[f]
  PROVE  Balanced'
BY DEF Balanced

(* Steps that neither take an answer, nor give one, nor run an operation.    *)
LEMMA QuietBalance ==
  ASSUME IInv, Balanced, UNCHANGED <<granted, dangers>>, chan' = chan,
         \A g \in Caller : call'[g].human => call[g].human
  PROVE  Balanced'
<1>1. ASSUME NEW g \in Caller PROVE dangers'[g] + Owed(call'[g], chan'[g]) <= granted'[g]
  <2>1. dangers[g] \in Nat /\ granted[g] \in Nat /\ dangers[g] + Owed(call[g], chan[g]) <= granted[g]
    BY Shape DEF Balanced
  <2>2. /\ Taken(call'[g]) \in {0, 1} /\ Taken(call[g]) \in {0, 1}
        /\ Taken(call'[g]) = 1 => Taken(call[g]) = 1
        /\ Pending(chan[g]) \in {0, 1}
    BY TakenIs, PendingIs
  <2> QED
    BY <2>1, <2>2 DEF Owed
<1> QED
  BY <1>1 DEF Balanced

(* A call is replaced by one that has taken no approval, or the same one.    *)
LEMMA NoNewHuman ==
  ASSUME IInv, NEW f \in Caller, NEW STATE d, d.human => call[f].human, call' = [call EXCEPT ![f] = d]
  PROVE  \A g \in Caller : call'[g].human => call[g].human
<1>1. call \in [Caller -> Call]
  BY Shape
<1>2. \A g \in Caller : call'[g] = IF g = f THEN d ELSE call[g]
  BY <1>1
<1> QED
  BY <1>2

(* The ways Check returns leave the approval alone.                          *)
LEMMA ReturnHuman ==
  ASSUME IInv, NEW f \in Caller, NEW STATE c, c \in Call, ~c.human,
         Allow(f, c) \/ Deny(f) \/ (\E r \in Reason : RequireHITL(f, c, r)) \/ Final(f, c)
  PROVE  \A g \in Caller : call'[g].human => call[g].human
<1>1. /\ ~Idle.human /\ ~[c EXCEPT !.pc = "exec"].human
      /\ \A r \in Reason : ~[c EXCEPT !.pc = "await", !.reason = r].human
  BY DEF Idle, Call
<1>2. CASE call' = [call EXCEPT ![f] = Idle]
  BY <1>1, <1>2, NoNewHuman
<1>3. CASE call' = [call EXCEPT ![f] = [c EXCEPT !.pc = "exec"]]
  BY <1>1, <1>3, NoNewHuman
<1>4. ASSUME NEW r \in Reason, call' = [call EXCEPT ![f] = [c EXCEPT !.pc = "await", !.reason = r]]
      PROVE  \A g \in Caller : call'[g].human => call[g].human
  BY <1>1, <1>4, NoNewHuman
<1>5. "caution" \in Reason /\ "unknown" \in Reason
  BY DEF Reason
<1> QED
  BY <1>2, <1>3, <1>4, <1>5 DEF Final, Allow, Deny, RequireHITL

(* Evaluate and the ledger take no approval.                                 *)
LEMMA JudgeBalance ==
  ASSUME IInv, Balanced, NEW f \in Caller,
         \/ Bands(f) \/ Record(f) \/ Lookup(f) \/ RecordAgain(f) \/ Approve(f)
         \/ AwaitCancelled(f) \/ Cancel(f) \/ \E c \in Cmd : Check(f, c)
  PROVE  Balanced'
<1>1. UNCHANGED <<granted, dangers>> /\ chan' = chan
  BY DEF Bands, Record, Lookup, RecordAgain, Approve, AwaitCancelled, Cancel, Check, counts
<1>2. call[f] \in Call /\ call \in [Caller -> Call] /\ Sound(call[f], pol, cur, stamped)
  BY Shape DEF IInv
<1> DEFINE Goal == \A g \in Caller : call'[g].human => call[g].human
<1>3. ASSUME NEW c \in Cmd, Check(f, c) PROVE Goal
  <2> DEFINE begun == [Idle EXCEPT !.cmd = c, !.ver = cur, !.remembered = c \in remembered,
                                   !.barred = c \in barred]
             on == [begun EXCEPT !.pc = "bands"]
  <2>1. begun \in Call
    <3>1. Idle \in Call /\ cur \in Version
      BY Shape, IdleSound
    <3>2. (c \in remembered) \in BOOLEAN /\ (c \in barred) \in BOOLEAN
      OBVIOUS
    <3> HIDE DEF Idle
    <3> QED
      BY <3>1, <3>2 DEF Call
  <2>2. ~begun.human /\ ~on.human
    BY DEF Idle
  <2>3. Allow(f, begun) \/ Deny(f) \/ call' = [call EXCEPT ![f] = on]
    BY <1>3 DEF Check
  <2> HIDE DEF begun, on
  <2> QED
    BY <2>1, <2>2, <2>3, ReturnHuman, NoNewHuman
<1>4. ASSUME Bands(f) PROVE Goal
  <2> DEFINE c == [call[f] EXCEPT !.band = BandOf(Current(f), Inner[call[f].cmd])]
             on == [c EXCEPT !.pc = "record"]
  <2>1. c \in Call /\ ~c.human /\ ~on.human
    BY <1>2, <1>4, BandCorrect DEF Bands, At, Sound, Call
  <2>2. "budget" \in Reason /\ "dangerous" \in Reason
    BY DEF Reason
  <2>3. \/ RequireHITL(f, c, "budget") \/ RequireHITL(f, c, "dangerous") \/ Deny(f) \/ Final(f, c)
        \/ call' = [call EXCEPT ![f] = on]
    BY <1>4 DEF Bands
  <2> HIDE DEF c, on
  <2> QED
    BY <2>1, <2>2, <2>3, ReturnHuman, NoNewHuman
<1>5. ASSUME Record(f) \/ Lookup(f) PROVE Goal
  <2> DEFINE d == [call[f] EXCEPT !.sum = NoSum]
             on == [call[f] EXCEPT !.sum = Content(f), !.pc = "lookup"]
  <2>1. d \in Call /\ ~d.human /\ ~call[f].human /\ ~on.human
    BY <1>2, <1>5 DEF Record, Lookup, At, Sound, Call
  <2>2. "first_run" \in Reason
    BY DEF Reason
  <2>3. \/ RequireHITL(f, call[f], "first_run") \/ Final(f, call[f]) \/ Final(f, d)
        \/ call' = [call EXCEPT ![f] = on]
    BY <1>2, <1>5 DEF Record, Lookup
  <2> HIDE DEF d, on
  <2> QED
    BY <1>2, <2>1, <2>2, <2>3, ReturnHuman, NoNewHuman
<1>6. ASSUME RecordAgain(f) \/ Approve(f) \/ AwaitCancelled(f) \/ Cancel(f) PROVE Goal
  <2>1. ~Idle.human
    BY DEF Idle
  <2> QED
    BY <1>2, <1>6, <2>1 DEF RecordAgain, Approve, AwaitCancelled, Denied, Cancel, Call
<1> QED
  BY <1>1, <1>3, <1>4, <1>5, <1>6, QuietBalance

(* An approval that is taken leaves the channel for the call.                *)
LEMMA TakenBalance ==
  ASSUME IInv, Balanced, NEW f \in Caller,
         ApproveOnce(f) \/ DenyOnce(f) \/ Remember(f) \/ Blacklist(f)
  PROVE  Balanced'
<1>1. UNCHANGED <<granted, dangers>> /\ call[f].pc = "await"
  BY DEF ApproveOnce, DenyOnce, Remember, Blacklist, Take, At, counts
<1>2. call \in [Caller -> Call] /\ chan \in [Caller -> Action \cup {""}]
  BY Shape
<1>3. ~call[f].human
  BY <1>1 DEF IInv, Sound
<1>4. chan' = [chan EXCEPT ![f] = ""]
  BY DEF ApproveOnce, DenyOnce, Remember, Blacklist, Take
<1>5. \A g \in Caller \ {f} : call'[g] = call[g] /\ chan'[g] = chan[g]
  BY <1>2, <1>4 DEF ApproveOnce, DenyOnce, Remember, Blacklist, Approved, Denied
<1>6. chan'[f] = "" /\ (call'[f].human => chan[f] \in Approval)
  <2>1. CASE ApproveOnce(f) \/ Remember(f)
    BY <1>2, <1>4, <2>1 DEF ApproveOnce, Remember, Take, Approval
  <2>2. CASE DenyOnce(f) \/ Blacklist(f)
    <3>1. ~Idle.human /\ call'[f] = Idle
      BY <1>2, <2>2 DEF DenyOnce, Blacklist, Denied, Idle
    <3> QED
      BY <1>2, <1>4, <3>1
  <2> QED
    BY <2>1, <2>2
<1>7. dangers[f] \in Nat /\ granted[f] \in Nat /\ dangers[f] + Owed(call[f], chan[f]) <= granted[f]
  BY Shape DEF Balanced
<1>8. dangers'[f] + Owed(call'[f], chan'[f]) <= granted'[f]
  <2>1. "" \notin Approval
    BY DEF Approval
  <2>2. Owed(call'[f], chan'[f]) <= Owed(call[f], chan[f])
    <3>1. Taken(call[f]) = 0 /\ Pending(chan'[f]) = 0
      BY <1>3, <1>6, <2>1, TakenIs, PendingIs
    <3>2. Taken(call'[f]) \in {0, 1} /\ Pending(chan[f]) \in {0, 1}
      BY TakenIs, PendingIs
    <3>3. Taken(call'[f]) = 1 => Pending(chan[f]) = 1
      BY <1>6, TakenIs, PendingIs
    <3> QED
      BY <3>1, <3>2, <3>3 DEF Owed
  <2>3. Owed(call'[f], chan'[f]) \in Nat /\ Owed(call[f], chan[f]) \in Nat
    BY TakenIs, PendingIs DEF Owed
  <2> QED
    BY <1>1, <1>7, <2>2, <2>3
<1> QED
  BY <1>1, <1>5, <1>8, KeepsBalance

(* A dangerous operation runs on an approval that its call has taken.        *)
LEMMA ExecBalance == ASSUME IInv, Balanced, NEW f \in Caller, Exec(f) PROVE Balanced'
<1>1. /\ granted' = granted /\ chan' = chan /\ call[f].pc = "exec"
      /\ dangers' = IF Dangerous(call[f]) THEN [dangers EXCEPT ![f] = @ + 1] ELSE dangers
      /\ call' = [call EXCEPT ![f] = Idle]
  BY DEF Exec, At
<1>2. call \in [Caller -> Call] /\ dangers \in [Caller -> Nat] /\ granted \in [Caller -> Nat]
  BY Shape
<1>3. Dangerous(call[f]) => call[f].human
  BY <1>1 DEF IInv, Sound, Dangerous
<1>4. ~call'[f].human
  BY <1>1, <1>2 DEF Idle
<1>5. dangers[f] + Owed(call[f], chan[f]) <= granted[f]
  BY DEF Balanced
<1>6. dangers'[f] = IF Dangerous(call[f]) THEN dangers[f] + 1 ELSE dangers[f]
  BY <1>1, <1>2
<1>7. dangers'[f] + Owed(call'[f], chan'[f]) <= granted'[f]
  <2>1. /\ Taken(call'[f]) = 0 /\ Taken(call[f]) \in {0, 1}
        /\ Dangerous(call[f]) => Taken(call[f]) = 1
        /\ Pending(chan[f]) \in {0, 1}
    BY <1>3, <1>4, TakenIs, PendingIs
  <2> QED
    BY <1>1, <1>2, <1>5, <1>6, <2>1 DEF Owed
<1>8. \A g \in Caller \ {f} : call'[g] = call[g] /\ dangers'[g] = dangers[g]
  BY <1>1, <1>2
<1> QED
  BY <1>1, <1>7, <1>8, KeepsBalance

(* A human's approval is counted when it is sent.                            *)
LEMMA AnswerBalance ==
  ASSUME IInv, Balanced, NEW f \in Caller, NEW a \in Action, Answer(f, a) PROVE Balanced'
<1>1. /\ dangers' = dangers /\ call' = call /\ chan[f] = "" /\ chan' = [chan EXCEPT ![f] = a]
      /\ granted' = IF a \in Approval THEN [granted EXCEPT ![f] = @ + 1] ELSE granted
  BY DEF Answer
<1>2. chan \in [Caller -> Action \cup {""}] /\ granted \in [Caller -> Nat] /\ dangers \in [Caller -> Nat]
  BY Shape
<1>3. chan'[f] = a /\ granted'[f] = IF a \in Approval THEN granted[f] + 1 ELSE granted[f]
  BY <1>1, <1>2
<1>4. dangers[f] + Owed(call[f], chan[f]) <= granted[f]
  BY DEF Balanced
<1>5. dangers'[f] + Owed(call'[f], chan'[f]) <= granted'[f]
  <2>1. chan[f] \notin Approval /\ dangers' = dangers
    BY <1>1 DEF Approval
  <2>2. Pending(chan[f]) = 0 /\ Pending(a) \in {0, 1} /\ Taken(call[f]) \in {0, 1}
    BY <2>1, TakenIs, PendingIs
  <2>3. dangers[f] \in Nat /\ granted[f] \in Nat
    BY <1>2
  <2>4. dangers[f] + Taken(call[f]) <= granted[f]
    BY <1>4, <2>2, <2>3 DEF Owed
  <2>5. granted'[f] = granted[f] + Pending(a)
    <3>1. CASE a \in Approval
      BY <1>3, <2>3, <3>1, PendingIs
    <3>2. CASE a \notin Approval
      <4>1. Pending(a) = 0 /\ granted'[f] = granted[f]
        BY <1>3, <3>2, PendingIs
      <4> QED
        BY <2>3, <4>1
    <3> QED
      BY <3>1, <3>2
  <2>6. Owed(call'[f], chan'[f]) = Taken(call[f]) + Pending(a)
    BY <1>1, <1>3 DEF Owed
  <2> QED
    BY <2>1, <2>2, <2>3, <2>4, <2>5, <2>6
<1>6. \A g \in Caller \ {f} : chan'[g] = chan[g] /\ granted'[g] = granted[g]
  BY <1>1, <1>2
<1> QED
  BY <1>1, <1>5, <1>6, KeepsBalance

(* A restart takes calls and channels away.                                  *)
LEMMA RestartBalance == ASSUME IInv, Balanced, Restart PROVE Balanced'
<1>1. ASSUME NEW g \in Caller PROVE dangers'[g] + Owed(call'[g], chan'[g]) <= granted'[g]
  <2>1. /\ dangers' = dangers /\ granted' = granted /\ ~call'[g].human /\ chan'[g] \notin Approval
    BY DEF Restart, Idle, Approval
  <2>2. dangers[g] \in Nat /\ granted[g] \in Nat /\ dangers[g] + Owed(call[g], chan[g]) <= granted[g]
    BY Shape DEF Balanced
  <2>3. /\ Taken(call'[g]) = 0 /\ Pending(chan'[g]) = 0
        /\ Taken(call[g]) \in {0, 1} /\ Pending(chan[g]) \in {0, 1}
    BY <2>1, TakenIs, PendingIs
  <2> QED
    BY <2>1, <2>2, <2>3 DEF Owed
<1> QED
  BY <1>1 DEF Balanced

(* The balance holds in every state of the specification.                    *)
LEMMA AlwaysBalanced == Spec => []Balanced
<1>1. Init => Balanced
  <2> SUFFICES ASSUME Init, NEW f \in Caller PROVE dangers[f] + Owed(call[f], chan[f]) <= granted[f]
    BY DEF Balanced
  <2>1. dangers[f] = 0 /\ granted[f] = 0 /\ ~call[f].human /\ chan[f] \notin Approval
    BY DEF Init, Idle, Approval
  <2> QED
    BY <2>1, TakenIs, PendingIs DEF Owed
<1>2. IInv /\ Balanced /\ [Next]_vars => Balanced'
  <2> SUFFICES ASSUME IInv, Balanced, [Next]_vars PROVE Balanced'
    OBVIOUS
  <2>1. CASE UNCHANGED vars
    BY <2>1, QuietBalance DEF vars, counts
  <2>2. ASSUME NEW f \in Caller, Step(f) \/ Cancel(f) \/ \E c \in Cmd : Check(f, c) PROVE Balanced'
    BY <2>2, JudgeBalance, TakenBalance, ExecBalance DEF Step
  <2>3. CASE \/ TakeJob \/ JobDone \/ AwakenBegin \/ AwakenEnd \/ \E p \in Policies : Put(p)
             \/ \E s \in Sum : Revoke(s)
             \/ \E b \in Binary : Upgrade(b)
    <3>1. UNCHANGED <<granted, dangers, chan, call>>
      BY <2>3 DEF TakeJob, JobDone, AwakenBegin, AwakenEnd, Put, Revoke, Upgrade, counts
    <3> QED
      BY <3>1, QuietBalance
  <2> QED
    BY <2>1, <2>2, <2>3, AnswerBalance, RestartBalance DEF Next
<1> QED
  BY <1>1, <1>2, Invariant, PTL DEF Spec

(* Whatever is remembered, blacklisted or put meanwhile, a firing runs no    *)
(* more dangerous commands than humans have approved on its channel: no      *)
(* approval is used twice, and none is made up from a learned pattern.       *)
THEOREM DangerAskedHolds == Spec => []DangerAsked
<1>1. IInv /\ Balanced => DangerAsked
  <2> SUFFICES ASSUME IInv, Balanced, NEW f \in Caller PROVE dangers[f] <= granted[f]
    BY DEF DangerAsked
  <2>1. dangers[f] \in Nat /\ granted[f] \in Nat /\ dangers[f] + Owed(call[f], chan[f]) <= granted[f]
    BY Shape DEF Balanced
  <2>2. Owed(call[f], chan[f]) \in Nat
    BY TakenIs, PendingIs DEF Owed
  <2> QED
    BY <2>1, <2>2
<1> QED
  BY <1>1, Invariant, AlwaysBalanced, PTL

(* A blacklisted command does not run under the policy it was blacklisted    *)
(* in, whatever is remembered or approved later, while the lists fit.        *)
THEOREM BlacklistHoldsAlways == Spec => []BlacklistHolds
<1>1. IInv => BlacklistHolds
  BY DEF IInv, BlacklistHolds, Sound, At, Current
<1> QED
  BY <1>1, Invariant, PTL

(* A remembered command asks no more about its command line, also after a    *)
(* restart, while the lists fit.                                             *)
THEOREM RememberSticksAlways == Spec => []RememberSticks
<1>1. IInv => RememberSticks
  BY DEF IInv, RememberSticks, Sound, At, Current
<1> QED
  BY <1>1, Invariant, PTL

(* With a ledger that answers, only contents that were approved at some time *)
(* run unasked.                                                              *)
THEOREM UnaskedIsKnownAlways == Spec => []UnaskedIsKnown
<1>1. IInv => UnaskedIsKnown
  BY DEF IInv, UnaskedIsKnown, Sound, At
<1> QED
  BY <1>1, Invariant, PTL

=============================================================================
