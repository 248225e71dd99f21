----------------------------- MODULE Artefacts -----------------------------
(***************************************************************************)
(* The provenance ledger of the files the assistant writes, and the three  *)
(* services that act on it and on the disk: the host adapter's WriteFile   *)
(* (reserve a row, write the file, settle the row), the rollback service   *)
(* (move a set of files into quarantine and back, one rename at a time)    *)
(* and the purge service (settle the ledger, then remove the directory).   *)
(*                                                                         *)
(* One artefact set is modelled: sets share neither rows nor directories.  *)
(* A row is the index of its entry in "rows"; the bytes written for row r  *)
(* are the value r, and 0 is a path with no file.  Every file-system or    *)
(* ledger call is a step of its own, so several administrators, the writer *)
(* and the hourly purge interleave between any two of them; a call may     *)
(* fail (at most MaxFaults times), and the server may crash between two.   *)
(*                                                                         *)
(* What the services promise holds except after one of seven mishaps the   *)
(* code does not guard against; "mishap" records which ones happened.      *)
(***************************************************************************)
EXTENDS Integers, Sequences, FiniteSets, SequencesExt

CONSTANTS
    Path,           \* the files of the set
    Admin,          \* requests of the admin API that may be in flight together
    Backends,       \* ledgers to start with: "memory", "postgres"
    Grace,          \* ARTEFACT_GRACE_DAYS
    MaxRows,        \* bound: writes
    MaxTime,        \* bound: days
    MaxFaults,      \* bound: failing file-system and ledger calls
    MaxCrashes      \* bound: crashes of the server

ASSUME ArtefactsAssumption ==
    /\ Backends \subseteq {"memory", "postgres"}
    /\ Grace \in Nat \ {0} /\ MaxRows \in Nat /\ MaxTime \in Nat
    /\ MaxFaults \in Nat /\ MaxCrashes \in Nat

VARIABLES
    backend,    \* which ledger main.go wired
    now,        \* days since the start
    rows,       \* the ledger: sequence of [path, state, qat]
    disk,       \* the bytes at a path: at home, in the staging and in the final directory
    dirs,       \* which of the two quarantine directories exist
    writer,     \* the WriteFile in flight: [pc, row]
    op,         \* per administrator: [pc, snap, i, moves]
    sweep,      \* the purge: "idle", or "remove" between its two halves
    faults,     \* calls that failed
    crashes,    \* crashes so far
    mishap,     \* what happened that the code does not guard against
    gone        \* rows whose bytes a RemoveAll deleted before they were purged

vars == <<backend, now, rows, disk, dirs, writer, op, sweep, faults, crashes, mishap, gone>>

\* crash: the server stopped with calls in flight.  overlap: two services were
\* at work on the set at once.  unmoved: Ledger.Rollback quarantined a row whose
\* file the rollback had not moved.  stamp: it kept an old quarantined_at.
\* stuck: Ledger.Restore failed after the files had gone home.  indoubt:
\* Ledger.Rollback was committed and reported an error, and the files went home.
\* twice: a path was written twice in the set.
Mishaps == {"crash", "overlap", "unmoved", "stamp", "stuck", "indoubt", "twice"}

State == {"pending", "active", "quarantined", "restored", "purged"}

Pc == {"idle", "read", "move", "reverse", "ledger", "uncommit",
       "rread", "rmove", "rreverse", "rledger"}

Idle == [pc |-> "idle", snap |-> <<>>, i |-> 1, moves |-> <<>>]

TypeOK ==
    /\ backend \in Backends
    /\ now \in 0..MaxTime
    /\ \A r \in DOMAIN rows :
          rows[r] \in [path : Path, state : State, qat : -1..MaxTime]
    /\ disk \in [{"home", "staging", "final"} -> [Path -> 0..MaxRows]]
    /\ dirs \subseteq {"staging", "final"}
    /\ writer \in [pc : {"idle", "write", "post"}, row : 0..MaxRows]
    /\ \A a \in Admin : op[a].pc \in Pc /\ op[a].i \in 1..MaxRows + 1
    /\ sweep \in {"idle", "remove"}
    /\ faults \in 0..MaxFaults /\ crashes \in 0..MaxCrashes
    /\ mishap \subseteq Mishaps
    /\ gone \subseteq 1..MaxRows

Init ==
    /\ backend \in Backends
    /\ now = 0
    /\ rows = <<>>
    /\ disk = [l \in {"home", "staging", "final"} |-> [p \in Path |-> 0]]
    /\ dirs = {}
    /\ writer = [pc |-> "idle", row |-> 0]
    /\ op = [a \in Admin |-> Idle]
    /\ sweep = "idle"
    /\ faults = 0 /\ crashes = 0
    /\ mishap = {} /\ gone = {}

----------------------------------------------------------------------------
(* The disk: what FSMover's calls do.                                      *)

Fault == faults < MaxFaults /\ faults' = faults + 1

NoFault == UNCHANGED faults

Missing == [p \in Path |-> 0]

Files(loc) == {disk[loc][p] : p \in Path} \ {0}

\* os.Rename of one file, which replaces what is at the destination; the
\* destination's directory has been created first.
Renamed(src, dst, p) ==
    [disk EXCEPT ![src][p] = 0, ![dst][p] = disk[src][p]]

MadeDir(dst) == IF dst = "home" THEN dirs ELSE dirs \union {dst}

\* Move of one file: it fails when the source is missing or the call does.
MoveOk(src, dst, p) ==
    /\ disk[src][p] # 0
    /\ NoFault
    /\ disk' = Renamed(src, dst, p)
    /\ dirs' = MadeDir(dst)

MoveFails(src, dst, p) ==
    /\ IF disk[src][p] = 0 THEN NoFault ELSE Fault
    /\ dirs' = MadeDir(dst)
    /\ UNCHANGED disk

\* RemoveAll deletes a tree; what it deletes is lost unless it was purged.
Deleted(loc) == {r \in Files(loc) : r \in DOMAIN rows /\ rows[r].state # "purged"}

RemoveAll(loc) ==
    \/ /\ NoFault
       /\ disk' = [disk EXCEPT ![loc] = Missing]
       /\ dirs' = dirs \ {loc}
       /\ gone' = gone \union Deleted(loc)
    \/ /\ Fault
       /\ UNCHANGED <<disk, dirs, gone>>

----------------------------------------------------------------------------
(* The ledger, in memory and in Postgres.                                  *)

\* Two services at work on the set at once.
Overlap == IF sweep # "idle" \/ \E a \in Admin : op[a].pc # "idle" THEN {"overlap"} ELSE {}

\* PreWrite: a row in state "pending".  A second live row for the same path is
\* the mishap "twice": no rollback of the set can move both.
PreWrite(p) ==
    /\ rows' = Append(rows, [path |-> p, state |-> "pending", qat |-> -1])
    /\ mishap' = mishap \union
          (IF \E r \in DOMAIN rows : rows[r].path = p /\ rows[r].state # "purged"
           THEN {"twice"} ELSE {})

\* PostWrite settles the row; Postgres only settles one still pending.
PostWrite(r) ==
    IF backend = "postgres" /\ rows[r].state # "pending"
    THEN UNCHANGED rows
    ELSE rows' = [rows EXCEPT ![r].state = "active"]

\* The rows Rollback quarantines: all of them in memory, the live ones in Postgres.
ToQuarantine ==
    {r \in DOMAIN rows :
        backend = "memory" \/ rows[r].state \in {"active", "restored", "pending"}}

RollbackRejected ==
    \A r \in DOMAIN rows : rows[r].state \in {"quarantined", "purged"}

\* Rollback stamps the rows; Postgres keeps a stamp that is already there.
QuarantineStamp(r) ==
    IF backend = "postgres" /\ rows[r].qat # -1 THEN rows[r].qat ELSE now

QuarantineRows ==
    rows' = [r \in DOMAIN rows |->
        IF r \in ToQuarantine
        THEN [rows[r] EXCEPT !.state = "quarantined", !.qat = QuarantineStamp(r)]
        ELSE rows[r]]

LedgerRollback(moved) ==
    /\ QuarantineRows
    /\ mishap' = mishap
          \union (IF ToQuarantine \subseteq moved THEN {} ELSE {"unmoved"})
          \union (IF \A r \in ToQuarantine : QuarantineStamp(r) = now THEN {} ELSE {"stamp"})

RestoreRejected == \A r \in DOMAIN rows : rows[r].state # "quarantined"

LedgerRestore ==
    rows' = [r \in DOMAIN rows |->
        IF rows[r].state = "quarantined" THEN [rows[r] EXCEPT !.state = "restored"] ELSE rows[r]]

\* PurgeExpired's selection: quarantined before the cutoff.
Expired(days) ==
    {r \in DOMAIN rows : rows[r].state = "quarantined" /\ rows[r].qat < now - days}

LedgerPurge(expired) ==
    rows' = [r \in DOMAIN rows |->
        IF r \in expired THEN [rows[r] EXCEPT !.state = "purged"] ELSE rows[r]]

----------------------------------------------------------------------------
(* WriteFile                                                               *)

WriteBegin(p) ==
    /\ writer.pc = "idle"
    /\ Len(rows) < MaxRows     \* bound
    /\ PreWrite(p)
    /\ writer' = [pc |-> "write", row |-> Len(rows) + 1]
    /\ UNCHANGED <<backend, now, disk, dirs, op, sweep, faults, crashes, gone>>

\* The bytes reach the disk, or the write fails and its row stays pending.
WriteBytes ==
    /\ writer.pc = "write"
    /\ \/ /\ NoFault
          /\ disk' = [disk EXCEPT !["home"][rows[writer.row].path] = writer.row]
          /\ writer' = [writer EXCEPT !.pc = "post"]
       \/ /\ Fault
          /\ writer' = [pc |-> "idle", row |-> 0]
          /\ UNCHANGED disk
    /\ UNCHANGED <<backend, now, rows, dirs, op, sweep, crashes, mishap, gone>>

\* PostWrite; its error is only logged.
WriteEnd ==
    /\ writer.pc = "post"
    /\ \/ NoFault /\ PostWrite(writer.row)
       \/ Fault /\ UNCHANGED rows
    /\ writer' = [pc |-> "idle", row |-> 0]
    /\ UNCHANGED <<backend, now, disk, dirs, op, sweep, crashes, mishap, gone>>

----------------------------------------------------------------------------
(* RollbackService.Rollback                                                *)

SetForSet == [r \in DOMAIN rows |-> rows[r].state]

Goto(a, pc) == op' = [op EXCEPT ![a].pc = pc]

Return(a) == op' = [op EXCEPT ![a] = Idle]

RollbackBegin(a) ==
    /\ op[a].pc = "idle"
    /\ rows # <<>>
    /\ mishap' = mishap \union Overlap
    /\ op' = [op EXCEPT ![a] = [Idle EXCEPT !.pc = "read", !.snap = SetForSet]]
    /\ UNCHANGED <<backend, now, rows, disk, dirs, writer, sweep, faults, crashes, gone>>

\* Refused when the set's quarantine directory exists.
RollbackStage(a) ==
    /\ op[a].pc = "read"
    /\ \/ /\ "final" \in dirs
          /\ Return(a)
          /\ UNCHANGED <<dirs, faults>>
       \/ /\ "final" \notin dirs
          /\ \/ NoFault /\ dirs' = dirs \union {"staging"} /\ Goto(a, "move")
             \/ Fault /\ Return(a) /\ UNCHANGED dirs
    /\ UNCHANGED <<backend, now, rows, disk, writer, sweep, crashes, mishap, gone>>

Movable == {"active", "restored"}

\* One file is moved to the staging directory; rows in another state are
\* skipped, and the first failure starts the reversal.
RollbackMove(a) ==
    LET o == op[a]  p == rows[o.i].path IN
    /\ o.pc = "move"
    /\ o.i <= Len(o.snap)
    /\ \/ /\ o.snap[o.i] \notin Movable
          /\ op' = [op EXCEPT ![a].i = o.i + 1]
          /\ UNCHANGED <<disk, dirs, faults>>
       \/ /\ o.snap[o.i] \in Movable
          /\ MoveOk("home", "staging", p)
          /\ op' = [op EXCEPT ![a].i = o.i + 1, ![a].moves = Append(@, o.i)]
       \/ /\ o.snap[o.i] \in Movable
          /\ MoveFails("home", "staging", p)
          /\ Goto(a, "reverse")
    /\ UNCHANGED <<backend, now, rows, writer, sweep, crashes, mishap, gone>>

\* Staging becomes the quarantine directory, in one rename.
RollbackCommit(a) ==
    /\ op[a].pc = "move"
    /\ op[a].i > Len(op[a].snap)
    /\ \/ /\ "staging" \in dirs /\ "final" \notin dirs
          /\ NoFault
          /\ disk' = [disk EXCEPT !["final"] = disk["staging"], !["staging"] = Missing]
          /\ dirs' = {"final"}
          /\ Goto(a, "ledger")
       \/ /\ IF "staging" \in dirs /\ "final" \notin dirs THEN Fault ELSE NoFault
          /\ Goto(a, "reverse")
          /\ UNCHANGED <<disk, dirs>>
    /\ UNCHANGED <<backend, now, rows, writer, sweep, crashes, mishap, gone>>

RollbackLedger_KeepsMoves(a) ==
    /\ op[a].pc = "ledger"
    /\ \/ /\ ~RollbackRejected
          /\ NoFault
          /\ LedgerRollback(Range(op[a].moves))
       \/ /\ IF RollbackRejected THEN NoFault ELSE Fault
          /\ UNCHANGED <<rows, mishap>>
    /\ Return(a)
    /\ UNCHANGED <<backend, now, disk, dirs, writer, sweep, crashes, gone>>

\* The ledger follows, or refuses; the answer to a COMMIT may be lost.
RollbackLedger(a) ==
    /\ op[a].pc = "ledger"
    /\ \/ /\ ~RollbackRejected
          /\ NoFault
          /\ LedgerRollback(Range(op[a].moves))
          /\ Return(a)
       \/ /\ IF RollbackRejected THEN NoFault ELSE Fault
          /\ Goto(a, "uncommit")
          /\ UNCHANGED <<rows, mishap>>
       \/ /\ backend = "postgres" /\ ~RollbackRejected
          /\ Fault
          /\ QuarantineRows
          /\ mishap' = mishap \union {"indoubt"}
          /\ Goto(a, "uncommit")
    /\ UNCHANGED <<backend, now, disk, dirs, writer, sweep, crashes, gone>>

\* The ledger refused: the directory goes back to staging, or, when even that
\* fails, the call gives up.
RollbackUncommit(a) ==
    /\ op[a].pc = "uncommit"
    /\ \/ /\ "final" \in dirs /\ "staging" \notin dirs
          /\ NoFault
          /\ disk' = [disk EXCEPT !["staging"] = disk["final"], !["final"] = Missing]
          /\ dirs' = {"staging"}
          /\ Goto(a, "reverse")
       \/ /\ IF "final" \in dirs /\ "staging" \notin dirs THEN Fault ELSE NoFault
          /\ Return(a)
          /\ UNCHANGED <<disk, dirs>>
    /\ UNCHANGED <<backend, now, rows, writer, sweep, crashes, mishap, gone>>

RollbackReverse_Oldest(a) ==
    LET o == op[a]  r == Last(o.moves) IN
    /\ o.pc = "reverse"
    /\ o.moves # <<>>
    /\ MoveOk("staging", "home", rows[r].path) \/ MoveFails("staging", "home", rows[r].path)
    /\ op' = [op EXCEPT ![a].moves = <<>>]
    /\ UNCHANGED <<backend, now, rows, writer, sweep, crashes, mishap, gone>>

\* reverse: the moves are undone from the last to the first; one that fails
\* is logged and skipped.
RollbackReverse(a) ==
    LET o == op[a]  r == Last(o.moves) IN
    /\ o.pc = "reverse"
    /\ o.moves # <<>>
    /\ MoveOk("staging", "home", rows[r].path) \/ MoveFails("staging", "home", rows[r].path)
    /\ op' = [op EXCEPT ![a].moves = Front(@)]
    /\ UNCHANGED <<backend, now, rows, writer, sweep, crashes, mishap, gone>>

\* ... and the staging directory is removed with whatever is still in it.
RollbackClear(a) ==
    /\ op[a].pc = "reverse"
    /\ op[a].moves = <<>>
    /\ RemoveAll("staging")
    /\ Return(a)
    /\ UNCHANGED <<backend, now, rows, writer, sweep, crashes, mishap>>

----------------------------------------------------------------------------
(* RollbackService.Restore                                                 *)

RestoreBegin(a) ==
    /\ op[a].pc = "idle"
    /\ rows # <<>>
    /\ mishap' = mishap \union Overlap
    /\ op' = [op EXCEPT ![a] = [Idle EXCEPT !.pc = "rread", !.snap = SetForSet]]
    /\ UNCHANGED <<backend, now, rows, disk, dirs, writer, sweep, faults, crashes, gone>>

RestoreExists(a) ==
    /\ op[a].pc = "rread"
    /\ IF "final" \in dirs THEN Goto(a, "rmove") ELSE Return(a)
    /\ UNCHANGED <<backend, now, rows, disk, dirs, writer, sweep, faults, crashes, mishap, gone>>

\* One file goes home; a newer file there is replaced.
RestoreMove(a) ==
    LET o == op[a]  p == rows[o.i].path IN
    /\ o.pc = "rmove"
    /\ o.i <= Len(o.snap)
    /\ \/ /\ o.snap[o.i] # "quarantined"
          /\ op' = [op EXCEPT ![a].i = o.i + 1]
          /\ UNCHANGED <<disk, dirs, faults>>
       \/ /\ o.snap[o.i] = "quarantined"
          /\ MoveOk("final", "home", p)
          /\ op' = [op EXCEPT ![a].i = o.i + 1, ![a].moves = Append(@, o.i)]
       \/ /\ o.snap[o.i] = "quarantined"
          /\ MoveFails("final", "home", p)
          /\ Goto(a, "rreverse")
    /\ UNCHANGED <<backend, now, rows, writer, sweep, crashes, mishap, gone>>

RestoreReverse(a) ==
    LET o == op[a] IN
    /\ o.pc = "rreverse"
    /\ IF o.moves = <<>>
       THEN Return(a) /\ UNCHANGED <<disk, dirs, faults>>
       ELSE LET p == rows[Last(o.moves)].path IN
            /\ MoveOk("home", "final", p) \/ MoveFails("home", "final", p)
            /\ op' = [op EXCEPT ![a].moves = Front(@)]
    /\ UNCHANGED <<backend, now, rows, writer, sweep, crashes, mishap, gone>>

\* "The directory should be empty now."
RestoreClean(a) ==
    /\ op[a].pc = "rmove"
    /\ op[a].i > Len(op[a].snap)
    /\ RemoveAll("final")
    /\ Goto(a, "rledger")
    /\ UNCHANGED <<backend, now, rows, writer, sweep, crashes, mishap>>

\* The ledger follows; when it cannot, the files stay home and the set is
\* stuck: its rows say "quarantined" and its directory is gone.  When only the
\* answer to the COMMIT is lost, the rows follow and the call reports an error.
RestoreLedger(a) ==
    /\ op[a].pc = "rledger"
    /\ \/ /\ ~RestoreRejected
          /\ NoFault \/ (backend = "postgres" /\ Fault)
          /\ LedgerRestore
          /\ UNCHANGED mishap
       \/ /\ RestoreRejected
          /\ NoFault
          /\ UNCHANGED <<rows, mishap>>
       \/ /\ Fault
          /\ mishap' = mishap \union {"stuck"}
          /\ UNCHANGED rows
    /\ Return(a)
    /\ UNCHANGED <<backend, now, disk, dirs, writer, sweep, crashes, gone>>

----------------------------------------------------------------------------
(* PurgeService.Run: the hourly loop with the grace window, or an          *)
(* administrator with a window of her own.                                 *)

PurgeLedger(days) ==
    /\ sweep = "idle"
    /\ LedgerPurge(Expired(days))
    /\ sweep' = IF Expired(days) = {} THEN "idle" ELSE "remove"
    /\ mishap' = mishap \union (IF Expired(days) = {} THEN {} ELSE Overlap)
    /\ UNCHANGED <<backend, now, disk, dirs, writer, op, faults, crashes, gone>>

\* The directory of a set with a purged row is removed, once.
PurgeRemove ==
    /\ sweep = "remove"
    /\ RemoveAll("final")
    /\ sweep' = "idle"
    /\ UNCHANGED <<backend, now, rows, writer, op, crashes, mishap>>

----------------------------------------------------------------------------
(* The clock, and a crash of the server: calls in flight vanish, the disk  *)
(* and the Postgres rows stay.  (A crash with the in-memory ledger leaves  *)
(* no ledger to be consistent with.)                                       *)

Tick ==
    /\ now < MaxTime
    /\ now' = now + 1
    /\ UNCHANGED <<backend, rows, disk, dirs, writer, op, sweep, faults, crashes, mishap, gone>>

Crash ==
    /\ backend = "postgres"
    /\ crashes < MaxCrashes
    /\ crashes' = crashes + 1
    /\ mishap' = mishap \union {"crash"}
    /\ op' = [a \in Admin |-> Idle]
    /\ sweep' = "idle"
    /\ writer' = [pc |-> "idle", row |-> 0]
    /\ UNCHANGED <<backend, now, rows, disk, dirs, faults, gone>>

AdminStep(a) ==
    \/ RollbackBegin(a) \/ RollbackStage(a) \/ RollbackMove(a) \/ RollbackCommit(a)
    \/ RollbackLedger(a) \/ RollbackUncommit(a) \/ RollbackReverse(a) \/ RollbackClear(a)
    \/ RestoreBegin(a) \/ RestoreExists(a) \/ RestoreMove(a) \/ RestoreReverse(a)
    \/ RestoreClean(a) \/ RestoreLedger(a)

\* The background loop.
PurgeLoop == PurgeLedger(Grace)

\* POST /admin/artefacts/purge with older_than_days.
HandleAdminPurgeArtefacts == \E days \in 1..(Grace - 1) : PurgeLedger(days)

Next ==
    \/ \E p \in Path : WriteBegin(p)
    \/ WriteBytes
    \/ WriteEnd
    \/ \E a \in Admin : AdminStep(a)
    \/ PurgeLoop
    \/ HandleAdminPurgeArtefacts
    \/ PurgeRemove
    \/ Tick
    \/ Crash

Spec == Init /\ [][Next]_vars

----------------------------------------------------------------------------
(* Properties                                                              *)

AtRest == sweep = "idle" /\ writer.pc = "idle" /\ \A a \in Admin : op[a].pc = "idle"

\* No RemoveAll ever deletes bytes whose row has not been purged: the one that
\* ends a reversal finds staging empty, the one that ends a restore finds the
\* quarantine empty, and the one of the purge finds only purged rows, although
\* it removes a whole directory for one expired row.  It does not hold after a
\* crash (the next rollback of the set removes the staging directory the crash
\* left), nor when services overlap, the stamp is old, a restore got stuck, a
\* commit was in doubt or a path was written twice.
NothingDeleted == mishap \subseteq {"unmoved"} => gone = {}

\* With no service at work, the ledger tells where the bytes are: a live row's
\* file is at its path, a quarantined row's in the quarantine directory, and
\* nothing is left in staging; a failed call in a rollback or a restore is
\* undone completely (REQ-006 of the provenance spec), but for the mishaps, of
\* which "stuck" and "indoubt" are failures of the ledger's own calls.
LedgerMatchesDisk ==
    AtRest /\ mishap = {} =>
        /\ Files("staging") = {}
        /\ \A r \in DOMAIN rows :
              /\ rows[r].state \in Movable => disk["home"][rows[r].path] = r
              /\ rows[r].state = "quarantined" => disk["final"][rows[r].path] = r

=============================================================================
