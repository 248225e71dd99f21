-------------------------- MODULE ArtefactsProofs --------------------------
(***************************************************************************)
(* What rollback, restore and purge promise of the ledger and of the disk, *)
(* proved for every set of files, every number of administrators, writes   *)
(* and days, with at most one failing call: no bytes are removed before    *)
(* their row is purged, and with nobody at work the ledger tells where the *)
(* bytes are.                                                              *)
(***************************************************************************)
EXTENDS Artefacts, SequenceTheorems, TLAPS

Where == {"home", "staging", "final"}
RowType == [path : Path, state : State, qat : Int]
OpType == [pc : Pc, snap : Seq(State), i : Nat \ {0}, moves : Seq(Nat)]

(* The types, without the bounds.                                          *)
Shape ==
    /\ backend \in {"memory", "postgres"} /\ now \in Nat
    /\ rows \in Seq(RowType)
    /\ disk \in [Where -> [Path -> Nat]]
    /\ dirs \subseteq {"staging", "final"}
    /\ writer \in [pc : {"idle", "write", "post"}, row : Nat]
    /\ op \in [Admin -> OpType]
    /\ sweep \in {"idle", "remove"}
    /\ faults \in 0..MaxFaults

(* An operation o holds rows of a ledger of n rows, in their order.        *)
HeldIn(o, n) ==
    /\ Len(o.snap) <= n
    /\ \A k \in 1..Len(o.moves) : o.moves[k] \in 1..Len(o.snap) /\ o.moves[k] < o.i
    /\ \A k, l \in 1..Len(o.moves) : k < l => o.moves[k] < o.moves[l]
    /\ o.pc \in {"idle", "read", "rread"} => o.moves = <<>> /\ o.i = 1

InLedger ==
    /\ \A a \in Admin : HeldIn(op[a], Len(rows))
    /\ writer.pc # "idle" => writer.row \in 1..Len(rows)

(* The bytes of a row are only ever at the path of the row.                *)
AtItsPath ==
    \A l \in Where : \A p \in Path :
        disk[l][p] # 0 => disk[l][p] \in 1..Len(rows) /\ rows[disk[l][p]].path = p

Ledger == Shape /\ InLedger /\ AtItsPath
----------------------------------------------------------------------------
Row == 1..Len(rows)
Live(r) == rows[r].state \in {"pending", "active", "restored"}
Quarantined(r) == rows[r].state = "quarantined"

Rolling(a) == op[a].pc \in {"move", "reverse", "ledger", "uncommit"}
Staging(a) == op[a].pc \in {"move", "reverse"}
Committed(a) == op[a].pc \in {"ledger", "uncommit"}
Restoring(a) == op[a].pc \in {"rmove", "rreverse", "rledger"}
MovedBy(o) == {o.moves[k] : k \in 1..Len(o.moves)}
Moved(a) == MovedBy(op[a])

(* A file is in quarantine, or taken out of it by a restore under way.     *)
Stored(p) ==
    disk["final"][p] # 0 \/ \E a \in Admin : Restoring(a) /\ \E m \in Moved(a) : rows[m].path = p

(* One service at a time. *)
Solo ==
    \A a \in Admin : op[a].pc # "idle" =>
        sweep = "idle" /\ \A b \in Admin : op[b].pc # "idle" => b = a

(* A path has one live row; a quarantined row next to it has no file that  *)
(* a restore could bring back over it.                                     *)
OnePath ==
    \A r, s \in Row : r # s /\ rows[r].path = rows[s].path /\ Live(r) =>
        ~Live(s) /\ (Quarantined(s) => ~Stored(rows[r].path))

(* A settled row's file is at home unless a rollback has just moved it.    *)
HomeHas ==
    \A r \in Row : rows[r].state \in Movable =>
        \/ disk["home"][rows[r].path] = r
        \/ \E a \in Admin : Rolling(a) /\ r \in Moved(a)

(* The write in flight: no other row lives at its path, and a restore has  *)
(* nothing to bring back there.                                            *)
WriterAlone ==
    writer.pc # "idle" =>
        LET w == writer.row  p == rows[writer.row].path IN
        /\ rows[w].state \in {"pending", "quarantined", "purged"}
        /\ disk["final"][p] # w
        /\ \A s \in Row : rows[s].path = p =>
              (s # w => ~Live(s)) /\ (Quarantined(s) => ~Stored(p))
        /\ writer.pc = "post" => disk["home"][p] = w

(* A rollback under way: what it has moved is where it has moved it.       *)
InHand(a) ==
    LET here == IF Staging(a) THEN "staging" ELSE "final" IN
    /\ \A m \in Moved(a) : rows[m].state \in Movable /\ disk[here][rows[m].path] = m
    /\ \A p \in Path : disk[here][p] # 0 => disk[here][p] \in Moved(a)

RollbackSound ==
    \A a \in Admin :
        /\ Rolling(a) => InHand(a) /\ \A r \in Row : ~Quarantined(r)
        /\ op[a].pc \in {"read", "move"} =>
              \A j \in op[a].i..Len(op[a].snap) : op[a].snap[j] \in Movable => rows[j].state \in Movable
        /\ op[a].pc = "move" => "staging" \in dirs /\ "final" \notin dirs
        /\ Committed(a) => "final" \in dirs /\ "staging" \notin dirs
        /\ op[a].pc \in {"reverse", "uncommit"} => faults = 1 \/ op[a].moves = <<>>

(* Files are in staging only while a rollback moves them there or back.    *)
StagingEmpty ==
    (\A a \in Admin : ~Staging(a)) => \A p \in Path : disk["staging"][p] = 0

(* What is in quarantine has a directory, and belongs there.               *)
FinalSound ==
    /\ \A p \in Path : disk["final"][p] # 0 =>
          /\ "final" \in dirs
          /\ \/ rows[disk["final"][p]].state = "purged" /\ \A r \in Row : ~Quarantined(r)
             \/ Quarantined(disk["final"][p])
             \/ \E a \in Admin : Committed(a)
    /\ (\E r \in Row : Quarantined(r)) => "final" \in dirs \/ \E a \in Admin : op[a].pc = "rledger"

(* A restore under way: what it has moved is at home, each at its path.    *)
AtHome(a) ==
    \A m \in Moved(a) :
        /\ Quarantined(m) /\ disk["final"][rows[m].path] = 0
        /\ disk["home"][rows[m].path] # 0 /\ Quarantined(disk["home"][rows[m].path])
        /\ \A n \in Moved(a) : rows[n].path = rows[m].path => n = m

(* Its snapshot still tells which rows are quarantined, except for one     *)
(* whose write ended meanwhile, and which has no file in quarantine.       *)
Current(a) ==
    \A r \in Row :
        /\ Quarantined(r) => r <= Len(op[a].snap) /\ op[a].snap[r] = "quarantined"
        /\ Quarantined(r) /\ r < op[a].i => r \in Moved(a)
        /\ r <= Len(op[a].snap) /\ op[a].snap[r] = "quarantined" =>
              Quarantined(r) \/ (rows[r].state = "active" /\ disk["final"][rows[r].path] = 0)

RestoreSound ==
    \A a \in Admin :
        /\ Restoring(a) => AtHome(a)
        /\ op[a].pc \in {"rread", "rmove"} => Current(a)
        /\ op[a].pc = "rledger" => \A r \in Row : Quarantined(r) => r \in Moved(a)

(* All that is quarantined was quarantined at once, so a purge takes all.  *)
OneStamp == \A r, s \in Row : Quarantined(r) /\ Quarantined(s) => rows[r].qat = rows[s].qat
Swept == sweep = "remove" => \A r \in Row : ~Quarantined(r)

Sound ==
    /\ Solo /\ OnePath /\ HomeHas /\ WriterAlone /\ RollbackSound /\ StagingEmpty
    /\ FinalSound /\ RestoreSound /\ OneStamp /\ Swept /\ gone = {}

(* With no mishap at all, every quarantined row has its own file.          *)
Exact ==
    /\ \A r \in Row : Quarantined(r) =>
          \/ disk["final"][rows[r].path] = r
          \/ /\ disk["home"][rows[r].path] = r
             /\ \E a \in Admin : Restoring(a) /\ r \in Moved(a)
    /\ \A a \in Admin :
          /\ op[a].pc = "rreverse" => faults = 1 \/ op[a].moves = <<>>
          /\ op[a].pc \in {"rread", "rmove"} =>
                \A r \in 1..Len(op[a].snap) : op[a].snap[r] = "quarantined" => Quarantined(r)

(* The invariant: the ledger and the disk fit together unless one of the   *)
(* mishaps happened that the services do not guard against.                *)
IInv ==
    /\ Ledger
    /\ mishap \subseteq {"unmoved"} => Sound
    /\ mishap = {} => Exact

(* One call of the file system or of the ledger fails, at most.            *)
OneFault == MaxFaults <= 1
----------------------------------------------------------------------------
(* What the steps do to an operation and to the ledger's rows.             *)

LEMMA LongerLedger ==
    ASSUME NEW o, NEW n \in Nat, NEW m \in Nat, n <= m, Len(o.snap) \in Nat, HeldIn(o, n)
    PROVE  HeldIn(o, m)
BY DEF HeldIn

LEMMA GotoOp ==
    ASSUME op \in [Admin -> OpType], NEW a \in Admin, NEW l \in Pc, Goto(a, l)
    PROVE  /\ op' \in [Admin -> OpType]
           /\ \A b \in Admin \ {a} : op'[b] = op[b]
           /\ op'[a].pc = l /\ op'[a].snap = op[a].snap /\ op'[a].i = op[a].i
           /\ op'[a].moves = op[a].moves
BY DEF Goto, OpType

LEMMA IdleOp == Idle \in OpType /\ Idle.pc = "idle" /\ Idle.moves = <<>> /\ Len(Idle.snap) = 0 /\ Idle.i = 1
BY DEF Idle, OpType, Pc

LEMMA ReturnOp ==
    ASSUME op \in [Admin -> OpType], NEW a \in Admin, Return(a)
    PROVE  /\ op' \in [Admin -> OpType]
           /\ \A b \in Admin \ {a} : op'[b] = op[b]
           /\ op'[a] = Idle
BY IdleOp DEF Return

LEMMA BeginOp ==
    ASSUME op \in [Admin -> OpType], rows \in Seq(RowType), NEW a \in Admin, NEW l \in Pc,
           op' = [op EXCEPT ![a] = [Idle EXCEPT !.pc = l, !.snap = SetForSet]]
    PROVE  /\ op' \in [Admin -> OpType]
           /\ \A b \in Admin \ {a} : op'[b] = op[b]
           /\ op'[a].pc = l /\ op'[a].i = 1 /\ op'[a].moves = <<>>
           /\ Len(op'[a].snap) = Len(rows)
           /\ \A r \in 1..Len(rows) : op'[a].snap[r] = rows[r].state
<1> DEFINE s == SetForSet
<1>0. DOMAIN rows = 1..Len(rows) /\ Len(rows) \in Nat /\ \A r \in 1..Len(rows) : rows[r].state \in State
  <2>1. DOMAIN rows = 1..Len(rows) /\ Len(rows) \in Nat /\ \A r \in 1..Len(rows) : rows[r] \in RowType
    OBVIOUS
  <2> QED
    BY <2>1 DEF RowType
<1>1. s \in [1..Len(rows) -> State] /\ \A r \in 1..Len(rows) : s[r] = rows[r].state
    BY <1>0 DEF SetForSet
<1>3. s \in Seq(State) /\ Len(s) = Len(rows)
    BY <1>0, <1>1
<1> HIDE DEF s
<1> DEFINE o == [Idle EXCEPT !.pc = l, !.snap = s]
<1>2. o \in OpType /\ o.pc = l /\ o.snap = s /\ o.i = 1 /\ o.moves = <<>>
    BY <1>3, IdleOp DEF OpType
<1>4. op' = [op EXCEPT ![a] = o]
    BY DEF s
<1> HIDE DEF o
<1>5. op' \in [Admin -> OpType] /\ op'[a] = o /\ \A b \in Admin \ {a} : op'[b] = op[b]
    BY <1>2, <1>4
<1> QED
    BY <1>1, <1>2, <1>3, <1>5

LEMMA SkipOp ==
    ASSUME op \in [Admin -> OpType], NEW a \in Admin, op' = [op EXCEPT ![a].i = op[a].i + 1]
    PROVE  /\ op' \in [Admin -> OpType]
           /\ \A b \in Admin \ {a} : op'[b] = op[b]
           /\ op'[a].pc = op[a].pc /\ op'[a].snap = op[a].snap /\ op'[a].i = op[a].i + 1
           /\ op'[a].moves = op[a].moves
<1>1. op[a].i + 1 \in Nat \ {0}
    BY DEF OpType
<1> QED
    BY <1>1 DEF OpType

LEMMA AppendOp ==
    ASSUME op \in [Admin -> OpType], NEW a \in Admin, 
           op' = [op EXCEPT ![a].i = op[a].i + 1, ![a].moves = Append(@, op[a].i)]
    PROVE  /\ op' \in [Admin -> OpType]
           /\ \A b \in Admin \ {a} : op'[b] = op[b]
           /\ op'[a].pc = op[a].pc /\ op'[a].snap = op[a].snap /\ op'[a].i = op[a].i + 1
           /\ op'[a].moves = Append(op[a].moves, op[a].i)
           /\ MovedBy(op'[a]) = MovedBy(op[a]) \union {op[a].i}
<1>1. op[a].i + 1 \in Nat \ {0} /\ op[a].i \in Nat /\ op[a].moves \in Seq(Nat)
    BY DEF OpType
<1>2. Append(op[a].moves, op[a].i) \in Seq(Nat)
    BY <1>1
<1>3. /\ op' \in [Admin -> OpType]
      /\ \A b \in Admin \ {a} : op'[b] = op[b]
      /\ op'[a].pc = op[a].pc /\ op'[a].snap = op[a].snap /\ op'[a].i = op[a].i + 1
      /\ op'[a].moves = Append(op[a].moves, op[a].i)
    BY <1>1, <1>2 DEF OpType
<1>4. MovedBy(op'[a]) = MovedBy(op[a]) \union {op[a].i}
  <2> DEFINE s == op[a].moves  n == Len(op[a].moves)
  <2>1. /\ n \in Nat /\ Len(op'[a].moves) = n + 1 /\ op'[a].moves[n + 1] = op[a].i
        /\ \A k \in 1..n : op'[a].moves[k] = s[k]
    BY <1>1, <1>3
  <2>2. 1..(n + 1) = (1..n) \union {n + 1}
    BY <2>1
  <2> QED
    BY <2>1, <2>2 DEF MovedBy
<1> QED
    BY <1>3, <1>4

LEMMA FrontOp ==
    ASSUME op \in [Admin -> OpType], NEW a \in Admin, NEW n \in Nat, HeldIn(op[a], n),
           op[a].moves # <<>>, op' = [op EXCEPT ![a].moves = Front(@)]
    PROVE  /\ op' \in [Admin -> OpType]
           /\ \A b \in Admin \ {a} : op'[b] = op[b]
           /\ op'[a].pc = op[a].pc /\ op'[a].snap = op[a].snap /\ op'[a].i = op[a].i
           /\ HeldIn(op'[a], n)
           /\ Last(op[a].moves) \in MovedBy(op[a])
           /\ MovedBy(op'[a]) = MovedBy(op[a]) \ {Last(op[a].moves)}
<1> DEFINE s == op[a].moves  l == Len(op[a].moves)
<1>1. s \in Seq(Nat) /\ l \in Nat \ {0}
    BY DEF OpType
<1>2. /\ Front(s) \in Seq(Nat) /\ Len(Front(s)) = l - 1 /\ Last(s) = s[l]
      /\ \A k \in 1..(l - 1) : Front(s)[k] = s[k]
    BY <1>1 DEF Front, Last
<1>3. /\ op' \in [Admin -> OpType]
      /\ \A b \in Admin \ {a} : op'[b] = op[b]
      /\ op'[a].pc = op[a].pc /\ op'[a].snap = op[a].snap /\ op'[a].i = op[a].i
      /\ op'[a].moves = Front(s)
    BY <1>2 DEF OpType
<1>4. l \in 1..l /\ 1..(l - 1) \subseteq 1..l /\ \A k \in 1..l : k = l \/ k \in 1..(l - 1)
    BY <1>1
<1>5. HeldIn(op'[a], n)
  <2>1. \A k \in 1..(l - 1) : Front(s)[k] \in 1..Len(op[a].snap) /\ Front(s)[k] < op[a].i
    BY <1>2, <1>4 DEF HeldIn
  <2>2. \A k, j \in 1..(l - 1) : k < j => Front(s)[k] < Front(s)[j]
    BY <1>2, <1>4 DEF HeldIn
  <2>3. op'[a].pc \notin {"idle", "read", "rread"} /\ Len(op'[a].snap) <= n
    BY <1>3 DEF HeldIn
  <2>4. op'[a].moves = Front(s) /\ Len(op'[a].moves) = l - 1 /\ op'[a].i = op[a].i /\ op'[a].snap = op[a].snap
    BY <1>2, <1>3
  <2> HIDE DEF s, l
  <2> QED
    BY <2>1, <2>2, <2>3, <2>4 DEF HeldIn
<1>6. Last(s) \in MovedBy(op[a])
    BY <1>2, <1>4 DEF MovedBy
<1>7. \A k \in 1..(l - 1) : s[k] # s[l]
  <2> SUFFICES ASSUME NEW k \in 1..(l - 1) PROVE s[k] # s[l]
    OBVIOUS
  <2>1. k \in 1..l /\ k < l
    BY <1>1
  <2>2. s[k] \in Nat /\ s[l] \in Nat
    BY <1>1, <1>4, <2>1
  <2>3. s[k] < s[l]
    BY <1>4, <2>1 DEF HeldIn
  <2> QED
    BY <2>2, <2>3
<1>8. MovedBy(op'[a]) = {s[k] : k \in 1..(l - 1)}
  <2>1. Len(op'[a].moves) = l - 1 /\ \A k \in 1..(l - 1) : op'[a].moves[k] = s[k]
    BY <1>2, <1>3
  <2> QED
    BY <2>1 DEF MovedBy
<1>9. MovedBy(op'[a]) = MovedBy(op[a]) \ {s[l]}
    BY <1>4, <1>7, <1>8 DEF MovedBy
<1> QED
    BY <1>2, <1>3, <1>5, <1>6, <1>9

(* Appending the row under the cursor keeps the moves in order.            *)
LEMMA AppendHeld ==
    ASSUME op \in [Admin -> OpType], NEW a \in Admin, NEW n \in Nat, HeldIn(op[a], n),
           op[a].i <= Len(op[a].snap), op[a].pc \notin {"idle", "read", "rread"},
           op' = [op EXCEPT ![a].i = op[a].i + 1, ![a].moves = Append(@, op[a].i)]
    PROVE  HeldIn(op'[a], n)
<1> DEFINE s == op[a].moves  l == Len(op[a].moves)  i == op[a].i
<1>1. s \in Seq(Nat) /\ l \in Nat /\ i \in Nat \ {0} /\ Len(op[a].snap) \in Nat
    BY DEF OpType
<1>2. /\ op'[a].snap = op[a].snap /\ op'[a].i = i + 1 /\ op'[a].moves = Append(s, i) /\ op'[a].pc = op[a].pc
    BY AppendOp
<1>3. /\ Len(Append(s, i)) = l + 1 /\ Append(s, i)[l + 1] = i /\ \A k \in 1..l : Append(s, i)[k] = s[k]
    BY <1>1
<1>4. \A k \in 1..l : s[k] \in 1..Len(op[a].snap) /\ s[k] < i /\ s[k] \in Nat
    BY <1>1 DEF HeldIn
<1>5. \A k \in 1..(l + 1) : k \in 1..l \/ k = l + 1
    BY <1>1
<1>6. \A k \in 1..(l + 1) : Append(s, i)[k] \in 1..Len(op[a].snap) /\ Append(s, i)[k] < i + 1
    BY <1>1, <1>3, <1>4, <1>5
<1>7. \A k, j \in 1..(l + 1) : k < j => Append(s, i)[k] < Append(s, i)[j]
  <2> SUFFICES ASSUME NEW k \in 1..(l + 1), NEW j \in 1..(l + 1), k < j
               PROVE  Append(s, i)[k] < Append(s, i)[j]
    OBVIOUS
  <2>1. k \in 1..l
    BY <1>1
  <2>2. CASE j \in 1..l
    BY <1>3, <2>1, <2>2 DEF HeldIn
  <2>3. CASE j = l + 1
    BY <1>3, <1>4, <2>1, <2>3
  <2> QED
    BY <1>5, <2>2, <2>3
<1> QED
    BY <1>2, <1>3, <1>6, <1>7 DEF HeldIn
----------------------------------------------------------------------------
(* What the steps do to the disk.                                          *)

LEMMA RenamedDisk ==
    ASSUME disk \in [Where -> [Path -> Nat]], NEW src \in Where, NEW dst \in Where, src # dst,
           NEW p \in Path, disk' = Renamed(src, dst, p)
    PROVE  /\ disk' \in [Where -> [Path -> Nat]]
           /\ disk'[src][p] = 0 /\ disk'[dst][p] = disk[src][p]
           /\ \A l \in Where : \A q \in Path : q # p \/ l \notin {src, dst} => disk'[l][q] = disk[l][q]
BY DEF Renamed

(* A directory is renamed, or removed. *)
LEMMA RenamedDir ==
    ASSUME disk \in [Where -> [Path -> Nat]], NEW src \in Where, NEW dst \in Where, src # dst,
           disk' = [disk EXCEPT ![dst] = disk[src], ![src] = Missing]
    PROVE  /\ disk' \in [Where -> [Path -> Nat]]
           /\ \A q \in Path : disk'[src][q] = 0 /\ disk'[dst][q] = disk[src][q]
           /\ \A l \in Where \ {src, dst} : \A q \in Path : disk'[l][q] = disk[l][q]
BY DEF Missing

LEMMA RemovedDir ==
    ASSUME disk \in [Where -> [Path -> Nat]], NEW l \in Where, disk' = [disk EXCEPT ![l] = Missing]
    PROVE  /\ disk' \in [Where -> [Path -> Nat]]
           /\ \A q \in Path : disk'[l][q] = 0
           /\ \A k \in Where \ {l} : \A q \in Path : disk'[k][q] = disk[k][q]
BY DEF Missing

(* Every step keeps the ledger a ledger: rows are added or change their    *)
(* state, and bytes stay at their path.                                    *)
LEMMA LedgerKept ==
    ASSUME Ledger,
           rows' \in Seq(RowType), Len(rows) <= Len(rows'),
           \A r \in 1..Len(rows) : rows'[r].path = rows[r].path,
           disk' \in [Where -> [Path -> Nat]],
           \A l \in Where : \A p \in Path : disk'[l][p] # 0 =>
               \/ \E k \in Where : disk'[l][p] = disk[k][p]
               \/ disk'[l][p] \in 1..Len(rows') /\ rows'[disk'[l][p]].path = p,
           dirs' \subseteq {"staging", "final"},
           writer' \in [pc : {"idle", "write", "post"}, row : Nat],
           writer'.pc # "idle" => writer'.row \in 1..Len(rows'),
           op' \in [Admin -> OpType], \A a \in Admin : HeldIn(op'[a], Len(rows')),
           sweep' \in {"idle", "remove"}, faults' \in 0..MaxFaults,
           UNCHANGED backend, now' \in Nat
    PROVE  Ledger'
<1>1. Shape' /\ InLedger'
    BY DEF Ledger, Shape, InLedger
<1>2. AtItsPath'
  <2> SUFFICES ASSUME NEW l \in Where, NEW p \in Path, disk'[l][p] # 0
               PROVE  disk'[l][p] \in 1..Len(rows') /\ rows'[disk'[l][p]].path = p
    BY DEF AtItsPath
  <2>1. CASE \E k \in Where : disk'[l][p] = disk[k][p]
    <3>1. PICK k \in Where : disk'[l][p] = disk[k][p]
      BY <2>1
    <3>2. disk[k][p] \in 1..Len(rows) /\ rows[disk[k][p]].path = p
      BY <3>1 DEF Ledger, AtItsPath
    <3>3. Len(rows) \in Nat /\ Len(rows') \in Nat
      BY DEF Ledger, Shape
    <3> QED
      BY <3>1, <3>2, <3>3
  <2> QED
    BY <2>1
<1> QED
    BY <1>1, <1>2 DEF Ledger

(* The same for steps that leave rows and writes alone.                    *)
LEMMA FilesKept ==
    ASSUME Ledger, UNCHANGED <<backend, now, rows, writer, sweep>>,
           disk' \in [Where -> [Path -> Nat]],
           \A l \in Where : \A p \in Path : disk'[l][p] # 0 => \E k \in Where : disk'[l][p] = disk[k][p],
           dirs' \subseteq {"staging", "final"}, faults' \in 0..MaxFaults,
           NEW a \in Admin, op' \in [Admin -> OpType], \A b \in Admin \ {a} : op'[b] = op[b],
           HeldIn(op'[a], Len(rows))
    PROVE  Ledger'
<1>1. /\ rows' \in Seq(RowType) /\ Len(rows) <= Len(rows') /\ \A r \in 1..Len(rows) : rows'[r].path = rows[r].path
      /\ writer' \in [pc : {"idle", "write", "post"}, row : Nat]
      /\ sweep' \in {"idle", "remove"} /\ now' \in Nat
    BY DEF Ledger, Shape
<1>2. writer'.pc # "idle" => writer'.row \in 1..Len(rows')
    BY DEF Ledger, InLedger
<1>3. \A b \in Admin : HeldIn(op'[b], Len(rows'))
    BY DEF Ledger, InLedger
<1> QED
    BY <1>1, <1>2, <1>3, LedgerKept

LEMMA IdleHeld == ASSUME NEW n \in Nat PROVE HeldIn(Idle, n)
BY IdleOp DEF HeldIn

(* A fault happens once. *)
LEMMA FaultOnce ==
    ASSUME Ledger, OneFault, Fault \/ NoFault
    PROVE  /\ faults' \in 0..MaxFaults /\ (faults = 1 => faults' = 1)
           /\ Fault => faults = 0 /\ faults' = 1
BY ArtefactsAssumption DEF Ledger, Shape, OneFault, Fault, NoFault
----------------------------------------------------------------------------
(* Steps that neither move files nor change rows.                          *)

LEMMA QuietSound ==
    ASSUME Ledger, Sound, UNCHANGED <<rows, disk, writer, gone, sweep>>, 
           \A b \in Admin : ~Rolling(b) /\ ~Restoring(b),
           \A b \in Admin : ~Committed(b)' /\ Moved(b)' = {},
           "final" \in dirs => "final" \in dirs',
           Solo', RollbackSound', RestoreSound'
    PROVE  Sound'
<1>1. \A p : Stored(p)' <=> Stored(p)
    BY DEF Stored
<1>2. OnePath' /\ WriterAlone'
    BY <1>1 DEF Sound, OnePath, WriterAlone, Row, Live, Quarantined
<1>3. HomeHas'
    BY DEF Sound, HomeHas, Row
<1>4. StagingEmpty'
    BY DEF Sound, StagingEmpty, Staging, Rolling
<1>5. FinalSound'
  <2>1. \A b \in Admin : ~Committed(b) /\ op[b].pc # "rledger"
    BY DEF Committed, Rolling, Restoring
  <2> QED
    BY <2>1 DEF Sound, FinalSound, Row, Quarantined
<1>6. OneStamp' /\ Swept' /\ gone' = {}
    BY DEF Sound, OneStamp, Swept, Row, Quarantined
<1> QED
    BY <1>2, <1>3, <1>4, <1>5, <1>6 DEF Sound

LEMMA QuietExact ==
    ASSUME Exact, UNCHANGED <<rows, disk>>, \A b \in Admin : ~Restoring(b),
           \A b \in Admin : op'[b].pc \in {"rread", "rmove"} =>
               \A r \in 1..Len(op'[b].snap) : op'[b].snap[r] = "quarantined" => Quarantined(r),
           \A b \in Admin : op'[b].pc # "rreverse"
    PROVE  Exact'
BY DEF Exact, Row, Quarantined, Restoring

(* Mishaps are never taken back.                                           *)
LEMMA TickKeeps == ASSUME IInv, Tick \/ UNCHANGED vars PROVE IInv'
<1>1. UNCHANGED <<backend, rows, disk, dirs, writer, op, sweep, faults, mishap, gone>> /\ now' \in Nat
    BY DEF Tick, vars, IInv, Ledger, Shape
<1>2. Ledger'
    BY <1>1 DEF IInv, Ledger, Shape, InLedger, AtItsPath
<1>3. Sound => Sound'
    BY <1>1 DEF Sound, Solo, OnePath, HomeHas, WriterAlone, RollbackSound, StagingEmpty, FinalSound,
         RestoreSound, OneStamp, Swept, Row, Live, Quarantined, Rolling, Staging, Committed, Restoring,
         Moved, Stored, InHand, AtHome, Current
<1>4. Exact => Exact'
    BY <1>1 DEF Exact, Row, Quarantined, Restoring, Moved
<1> QED
    BY <1>1, <1>2, <1>3, <1>4 DEF IInv

(* After a crash nothing is promised but the types.                        *)
LEMMA CrashKeeps == ASSUME IInv, Crash PROVE IInv'
<1>0. Ledger
    BY DEF IInv
<1>1. /\ UNCHANGED <<backend, now, rows, disk, dirs, faults>> /\ sweep' = "idle"
      /\ writer' = [pc |-> "idle", row |-> 0] /\ "crash" \in mishap'
      /\ op' = [a \in Admin |-> Idle]
    BY DEF Crash
<1>2. op' \in [Admin -> OpType] /\ \A a \in Admin : HeldIn(op'[a], Len(rows))
    BY <1>0, <1>1, IdleOp, IdleHeld DEF Ledger, Shape
<1>3. Ledger'
    BY <1>0, <1>1, <1>2 DEF Ledger, Shape, InLedger, AtItsPath
<1> QED
    BY <1>1, <1>3 DEF IInv

LEMMA BeginKeeps ==
    ASSUME IInv, NEW a \in Admin, RollbackBegin(a) \/ RestoreBegin(a)
    PROVE  IInv'
<1>0. Ledger /\ Shape
    BY DEF IInv, Ledger
<1>1. /\ op[a].pc = "idle" /\ mishap' = mishap \union Overlap
      /\ UNCHANGED <<backend, now, rows, disk, dirs, writer, sweep, faults, crashes, gone>>
    BY DEF RollbackBegin, RestoreBegin
<1>2. \E l \in {"read", "rread"} : op' = [op EXCEPT ![a] = [Idle EXCEPT !.pc = l, !.snap = SetForSet]]
    BY DEF RollbackBegin, RestoreBegin
<1>3. /\ op' \in [Admin -> OpType] /\ \A b \in Admin \ {a} : op'[b] = op[b]
      /\ op'[a].pc \in {"read", "rread"} /\ op'[a].i = 1 /\ op'[a].moves = <<>>
      /\ Len(op'[a].snap) = Len(rows) /\ \A r \in 1..Len(rows) : op'[a].snap[r] = rows[r].state
  <2>1. PICK l \in {"read", "rread"} : op' = [op EXCEPT ![a] = [Idle EXCEPT !.pc = l, !.snap = SetForSet]]
    BY <1>2
  <2>2. l \in Pc
    BY DEF Pc
  <2> QED
    BY <1>0, <2>1, <2>2, BeginOp DEF Shape
<1>4. Ledger'
  <2>1. HeldIn(op'[a], Len(rows))
    BY <1>0, <1>3 DEF HeldIn, Shape
  <2> QED
    BY <1>0, <1>1, <1>3, <2>1, FilesKept DEF Shape
<1>5. ASSUME mishap' \subseteq {"unmoved"}
      PROVE  /\ mishap \subseteq {"unmoved"} /\ sweep = "idle" /\ \A b \in Admin : op[b].pc = "idle"
    BY <1>1, <1>5 DEF Overlap
<1>6. ASSUME mishap' \subseteq {"unmoved"} PROVE Sound'
  <2>1. Sound /\ sweep' = "idle" /\ \A b \in Admin : op[b].pc = "idle"
    BY <1>1, <1>5, <1>6 DEF IInv
  <2>2. \A b \in Admin : /\ ~Rolling(b) /\ ~Restoring(b) /\ Moved(b)' = {}
                         /\ ~Rolling(b)' /\ ~Restoring(b)' /\ ~Committed(b)'
    <3>1. \A b \in Admin : op[b].moves = <<>>
      BY <1>0, <2>1 DEF Ledger, InLedger, HeldIn
    <3>2. \A b \in Admin : op'[b].moves = <<>> /\ op'[b].pc \in {"idle", "read", "rread"}
      BY <1>3, <2>1, <3>1
    <3> QED
      BY <2>1, <3>2 DEF Rolling, Restoring, Committed, Moved, MovedBy
  <2>3. Solo'
    BY <1>3, <2>1 DEF Solo
  <2>4. RollbackSound'
    BY <1>1, <1>3, <2>1, <2>2 DEF RollbackSound, Rolling, Committed
  <2>5. RestoreSound'
    BY <1>0, <1>1, <1>3, <2>1, <2>2 DEF RestoreSound, Restoring, Current, Row, Quarantined, Shape
  <2> QED
    BY <1>0, <1>1, <2>1, <2>2, <2>3, <2>4, <2>5, QuietSound
<1>7. ASSUME mishap' = {} PROVE Exact'
  <2>1. Exact /\ \A b \in Admin : op[b].pc = "idle"
    BY <1>1, <1>5, <1>7 DEF IInv
  <2> QED
    BY <1>1, <1>3, <2>1, QuietExact DEF Restoring, Quarantined
<1> QED
    BY <1>4, <1>6, <1>7 DEF IInv

(* Only one service is at work, the one that makes the step.               *)
LEMMA OthersIdle ==
    ASSUME Solo, NEW a \in Admin, op[a].pc # "idle", \A b \in Admin \ {a} : op'[b] = op[b]
    PROVE  /\ sweep = "idle" /\ \A b \in Admin \ {a} : op[b].pc = "idle" /\ op'[b].pc = "idle"
           /\ UNCHANGED sweep => Solo'
BY DEF Solo

LEMMA StageKeeps ==
    ASSUME IInv, OneFault, NEW a \in Admin, RollbackStage(a) \/ RestoreExists(a)
    PROVE  IInv'
<1>0. Ledger /\ Shape
    BY DEF IInv, Ledger
<1>1. /\ op[a].pc \in {"read", "rread"} /\ (Fault \/ NoFault)
      /\ UNCHANGED <<backend, now, rows, disk, writer, sweep, crashes, mishap, gone>>
    BY DEF RollbackStage, RestoreExists, NoFault
<1>2. \/ Return(a) /\ UNCHANGED dirs
      \/ /\ op[a].pc = "read" /\ Goto(a, "move") /\ "final" \notin dirs
         /\ dirs' = dirs \union {"staging"}
      \/ op[a].pc = "rread" /\ Goto(a, "rmove") /\ UNCHANGED dirs
    BY DEF RollbackStage, RestoreExists
<1>3. /\ op' \in [Admin -> OpType] /\ \A b \in Admin \ {a} : op'[b] = op[b]
      /\ op'[a].moves = <<>> /\ op'[a].i = 1
      /\ \/ op'[a] = Idle
         \/ op[a].pc = "read" /\ op'[a].pc = "move" /\ op'[a].snap = op[a].snap
         \/ op[a].pc = "rread" /\ op'[a].pc = "rmove" /\ op'[a].snap = op[a].snap
  <2>1. op[a].moves = <<>> /\ op[a].i = 1 /\ "move" \in Pc /\ "rmove" \in Pc
    BY <1>0, <1>1 DEF Ledger, InLedger, HeldIn, Pc
  <2> QED
    BY <1>0, <1>2, <2>1, GotoOp, ReturnOp, IdleOp DEF Shape
<1>4. Ledger'
  <2>1. HeldIn(op'[a], Len(rows))
    BY <1>0, <1>1, <1>3, IdleHeld DEF HeldIn, Shape, Ledger, InLedger
  <2>2. dirs' \subseteq {"staging", "final"}
    BY <1>0, <1>2 DEF Shape
  <2> QED
    BY <1>0, <1>1, <1>3, <2>1, <2>2, FilesKept, FaultOnce DEF Shape
<1>6. ASSUME mishap' \subseteq {"unmoved"} PROVE Sound'
  <2>1. Sound
    BY <1>1, <1>6 DEF IInv
  <2>2. (\A b \in Admin \ {a} : op[b].pc = "idle" /\ op'[b].pc = "idle") /\ Solo'
    BY <1>1, <1>3, <2>1, OthersIdle DEF Sound
  <2>3. op'[a].pc \in {"idle", "move", "rmove"}
    BY <1>3, IdleOp
  <2>4. \A b \in Admin : /\ ~Rolling(b) /\ ~Restoring(b) /\ Moved(b)' = {} /\ ~Committed(b)'
    <3>1. \A b \in Admin : op'[b].moves = <<>>
      BY <1>0, <1>3, <2>2 DEF Ledger, InLedger, HeldIn
    <3> QED
      BY <1>1, <2>2, <2>3, <3>1 DEF Rolling, Restoring, Committed, Moved, MovedBy
  <2>6. \A p \in Path : disk["staging"][p] = 0
    BY <2>1, <2>4 DEF Sound, StagingEmpty, Staging, Rolling
  <2>7. op'[a].pc = "move" => /\ op[a].pc = "read" /\ op'[a].snap = op[a].snap /\ op[a].i = 1
                              /\ "staging" \in dirs' /\ "final" \notin dirs'
    <3>1. op'[a].pc = "move" => op[a].pc = "read" /\ op'[a].snap = op[a].snap
      BY <1>3, IdleOp
    <3>2. op'[a].pc = "move" => "staging" \in dirs' /\ "final" \notin dirs'
      BY <1>0, <1>2, <1>3, IdleOp, GotoOp, ReturnOp DEF Shape
    <3> QED
      BY <1>0, <1>1, <3>1, <3>2 DEF Ledger, InLedger, HeldIn
  <2>5. op'[a].pc = "move" => \A r \in Row : ~Quarantined(r)
    <3>1. op'[a].pc = "move" => "final" \notin dirs /\ \A b \in Admin : op[b].pc # "rledger"
      BY <1>1, <1>2, <2>2, <2>7
    <3> QED
      BY <2>1, <3>1 DEF Sound, FinalSound
  <2>8. RollbackSound'
    <3>1. \A b \in Admin : Rolling(b)' => b = a /\ op'[a].pc = "move"
      BY <2>2, <2>3 DEF Rolling
    <3>2. op'[a].pc = "move" => InHand(a)'
      BY <1>1, <2>4, <2>6 DEF InHand, Staging
    <3>3. op'[a].pc = "move" =>
            \A j \in op'[a].i..Len(op'[a].snap) : op'[a].snap[j] \in Movable => rows[j].state \in Movable
      BY <1>3, <2>1, <2>7 DEF Sound, RollbackSound
    <3> QED
      BY <1>1, <2>2, <2>3, <2>4, <2>5, <2>7, <3>1, <3>2, <3>3 DEF RollbackSound, Row, Quarantined
  <2>9. RestoreSound'
    <3>1. \A b \in Admin : Restoring(b)' => AtHome(b)'
      BY <2>4 DEF AtHome
    <3>2. op'[a].pc = "rmove" => Current(a) /\ op'[a].snap = op[a].snap /\ op'[a].i = op[a].i
      BY <1>0, <1>1, <1>3, <2>1, IdleOp DEF Sound, RestoreSound, Ledger, InLedger, HeldIn
    <3>3. Moved(a) = {}
      BY <1>0, <1>1 DEF Ledger, InLedger, HeldIn, Moved, MovedBy
    <3>4. op'[a].pc = "rmove" => Current(a)'
      BY <1>1, <3>2, <3>3 DEF Current, Row, Quarantined
    <3> QED
      BY <2>2, <2>3, <3>1, <3>4 DEF RestoreSound
  <2> QED
    BY <1>0, <1>1, <1>2, <2>1, <2>2, <2>4, <2>8, <2>9, QuietSound
<1>7. ASSUME mishap' = {} PROVE Exact'
  <2>1. Exact /\ Sound
    BY <1>1, <1>7 DEF IInv
  <2>2. \A b \in Admin \ {a} : op[b].pc = "idle" /\ op'[b].pc = "idle"
    BY <1>1, <1>3, <2>1, OthersIdle DEF Sound
  <2>3. \A b \in Admin : ~Restoring(b) /\ op'[b].pc # "rreverse"
    BY <1>1, <1>3, <2>2, IdleOp DEF Restoring
  <2>4. \A b \in Admin : op'[b].pc \in {"rread", "rmove"} =>
           \A r \in 1..Len(op'[b].snap) : op'[b].snap[r] = "quarantined" => Quarantined(r)
    BY <1>1, <1>3, <2>1, <2>2, IdleOp DEF Exact
  <2> QED
    BY <1>1, <2>1, <2>3, <2>4, QuietExact
<1> QED
    BY <1>4, <1>6, <1>7 DEF IInv
----------------------------------------------------------------------------
(* WriteFile                                                               *)

(* What an operation has moved are rows.                                   *)
LEMMA MovedRows == ASSUME Ledger, NEW a \in Admin PROVE Moved(a) \subseteq Row
<1>1. op[a] \in OpType /\ HeldIn(op[a], Len(rows)) /\ Len(rows) \in Nat /\ Len(op[a].snap) \in Nat
    BY DEF Ledger, Shape, InLedger, OpType
<1> QED
    BY <1>1 DEF HeldIn, Moved, MovedBy, Row

LEMMA RowTyped ==
    ASSUME Ledger
    PROVE  /\ Len(rows) \in Nat /\ DOMAIN rows = Row
           /\ \A r \in Row : rows[r] \in RowType /\ rows[r].path \in Path /\ rows[r].state \in State
<1>1. Len(rows) \in Nat /\ DOMAIN rows = Row /\ \A r \in Row : rows[r] \in RowType
    BY DEF Ledger, Shape, Row
<1> QED
    BY <1>1 DEF RowType

LEMMA FileRow ==
    ASSUME Ledger, NEW l \in Where, NEW q \in Path
    PROVE  disk[l][q] \in Nat /\ (disk[l][q] # 0 => disk[l][q] \in Row /\ rows[disk[l][q]].path = q)
BY DEF Ledger, Shape, AtItsPath, Row

LEMMA SnapRows ==
    ASSUME Ledger, NEW a \in Admin
    PROVE  /\ op[a] \in OpType /\ Len(op[a].snap) \in Nat /\ op[a].i \in Nat \ {0}
           /\ Len(op[a].snap) <= Len(rows)
           /\ \A j \in 1..Len(op[a].snap) : j \in Row
           /\ \A j \in op[a].i..Len(op[a].snap) : j \in 1..Len(op[a].snap) /\ j \in Row
<1>1. op[a] \in OpType /\ HeldIn(op[a], Len(rows)) /\ Len(rows) \in Nat
    BY DEF Ledger, Shape, InLedger
<1>2. Len(op[a].snap) \in Nat /\ op[a].i \in Nat \ {0}
    BY <1>1 DEF OpType
<1>3. Len(op[a].snap) <= Len(rows)
    BY <1>1 DEF HeldIn
<1> QED
    BY <1>1, <1>2, <1>3 DEF Row

LEMMA WriteBeginKeeps == ASSUME IInv, NEW p \in Path, WriteBegin(p) PROVE IInv'
<1> DEFINE n == Len(rows) + 1  new == [path |-> p, state |-> "pending", qat |-> -1]
<1>0. Ledger /\ Shape /\ Len(rows) \in Nat /\ n \in Nat \ {0}
    BY DEF IInv, Ledger, Shape
<1>1. /\ rows' = Append(rows, new) /\ writer' = [pc |-> "write", row |-> n]
      /\ UNCHANGED <<backend, now, disk, dirs, op, sweep, faults, crashes, gone>>
    BY DEF WriteBegin, PreWrite
<1>2. mishap' = mishap \union (IF \E r \in DOMAIN rows : rows[r].path = p /\ rows[r].state # "purged"
                               THEN {"twice"} ELSE {})
    BY DEF WriteBegin, PreWrite
<1>3. new \in RowType /\ new.path = p /\ new.state = "pending"
    BY DEF RowType, State
<1> HIDE DEF new
<1>4. /\ rows' \in Seq(RowType) /\ Len(rows') = n /\ rows'[n] = new
      /\ \A r \in 1..Len(rows) : rows'[r] = rows[r]
    BY <1>0, <1>1, <1>3 DEF Shape
<1>5. Row' = Row \union {n} /\ n \notin Row /\ Row \subseteq Row'
    BY <1>0, <1>4 DEF Row
<1>6. (\A r \in Row : rows'[r] = rows[r]) /\ rows'[n].path = p /\ rows'[n].state = "pending"
    BY <1>3, <1>4 DEF Row
<1>7. Ledger'
  <2>1. \A a \in Admin : HeldIn(op'[a], n)
    BY <1>0, <1>1, LongerLedger DEF Ledger, InLedger, Shape, OpType
  <2>2. writer' \in [pc : {"idle", "write", "post"}, row : Nat] /\ writer'.row \in 1..n
    BY <1>0, <1>1
  <2>3. \A l \in Where : \A q \in Path : disk'[l][q] # 0 => \E k \in Where : disk'[l][q] = disk[k][q]
    BY <1>1
  <2>4. \A r \in 1..Len(rows) : rows'[r].path = rows[r].path
    BY <1>4
  <2>5. Len(rows) <= n
    BY <1>0
  <2> QED
    BY <1>0, <1>1, <1>4, <2>1, <2>2, <2>3, <2>4, <2>5, LedgerKept DEF Shape
<1> HIDE DEF n
<1>8. \A a \in Admin : Moved(a)' = Moved(a) /\ Moved(a) \subseteq Row
    BY <1>0, <1>1, MovedRows DEF Moved
<1>9. \A q : Stored(q)' <=> Stored(q)
    BY <1>1, <1>6, <1>8 DEF Stored, Restoring
<1>10. ASSUME mishap' \subseteq {"unmoved"} PROVE Sound'
  <2>1. Sound
    BY <1>2, <1>10 DEF IInv
  <2>2. \A r \in Row : rows[r].path = p => rows[r].state = "purged"
    BY <1>0, <1>2, <1>10 DEF Row, Shape
  <2>3. \A r \in Row : rows[r].path = p => ~Live(r) /\ ~Quarantined(r)
    BY <2>2 DEF Live, Quarantined
  <2>4. OnePath'
    BY <1>5, <1>6, <1>9, <2>1, <2>3 DEF Sound, OnePath, Live, Quarantined
  <2>5. HomeHas'
    BY <1>1, <1>5, <1>6, <1>8, <2>1 DEF Sound, HomeHas, Rolling, Movable
  <2>6. WriterAlone'
    <3>1. disk["final"][p] # n
      BY <1>0, <1>5, FileRow DEF Where
    <3>2. writer'.pc = "write" /\ writer'.row = n
      BY <1>1
    <3>3. \A s \in Row' : rows'[s].path = p => (s # n => ~Live(s)') /\ ~Quarantined(s)'
      BY <1>5, <1>6, <2>3 DEF Live, Quarantined
    <3> QED
      BY <1>1, <1>6, <3>1, <3>2, <3>3 DEF WriterAlone, Live, Quarantined
  <2>7. RollbackSound'
    <3>1. \A a \in Admin : InHand(a) => InHand(a)'
      BY <1>1, <1>6, <1>8 DEF InHand, Staging
    <3>2. \A a \in Admin : \A j \in op[a].i..Len(op[a].snap) : rows'[j] = rows[j]
      BY <1>0, <1>6, SnapRows
    <3>3. (\A r \in Row : ~Quarantined(r)) => \A r \in Row' : ~Quarantined(r)'
      BY <1>5, <1>6 DEF Quarantined
    <3> HIDE DEF InHand
    <3> SUFFICES ASSUME NEW a \in Admin
                 PROVE  /\ Rolling(a) => InHand(a)' /\ \A r \in Row' : ~Quarantined(r)'
                        /\ op[a].pc \in {"read", "move"} =>
                              \A j \in op[a].i..Len(op[a].snap) : op[a].snap[j] \in Movable => rows'[j].state \in Movable
                        /\ op[a].pc = "move" => "staging" \in dirs /\ "final" \notin dirs
                        /\ Committed(a) => "final" \in dirs /\ "staging" \notin dirs
                        /\ op[a].pc \in {"reverse", "uncommit"} => faults = 1 \/ op[a].moves = <<>>
      BY <1>1 DEF RollbackSound, Rolling, Committed
    <3> QED
      BY <2>1, <3>1, <3>2, <3>3 DEF Sound, RollbackSound
  <2>8. StagingEmpty' /\ Solo' /\ gone' = {}
    BY <1>1, <2>1 DEF Sound, StagingEmpty, Solo, Staging
  <2>9. FinalSound'
    <3>1. \A q \in Path : disk["final"][q] # 0 => disk["final"][q] \in Row
      BY <1>0, FileRow DEF Where
    <3>2. (\E r \in Row' : Quarantined(r)') => \E r \in Row : Quarantined(r)
      BY <1>5, <1>6 DEF Quarantined
    <3>3. (\A r \in Row : ~Quarantined(r)) => \A r \in Row' : ~Quarantined(r)'
      BY <1>5, <1>6 DEF Quarantined
    <3>4. \A q \in Path : disk'["final"][q] # 0 =>
            /\ rows'[disk'["final"][q]].state = rows[disk["final"][q]].state
            /\ Quarantined(disk["final"][q])' <=> Quarantined(disk["final"][q])
      BY <1>1, <1>6, <3>1 DEF Quarantined
    <3> QED
      BY <1>1, <2>1, <3>2, <3>3, <3>4 DEF Sound, FinalSound, Committed
  <2>10. RestoreSound'
    <3>1. \A q \in Path : disk["home"][q] # 0 => disk["home"][q] \in Row
      BY <1>0, FileRow DEF Where
    <3>2. \A r \in Row : rows[r].path \in Path
      BY <1>0, RowTyped
    <3>3. \A a \in Admin : AtHome(a) => AtHome(a)'
      <4> SUFFICES ASSUME NEW a \in Admin, AtHome(a), NEW m \in Moved(a)
                   PROVE  /\ rows'[m].state = "quarantined" /\ disk["final"][rows'[m].path] = 0
                          /\ disk["home"][rows'[m].path] # 0
                          /\ rows'[disk["home"][rows'[m].path]].state = "quarantined"
                          /\ \A k \in Moved(a) : rows'[k].path = rows'[m].path => k = m
        BY <1>1, <1>8 DEF AtHome, Quarantined
      <4>1. m \in Row /\ \A k \in Moved(a) : k \in Row
        BY <1>8
      <4>2. disk["home"][rows[m].path] \in Row
        BY <3>1, <3>2, <4>1 DEF AtHome
      <4> QED
        BY <1>6, <4>1, <4>2 DEF AtHome, Quarantined
    <3>4. \A a \in Admin : ~(n <= Len(op[a].snap))
      BY <1>0, SnapRows DEF n
    <3>5. \A a \in Admin : Current(a) => Current(a)'
      <4> SUFFICES ASSUME NEW a \in Admin, Current(a), NEW r \in Row'
                   PROVE  /\ Quarantined(r)' => r <= Len(op[a].snap) /\ op[a].snap[r] = "quarantined"
                          /\ Quarantined(r)' /\ r < op[a].i => r \in Moved(a)
                          /\ r <= Len(op[a].snap) /\ op[a].snap[r] = "quarantined" =>
                                Quarantined(r)' \/ (rows'[r].state = "active" /\ disk["final"][rows'[r].path] = 0)
        BY <1>1, <1>8 DEF Current
      <4>1. CASE r = n
        BY <1>6, <3>4, <4>1 DEF Quarantined
      <4>2. CASE r \in Row
        BY <1>6, <4>2 DEF Current, Quarantined
      <4> QED
        BY <1>5, <4>1, <4>2
    <3>6. \A a \in Admin : (\A r \in Row : Quarantined(r) => r \in Moved(a)) => \A r \in Row' : Quarantined(r)' => r \in Moved(a)'
      BY <1>5, <1>6, <1>8 DEF Quarantined
    <3> QED
      BY <1>1, <2>1, <3>3, <3>5, <3>6 DEF Sound, RestoreSound, Restoring
  <2>11. OneStamp' /\ Swept'
    <3>1. \A r \in Row' : Quarantined(r)' => r \in Row /\ Quarantined(r) /\ rows'[r] = rows[r]
      BY <1>5, <1>6 DEF Quarantined
    <3>2. OneStamp'
      BY <2>1, <3>1 DEF Sound, OneStamp, Quarantined
    <3>3. Swept'
      BY <1>1, <2>1, <3>1 DEF Sound, Swept, Quarantined
    <3> QED
      BY <3>2, <3>3
  <2> QED
    BY <2>4, <2>5, <2>6, <2>7, <2>8, <2>9, <2>10, <2>11 DEF Sound
<1>11. ASSUME mishap' = {} PROVE Exact'
  <2>1. Exact
    BY <1>2, <1>11 DEF IInv
  <2>2. \A a \in Admin : \A r \in 1..Len(op[a].snap) : r \in Row
    BY <1>0, SnapRows
  <2>3. \A r \in Row' : Quarantined(r)' => r \in Row /\ Quarantined(r) /\ rows'[r].path = rows[r].path
    BY <1>5, <1>6 DEF Quarantined
  <2>4. \A a \in Admin : op[a].pc \in {"rread", "rmove"} =>
                \A r \in 1..Len(op[a].snap) : op[a].snap[r] = "quarantined" => Quarantined(r)'
    BY <1>6, <2>1, <2>2 DEF Exact, Quarantined
  <2> QED
    BY <1>1, <1>8, <2>1, <2>3, <2>4 DEF Exact, Restoring, Quarantined
<1> QED
    BY <1>7, <1>10, <1>11 DEF IInv

LEMMA WriteBytesKeeps == ASSUME IInv, OneFault, WriteBytes PROVE IInv'
<1>a. Ledger /\ Shape /\ writer.pc = "write" /\ (Fault \/ NoFault) /\ \A r \in Row : rows[r].path \in Path
    BY RowTyped DEF WriteBytes, IInv, Ledger, NoFault
<1>w. PICK w \in Row : w = writer.row
    BY <1>a DEF Ledger, InLedger, Row
<1>p. PICK p \in Path : p = rows[w].path
    BY <1>a
<1>q. \A r \in Row : rows[r].path \in Path
    BY <1>a
<1>0. Ledger /\ Shape /\ writer.pc = "write" /\ (Fault \/ NoFault) /\ w \in Nat
    BY <1>a DEF Row
<1>1. UNCHANGED <<backend, now, rows, dirs, op, sweep, crashes, mishap, gone>>
    BY DEF WriteBytes
<1>2. \/ disk' = [disk EXCEPT !["home"][p] = w] /\ writer' = [writer EXCEPT !.pc = "post"]
      \/ UNCHANGED disk /\ writer' = [pc |-> "idle", row |-> 0]
    BY <1>w, <1>p DEF WriteBytes
<1>3. /\ disk' \in [Where -> [Path -> Nat]]
      /\ disk'["final"] = disk["final"] /\ disk'["staging"] = disk["staging"]
      /\ \A q \in Path \ {p} : disk'["home"][q] = disk["home"][q]
      /\ disk'["home"][p] \in {disk["home"][p], w}
  <2>1. CASE disk' = [disk EXCEPT !["home"][p] = w]
    BY <1>0, <2>1 DEF Shape, Where
  <2> QED
    BY <1>0, <1>2, <2>1 DEF Shape
<1>4. /\ writer' \in [pc : {"idle", "write", "post"}, row : Nat]
      /\ writer'.pc # "idle" => writer'.row = w /\ disk'["home"][p] = w
  <2>1. CASE disk' = [disk EXCEPT !["home"][p] = w] /\ writer' = [writer EXCEPT !.pc = "post"]
    BY <1>0, <1>w, <2>1 DEF Shape, Where
  <2>2. CASE UNCHANGED disk /\ writer' = [pc |-> "idle", row |-> 0]
    BY <2>2
  <2> QED
    BY <1>2, <2>1, <2>2
<1>5. faults' \in 0..MaxFaults /\ (faults = 1 => faults' = 1)
    BY <1>0, FaultOnce
<1>6. Ledger'
  <2>1. \A l \in Where : \A q \in Path : disk'[l][q] # 0 =>
               \/ \E k \in Where : disk'[l][q] = disk[k][q]
               \/ disk'[l][q] \in 1..Len(rows') /\ rows'[disk'[l][q]].path = q
    BY <1>0, <1>1, <1>3, <1>p DEF Where, Row
  <2> QED
    BY <1>0, <1>1, <1>3, <1>4, <1>5, <2>1, LedgerKept DEF Shape, Ledger, InLedger, Row
<1>7. \A q : Stored(q)' <=> Stored(q)
    BY <1>1, <1>3 DEF Stored, Restoring, Moved, Where
<1>8. \A a \in Admin : Moved(a)' = Moved(a) /\ Moved(a) \subseteq Row
    BY <1>0, <1>1, MovedRows DEF Moved
<1>9. ASSUME Sound PROVE \A s \in Row : rows[s].path = p => rows[s].state \notin Movable /\ (Quarantined(s) => ~Stored(p))
  <2>1. /\ rows[w].state \in {"pending", "quarantined", "purged"}
        /\ \A s \in Row : rows[s].path = p => (s # w => ~Live(s)) /\ (Quarantined(s) => ~Stored(p))
    BY <1>0, <1>9, <1>w, <1>p DEF Sound, WriterAlone
  <2> QED
    BY <2>1 DEF Live, Movable
<1>10. ASSUME Sound, NEW a \in Admin, Restoring(a), NEW m \in Moved(a)
       PROVE  m \in Row /\ Quarantined(m) /\ rows[m].path # p /\ rows[m].path \in Path
    <2>1. m \in Row /\ Quarantined(m) /\ Stored(rows[m].path)
      BY <1>8, <1>10 DEF Sound, RestoreSound, AtHome, Stored
    <2> QED
      BY <1>9, <1>10, <1>q, <2>1
<1>11. ASSUME Sound PROVE Sound'
  <2>1. OnePath'
    BY <1>1, <1>7, <1>11 DEF Sound, OnePath, Row, Live, Quarantined
  <2>2. HomeHas'
    <3> SUFFICES ASSUME NEW r \in Row, rows[r].state \in Movable
                 PROVE  disk'["home"][rows[r].path] = r \/ \E a \in Admin : Rolling(a) /\ r \in Moved(a)
      BY <1>1, <1>8 DEF HomeHas, Rolling, Row
    <3>1. rows[r].path \in Path /\ rows[r].path # p
      BY <1>9, <1>11, <1>q
    <3> QED
      BY <1>3, <1>11, <3>1 DEF Sound, HomeHas
  <2>3. WriterAlone'
    <3> SUFFICES ASSUME writer'.pc # "idle"
                 PROVE  /\ rows[w].state \in {"pending", "quarantined", "purged"}
                        /\ disk["final"][p] # w
                        /\ \A s \in Row : rows[s].path = p => (s # w => ~Live(s)) /\ (Quarantined(s) => ~Stored(p)')
                        /\ disk'["home"][p] = w
      BY <1>1, <1>3, <1>4, <1>p DEF WriterAlone, Row, Live, Quarantined
    <3> QED
      BY <1>0, <1>4, <1>7, <1>11, <1>w, <1>p DEF Sound, WriterAlone
  <2>4. RollbackSound'
    <3>1. \A a \in Admin : InHand(a) => InHand(a)'
      BY <1>1, <1>3, <1>8 DEF InHand, Staging, Where
    <3> QED
      BY <1>1, <1>5, <1>11, <3>1 DEF Sound, RollbackSound, Rolling, Committed, Row, Quarantined
  <2>5. StagingEmpty'
    BY <1>1, <1>3, <1>11 DEF Sound, StagingEmpty, Staging
  <2>8. FinalSound'
    BY <1>1, <1>3, <1>11 DEF Sound, FinalSound, Committed, Row, Quarantined
  <2>6. RestoreSound'
    <3>1. \A a \in Admin : Restoring(a) => AtHome(a)'
      <4> SUFFICES ASSUME NEW a \in Admin, Restoring(a), NEW m \in Moved(a)
                   PROVE  /\ Quarantined(m) /\ disk["final"][rows[m].path] = 0
                          /\ disk'["home"][rows[m].path] # 0
                          /\ Quarantined(disk'["home"][rows[m].path])
                          /\ \A k \in Moved(a) : rows[k].path = rows[m].path => k = m
        BY <1>1, <1>3, <1>8 DEF AtHome, Quarantined
      <4>1. disk'["home"][rows[m].path] = disk["home"][rows[m].path]
        BY <1>3, <1>10, <1>11
      <4> QED
        BY <1>11, <4>1 DEF Sound, RestoreSound, AtHome
    <3>2. \A a \in Admin : Current(a) => Current(a)'
      BY <1>1, <1>3, <1>8 DEF Current, Quarantined, Row
    <3> QED
      BY <1>1, <1>8, <1>11, <3>1, <3>2 DEF Sound, RestoreSound, Restoring, Row, Quarantined
  <2>7. Solo' /\ OneStamp' /\ Swept' /\ gone' = {}
    BY <1>1, <1>11 DEF Sound, Solo, OneStamp, Swept, Row, Quarantined
  <2> QED
    BY <2>1, <2>2, <2>3, <2>4, <2>5, <2>6, <2>7, <2>8 DEF Sound
<1>12. ASSUME Sound, Exact PROVE Exact'
  <2>1. \A r \in Row : Quarantined(r) =>
          \/ disk'["final"][rows[r].path] = r
          \/ /\ disk'["home"][rows[r].path] = r
             /\ \E a \in Admin : Restoring(a) /\ r \in Moved(a)
    BY <1>3, <1>10, <1>12 DEF Exact
  <2> QED
    BY <1>1, <1>5, <1>8, <1>12, <2>1 DEF Exact, Restoring, Row, Quarantined
<1> QED
    BY <1>1, <1>6, <1>11, <1>12 DEF IInv

LEMMA WriteEndKeeps == ASSUME IInv, OneFault, WriteEnd PROVE IInv'
<1>a. Ledger /\ Shape /\ writer.pc = "post" /\ (Fault \/ NoFault) /\ \A r \in Row : rows[r].path \in Path
    BY RowTyped DEF WriteEnd, IInv, Ledger, NoFault
<1>w. PICK w \in Row : w = writer.row
    BY <1>a DEF Ledger, InLedger, Row
<1>p. PICK p \in Path : p = rows[w].path
    BY <1>a
<1>1. /\ UNCHANGED <<backend, now, disk, dirs, op, sweep, crashes, mishap, gone>>
      /\ writer' = [pc |-> "idle", row |-> 0] /\ writer'.pc = "idle"
      /\ rows' = rows \/ rows' = [rows EXCEPT ![w].state = "active"]
    BY <1>w DEF WriteEnd, PostWrite
<1>2. /\ rows' \in Seq(RowType) /\ Len(rows') = Len(rows) /\ Row' = Row
      /\ \A r \in Row : rows'[r].path = rows[r].path /\ rows'[r].qat = rows[r].qat
      /\ \A r \in Row \ {w} : rows'[r].state = rows[r].state
      /\ rows'[w].state \in {rows[w].state, "active"}
  <2>1. CASE rows' = rows
    BY <1>a, <2>1 DEF Shape, Row
  <2>2. CASE rows' = [rows EXCEPT ![w].state = "active"]
    <3>1. w \in DOMAIN rows /\ rows \in Seq(RowType) /\ DOMAIN rows = Row /\ rows[w] \in RowType
      BY <1>a, RowTyped DEF Shape
    <3>2. [rows[w] EXCEPT !.state = "active"] \in RowType
      BY <3>1 DEF RowType, State
    <3>3. rows' \in Seq(RowType) /\ Len(rows') = Len(rows)
      BY <2>2, <3>1, <3>2
    <3>4. \A r \in Row : rows'[r] = IF r = w THEN [rows[w] EXCEPT !.state = "active"] ELSE rows[r]
      BY <2>2, <3>1
    <3> QED
      BY <3>1, <3>3, <3>4 DEF Row, RowType
  <2> QED
    BY <1>1, <2>1, <2>2
<1>3. faults' \in 0..MaxFaults /\ (faults = 1 => faults' = 1)
    BY <1>a, FaultOnce
<1>4. Ledger'
    BY <1>a, <1>1, <1>2, <1>3, LedgerKept DEF Shape, Ledger, InLedger, Row
<1>5. \A a \in Admin : Moved(a)' = Moved(a) /\ Moved(a) \subseteq Row
    BY <1>a, <1>1, MovedRows DEF Moved
<1>6. \A q : Stored(q)' <=> Stored(q)
    BY <1>1, <1>2, <1>5 DEF Stored, Restoring
<1>7. ASSUME Sound
      PROVE  /\ disk["home"][p] = w /\ disk["final"][p] # w /\ rows[w].state \notin Movable
             /\ \A s \in Row \ {w} : rows[s].path = p => ~Live(s)
             /\ \A s \in Row : rows[s].path = p /\ Quarantined(s) => ~Stored(p)
    BY <1>a, <1>w, <1>p, <1>7 DEF Sound, WriterAlone, Movable
<1>8. ASSUME Sound, NEW a \in Admin, Restoring(a), NEW m \in Moved(a)
      PROVE  m \in Row /\ Quarantined(m) /\ rows[m].path # p /\ rows[m].path \in Path /\ m # w
    <2>1. m \in Row /\ Quarantined(m) /\ Stored(rows[m].path)
      BY <1>5, <1>8 DEF Sound, RestoreSound, AtHome, Stored
    <2> QED
      BY <1>a, <1>p, <1>7, <1>8, <2>1
<1>10. ASSUME Sound PROVE Sound'
  <2>1. OnePath'
    <3> SUFFICES ASSUME NEW r \in Row, NEW s \in Row, r # s, rows[r].path = rows[s].path, Live(r)'
                 PROVE  ~Live(s)' /\ (Quarantined(s)' => ~Stored(rows[r].path))
      BY <1>2, <1>6 DEF OnePath, Live, Quarantined
    <3>1. CASE r = w
      BY <1>2, <1>7, <1>p, <1>10, <3>1 DEF Live, Quarantined
    <3>2. CASE s = w
      BY <1>2, <1>7, <1>p, <1>10, <3>2 DEF Live, Quarantined
    <3>3. CASE r # w /\ s # w
      BY <1>2, <1>10, <3>3 DEF Sound, OnePath, Live, Quarantined
    <3> QED
      BY <3>1, <3>2, <3>3
  <2>2. HomeHas'
    <3> SUFFICES ASSUME NEW r \in Row, rows'[r].state \in Movable
                 PROVE  disk["home"][rows[r].path] = r \/ \E a \in Admin : Rolling(a) /\ r \in Moved(a)
      BY <1>1, <1>2, <1>5 DEF HomeHas, Rolling
    <3> QED
      BY <1>2, <1>7, <1>p, <1>10 DEF Sound, HomeHas
  <2>3. WriterAlone'
    BY <1>1 DEF WriterAlone
  <2>4. RollbackSound'
    <3>1. \A r \in Row : rows[r].state \in Movable => rows'[r].state \in Movable
      BY <1>2 DEF Movable
    <3>2. \A a \in Admin : InHand(a) => InHand(a)'
      BY <1>1, <1>2, <1>5, <3>1 DEF InHand, Staging
    <3>3. (\A r \in Row : ~Quarantined(r)) => \A r \in Row : ~Quarantined(r)'
      BY <1>2 DEF Quarantined
    <3>4. \A a \in Admin : \A j \in op[a].i..Len(op[a].snap) : j \in Row
      BY <1>a, SnapRows
    <3> HIDE DEF InHand
    <3> SUFFICES ASSUME NEW a \in Admin
                 PROVE  /\ Rolling(a) => InHand(a)' /\ \A r \in Row : ~Quarantined(r)'
                        /\ op[a].pc \in {"read", "move"} =>
                              \A j \in op[a].i..Len(op[a].snap) : op[a].snap[j] \in Movable => rows'[j].state \in Movable
                        /\ op[a].pc = "move" => "staging" \in dirs /\ "final" \notin dirs
                        /\ Committed(a) => "final" \in dirs /\ "staging" \notin dirs
                        /\ op[a].pc \in {"reverse", "uncommit"} => faults' = 1 \/ op[a].moves = <<>>
      BY <1>1, <1>2 DEF RollbackSound, Rolling, Committed
    <3> QED
      BY <1>3, <1>10, <3>1, <3>2, <3>3, <3>4 DEF Sound, RollbackSound
  <2>5. StagingEmpty' /\ Solo' /\ gone' = {}
    BY <1>1, <1>10 DEF Sound, StagingEmpty, Solo, Staging
  <2>6. FinalSound'
    <3>1. \A q \in Path : disk["final"][q] # 0 => disk["final"][q] \in Row \ {w}
      BY <1>a, <1>7, <1>10, <1>p, FileRow DEF Where
    <3>2. \A q \in Path : disk["final"][q] # 0 => rows'[disk["final"][q]].state = rows[disk["final"][q]].state
      BY <1>2, <3>1
    <3>3. (\E r \in Row : Quarantined(r)') => \E r \in Row : Quarantined(r)
      BY <1>2 DEF Quarantined
    <3>4. (\A r \in Row : ~Quarantined(r)) => \A r \in Row : ~Quarantined(r)'
      BY <1>2 DEF Quarantined
    <3> QED
      BY <1>1, <1>2, <1>10, <3>2, <3>3, <3>4 DEF Sound, FinalSound, Committed, Quarantined
  <2>7. RestoreSound'
    <3>1. \A a \in Admin : Restoring(a) => AtHome(a)'
      <4> SUFFICES ASSUME NEW a \in Admin, Restoring(a), NEW m \in Moved(a)
                   PROVE  /\ rows'[m].state = "quarantined" /\ disk["final"][rows'[m].path] = 0
                          /\ disk["home"][rows'[m].path] # 0
                          /\ rows'[disk["home"][rows'[m].path]].state = "quarantined"
                          /\ \A k \in Moved(a) : rows'[k].path = rows'[m].path => k = m
        BY <1>1, <1>5 DEF AtHome, Quarantined
      <4>1. m \in Row \ {w} /\ (\A k \in Moved(a) : k \in Row) /\ rows[m].path \in Path /\ rows[m].path # p
        BY <1>5, <1>8, <1>10
      <4>2. AtHome(a)
        BY <1>10 DEF Sound, RestoreSound
      <4>3. disk["home"][rows[m].path] \in Row \ {w}
        BY <1>a, <1>p, <4>1, <4>2, FileRow DEF AtHome, Where
      <4> QED
        BY <1>2, <4>1, <4>2, <4>3 DEF AtHome, Quarantined
    <3>2. \A a \in Admin : Current(a) => Current(a)'
      <4>1. Quarantined(w) => disk["final"][p] = 0
        BY <1>7, <1>10, <1>p DEF Stored
      <4> SUFFICES ASSUME NEW a \in Admin, Current(a), NEW r \in Row
                   PROVE  /\ Quarantined(r)' => r <= Len(op[a].snap) /\ op[a].snap[r] = "quarantined"
                          /\ Quarantined(r)' /\ r < op[a].i => r \in Moved(a)
                          /\ r <= Len(op[a].snap) /\ op[a].snap[r] = "quarantined" =>
                              Quarantined(r)' \/ (rows'[r].state = "active" /\ disk["final"][rows[r].path] = 0)
        BY <1>1, <1>2, <1>5 DEF Current, Quarantined
      <4>2. CASE r # w
        BY <1>2, <4>2 DEF Current, Quarantined
      <4>3. CASE r = w
        BY <1>2, <1>p, <4>1, <4>3 DEF Current, Quarantined
      <4> QED
        BY <4>2, <4>3
    <3>3. \A r \in Row : Quarantined(r)' => Quarantined(r)
      BY <1>2 DEF Quarantined
    <3> HIDE DEF AtHome, Current
    <3> QED
      BY <1>1, <1>2, <1>5, <1>10, <3>1, <3>2, <3>3 DEF Sound, RestoreSound, Restoring, Quarantined
  <2>8. OneStamp' /\ Swept'
    <3>1. \A r \in Row : Quarantined(r)' => Quarantined(r)
      BY <1>2 DEF Quarantined
    <3>2. OneStamp'
      BY <1>2, <1>10, <3>1 DEF Sound, OneStamp, Quarantined
    <3>3. Swept'
      BY <1>1, <1>2, <1>10, <3>1 DEF Sound, Swept, Quarantined
    <3> QED
      BY <3>2, <3>3
  <2> QED
    BY <2>1, <2>2, <2>3, <2>4, <2>5, <2>6, <2>7, <2>8 DEF Sound
<1>11. ASSUME Sound, Exact PROVE Exact'
  <2>1. ~Quarantined(w)
    <3>1. ~\E a \in Admin : Restoring(a) /\ w \in Moved(a)
      BY <1>8, <1>11
    <3> QED
      BY <1>7, <1>11, <1>p, <3>1 DEF Exact
  <2>2. \A r \in Row : Quarantined(r)' <=> Quarantined(r)
    BY <1>2, <2>1 DEF Quarantined
  <2>3. \A a \in Admin : \A r \in 1..Len(op[a].snap) : r \in Row
    BY <1>a, SnapRows
  <2>4. \A r \in Row : Quarantined(r)' =>
          \/ disk["final"][rows[r].path] = r
          \/ disk["home"][rows[r].path] = r /\ \E a \in Admin : Restoring(a) /\ r \in Moved(a)
    BY <1>11, <2>2 DEF Exact, Quarantined
  <2>5. \A a \in Admin : op[a].pc \in {"rread", "rmove"} =>
                \A r \in 1..Len(op[a].snap) : op[a].snap[r] = "quarantined" => Quarantined(r)'
    BY <1>11, <2>2, <2>3 DEF Exact, Quarantined
  <2> QED
    BY <1>1, <1>2, <1>3, <1>5, <1>11, <2>4, <2>5 DEF Exact, Restoring, Quarantined
<1> QED
    BY <1>1, <1>4, <1>10, <1>11 DEF IInv
----------------------------------------------------------------------------
(* RollbackService.Rollback                                                *)

(* What a step of a rollback owes the invariant: no row is quarantined and *)
(* nobody else is at work, so only the files and the operation count.      *)
RollbackOwes(a) ==
    /\ gone' = {} /\ (Rolling(a)' \/ op'[a].pc = "idle")
    /\ \A r \in Row : rows[r].state \in Movable =>
          disk'["home"][rows[r].path] = r \/ (Rolling(a)' /\ r \in Moved(a)')
    /\ writer.pc # "idle" =>
          /\ disk'["final"][rows[writer.row].path] # writer.row
          /\ writer.pc = "post" => disk'["home"][rows[writer.row].path] = writer.row
    /\ Rolling(a)' => InHand(a)'
    /\ op'[a].pc = "move" =>
          /\ "staging" \in dirs' /\ "final" \notin dirs'
          /\ \A j \in op'[a].i..Len(op'[a].snap) : op'[a].snap[j] \in Movable => rows[j].state \in Movable
    /\ Committed(a)' => "final" \in dirs' /\ "staging" \notin dirs'
    /\ op'[a].pc \in {"reverse", "uncommit"} => faults' = 1 \/ op'[a].moves = <<>>
    /\ ~Staging(a)' => \A q \in Path : disk'["staging"][q] = 0
    /\ \A q \in Path : disk'["final"][q] # 0 =>
          "final" \in dirs' /\ (rows[disk'["final"][q]].state = "purged" \/ Committed(a)')

LEMMA RollingKeeps ==
    ASSUME IInv, Ledger', NEW a \in Admin, Rolling(a), UNCHANGED <<rows, writer, sweep, mishap>>,
           \A b \in Admin \ {a} : op'[b] = op[b], Sound => RollbackOwes(a)
    PROVE  IInv'
<1>1. Ledger
    BY DEF IInv
<1>2. ASSUME Sound PROVE Sound' /\ Exact'
  <2>0. RollbackOwes(a)
    BY <1>2
  <2>1. op[a].pc # "idle" /\ \A r \in Row : ~Quarantined(r)
    BY <1>2 DEF Sound, RollbackSound, Rolling
  <2>2. /\ sweep = "idle" /\ Solo'
        /\ \A b \in Admin \ {a} : op[b].pc = "idle" /\ op'[b].pc = "idle"
    BY <1>2, <2>1, OthersIdle DEF Sound
  <2>3. op'[a].pc \in {"move", "reverse", "ledger", "uncommit", "idle"}
    BY <2>0 DEF RollbackOwes, Rolling
  <2>4. Row' = Row /\ (\A r \in Row : ~Quarantined(r)') /\ (\A r \in Row : rows'[r] = rows[r])
    BY <2>1 DEF Row, Quarantined
  <2>5. OnePath'
    BY <1>2, <2>4 DEF Sound, OnePath, Live
  <2>6. HomeHas'
    BY <2>0, <2>4 DEF RollbackOwes, HomeHas
  <2>7. WriterAlone'
    BY <1>2, <2>0, <2>4 DEF RollbackOwes, Sound, WriterAlone, Live
  <2>8. RollbackSound'
    <3> SUFFICES ASSUME NEW b \in Admin
                 PROVE  /\ Rolling(b)' => InHand(b)' /\ \A r \in Row' : ~Quarantined(r)'
                        /\ op'[b].pc \in {"read", "move"} =>
                              \A j \in op'[b].i..Len(op'[b].snap) : op'[b].snap[j] \in Movable => rows'[j].state \in Movable
                        /\ op'[b].pc = "move" => "staging" \in dirs' /\ "final" \notin dirs'
                        /\ Committed(b)' => "final" \in dirs' /\ "staging" \notin dirs'
                        /\ op'[b].pc \in {"reverse", "uncommit"} => faults' = 1 \/ op'[b].moves = <<>>
      BY DEF RollbackSound
    <3>1. CASE b = a
      BY <2>0, <2>3, <2>4, <3>1 DEF RollbackOwes
    <3>2. CASE b # a
      BY <2>2, <3>2 DEF Rolling, Committed
    <3> QED
      BY <3>1, <3>2
  <2>9. StagingEmpty'
    BY <2>0 DEF RollbackOwes, StagingEmpty
  <2>10. FinalSound'
    BY <2>0, <2>4 DEF RollbackOwes, FinalSound
  <2>11. RestoreSound' /\ Exact'
    BY <2>2, <2>3, <2>4 DEF RestoreSound, Restoring, Exact
  <2>12. OneStamp' /\ Swept' /\ gone' = {}
    BY <2>0, <2>4 DEF OneStamp, Swept, RollbackOwes
  <2> QED
    BY <2>2, <2>5, <2>6, <2>7, <2>8, <2>9, <2>10, <2>11, <2>12 DEF Sound
<1> QED
    BY <1>2 DEF IInv

(* What the settled rows and the write in flight know of each other.       *)
LEMMA Settled ==
    ASSUME Ledger, Sound, NEW r \in Row, rows[r].state \in Movable
    PROVE  /\ \A s \in Row : s # r /\ rows[s].path = rows[r].path => rows[s].state \notin Movable
           /\ writer.pc # "idle" => writer.row # r /\ rows[writer.row].path # rows[r].path
<1>1. Live(r)
    BY DEF Live, Movable
<1>2. \A s \in Row : s # r /\ rows[s].path = rows[r].path => ~Live(s)
    BY <1>1 DEF Sound, OnePath
<1>3. writer.pc # "idle" => writer.row # r
    BY DEF Sound, WriterAlone, Movable
<1>4. writer.pc # "idle" => rows[writer.row].path # rows[r].path
    BY <1>1, <1>3 DEF Sound, WriterAlone
<1> QED
    BY <1>2, <1>3, <1>4 DEF Live, Movable

LEMMA RollbackMoveKeeps ==
    ASSUME IInv, OneFault, NEW a \in Admin, RollbackMove(a)
    PROVE  IInv'
<1>0. Ledger /\ Shape /\ op[a].pc = "move" /\ Rolling(a) /\ op[a] \in OpType /\ Len(rows) \in Nat
    BY DEF IInv, Ledger, Shape, RollbackMove, Rolling
<1>i. PICK i \in Nat \ {0} : i = op[a].i
    BY <1>0 DEF OpType
<1>1. i <= Len(op[a].snap) /\ i \in Row /\ HeldIn(op[a], Len(rows))
  <2>1. i <= Len(op[a].snap) /\ Len(op[a].snap) \in Nat
    BY <1>0, <1>i DEF RollbackMove, OpType
  <2>2. i \in i..Len(op[a].snap)
    BY <2>1
  <2> QED
    BY <1>0, <1>i, <2>1, <2>2, SnapRows DEF Ledger, InLedger
<1>p. PICK p \in Path : p = rows[i].path
    BY <1>0, <1>1, RowTyped
<1>2. UNCHANGED <<backend, now, rows, writer, sweep, crashes, mishap, gone>>
    BY DEF RollbackMove
<1>s. \A r \in Row : rows[r].path \in Path
    BY <1>0, RowTyped
<1>3. CASE op[a].snap[i] \notin Movable /\ op' = [op EXCEPT ![a].i = op[a].i + 1] /\ UNCHANGED <<disk, dirs, faults>>
  <2>1. /\ op' \in [Admin -> OpType] /\ \A b \in Admin \ {a} : op'[b] = op[b]
        /\ op'[a].pc = "move" /\ op'[a].snap = op[a].snap /\ op'[a].i = i + 1 /\ op'[a].moves = op[a].moves
    BY <1>0, <1>i, <1>3, SkipOp DEF Shape
  <2>2. HeldIn(op'[a], Len(rows))
    BY <1>0, <1>1, <1>i, <2>1 DEF HeldIn, OpType
  <2>3. Ledger'
    BY <1>0, <1>2, <1>3, <2>1, <2>2, FilesKept DEF Shape
  <2>4. ASSUME Sound PROVE RollbackOwes(a)
    <3>1. Moved(a)' = Moved(a) /\ Rolling(a)' /\ ~Committed(a)' /\ Staging(a)' /\ Staging(a)
      BY <1>0, <2>1 DEF Moved, MovedBy, Rolling, Committed, Staging
    <3>2. InHand(a)'
      BY <1>0, <1>2, <1>3, <2>4, <3>1 DEF Sound, RollbackSound, InHand
    <3>3. \A j \in op'[a].i..Len(op'[a].snap) : j \in op[a].i..Len(op[a].snap)
      BY <1>0, <1>i, <2>1 DEF OpType
    <3>4. \A q \in Path : disk["final"][q] # 0 => "final" \in dirs /\ rows[disk["final"][q]].state = "purged"
      BY <1>0, <2>4 DEF Sound, FinalSound, RollbackSound
    <3>5. \A r \in Row : rows[r].state \in Movable => disk["home"][rows[r].path] = r \/ r \in Moved(a)
      BY <1>0, <2>4 DEF Sound, Solo, HomeHas, Rolling
    <3> QED
      BY <1>0, <1>2, <1>3, <2>1, <2>4, <3>1, <3>2, <3>3, <3>4, <3>5 DEF Sound, RollbackSound, WriterAlone, RollbackOwes
  <2> QED
    BY <1>0, <1>2, <2>1, <2>3, <2>4, RollingKeeps
<1>4. ASSUME Sound, op[a].snap[i] \in Movable
      PROVE  /\ rows[i].state \in Movable /\ disk["home"][p] = i
             /\ \A q \in Path : disk["final"][q] = 0
             /\ \A r \in Row : rows[r].state \in Movable => disk["home"][rows[r].path] = r \/ r \in Moved(a)
             /\ InHand(a) /\ Staging(a) /\ "final" \notin dirs
  <2>1. rows[i].state \in Movable
    <3>1. i \in op[a].i..Len(op[a].snap)
      BY <1>0, <1>1, <1>i DEF OpType
    <3> QED
      BY <1>0, <1>4, <3>1 DEF Sound, RollbackSound
  <2>2. \A r \in Row : rows[r].state \in Movable => disk["home"][rows[r].path] = r \/ r \in Moved(a)
    BY <1>0, <1>4 DEF Sound, Solo, HomeHas, Rolling
  <2>3. i \notin Moved(a)
    <3>1. \A k \in 1..Len(op[a].moves) : op[a].moves[k] < i
      BY <1>1, <1>i DEF HeldIn
    <3>2. \A k \in 1..Len(op[a].moves) : op[a].moves[k] # i
      BY <1>i, <3>1
    <3> QED
      BY <3>2 DEF Moved, MovedBy
  <2>4. "final" \notin dirs /\ InHand(a) /\ Staging(a)
    BY <1>0, <1>4 DEF Sound, RollbackSound, Staging
  <2> QED
    BY <1>4, <1>1, <1>p, <2>1, <2>2, <2>3, <2>4 DEF Sound, FinalSound
<1>5. CASE /\ op[a].snap[i] \in Movable /\ MoveOk("home", "staging", p)
           /\ op' = [op EXCEPT ![a].i = op[a].i + 1, ![a].moves = Append(@, op[a].i)]
  <2>1. /\ op' \in [Admin -> OpType] /\ \A b \in Admin \ {a} : op'[b] = op[b]
        /\ op'[a].pc = "move" /\ op'[a].snap = op[a].snap /\ op'[a].i = i + 1
        /\ Moved(a)' = Moved(a) \union {i}
    BY <1>0, <1>i, <1>5, AppendOp DEF Shape, Moved
  <2>2. HeldIn(op'[a], Len(rows))
    BY <1>0, <1>1, <1>i, <1>5, AppendHeld DEF Shape
  <2>3. /\ disk' \in [Where -> [Path -> Nat]] /\ UNCHANGED faults /\ dirs' = dirs \union {"staging"}
        /\ disk'["home"][p] = 0 /\ disk'["staging"][p] = disk["home"][p]
        /\ \A q \in Path \ {p} : disk'["home"][q] = disk["home"][q] /\ disk'["staging"][q] = disk["staging"][q]
        /\ \A q \in Path : disk'["final"][q] = disk["final"][q]
    <3>1. disk' = Renamed("home", "staging", p) /\ dirs' = dirs \union {"staging"} /\ UNCHANGED faults
      BY <1>5 DEF MoveOk, MadeDir, NoFault
    <3>2. "home" \in Where /\ "staging" \in Where /\ "final" \in Where /\ "home" # "staging"
      BY DEF Where
    <3>3. /\ disk' \in [Where -> [Path -> Nat]] /\ disk'["home"][p] = 0 /\ disk'["staging"][p] = disk["home"][p]
          /\ \A l \in Where : \A q \in Path : q # p \/ l \notin {"home", "staging"} => disk'[l][q] = disk[l][q]
      BY <1>0, <3>1, <3>2, RenamedDisk DEF Shape
    <3> QED
      BY <3>1, <3>2, <3>3
  <2>4. Ledger'
    <3>1. \A l \in Where : \A q \in Path : disk'[l][q] # 0 => \E k \in Where : disk'[l][q] = disk[k][q]
      BY <2>3 DEF Where
    <3>2. dirs' \subseteq {"staging", "final"} /\ faults' \in 0..MaxFaults
      BY <1>0, <2>3 DEF Shape
    <3> QED
      BY <1>0, <1>2, <2>1, <2>2, <2>3, <3>1, <3>2, FilesKept
  <2>5. ASSUME Sound PROVE RollbackOwes(a)
    <3>0. /\ rows[i].state \in Movable /\ disk["home"][p] = i /\ (\A q \in Path : disk["final"][q] = 0)
          /\ InHand(a) /\ Staging(a) /\ "final" \notin dirs
      BY <1>4, <1>5, <2>5
    <3>1. Rolling(a)' /\ ~Committed(a)' /\ Staging(a)'
      BY <2>1 DEF Rolling, Committed, Staging
    <3>2. \A r \in Row : r # i /\ rows[r].path = p => rows[r].state \notin Movable
      BY <1>0, <1>1, <1>p, <2>5, <3>0, Settled
    <3>3. Moved(a) \subseteq Row
      BY <1>0, MovedRows
    <3>4. \A m \in Moved(a)' : rows[m].state \in Movable /\ disk'["staging"][rows[m].path] = m
      <4>1. \A m \in Moved(a) : rows[m].state \in Movable /\ disk["staging"][rows[m].path] = m
        BY <3>0 DEF InHand
      <4>2. \A m \in Moved(a) : m = i \/ rows[m].path # p
        BY <3>2, <3>3, <4>1
      <4>3. \A m \in Moved(a) : rows[m].path \in Path
        BY <1>s, <3>3
      <4> QED
        BY <1>p, <2>1, <2>3, <3>0, <4>1, <4>2, <4>3
    <3>5. \A q \in Path : disk'["staging"][q] # 0 => disk'["staging"][q] \in Moved(a)'
      <4>1. \A q \in Path : disk["staging"][q] # 0 => disk["staging"][q] \in Moved(a)
        BY <3>0 DEF InHand
      <4> QED
        BY <2>1, <2>3, <3>0, <4>1
    <3>6. InHand(a)'
      BY <1>2, <3>1, <3>4, <3>5 DEF InHand
    <3>7. \A j \in op'[a].i..Len(op'[a].snap) : j \in op[a].i..Len(op[a].snap)
      BY <1>0, <1>i, <2>1 DEF OpType
    <3>8. \A r \in Row : rows[r].state \in Movable => disk'["home"][rows[r].path] = r \/ r \in Moved(a)'
      BY <1>4, <1>5, <1>s, <1>p, <2>1, <2>3, <2>5, <3>2
    <3>9. writer.pc # "idle" =>
            /\ disk'["final"][rows[writer.row].path] # writer.row
            /\ writer.pc = "post" => disk'["home"][rows[writer.row].path] = writer.row
      <4>1. writer.pc # "idle" => rows[writer.row].path \in Path /\ rows[writer.row].path # p
        BY <1>0, <1>1, <1>p, <1>s, <2>5, <3>0, Settled DEF Ledger, InLedger, Row
      <4> QED
        BY <2>3, <2>5, <4>1 DEF Sound, WriterAlone
    <3>10. "staging" \in dirs' /\ "final" \notin dirs' /\ \A q \in Path : disk'["final"][q] = 0
      BY <2>3, <3>0
    <3>11. \A j \in op'[a].i..Len(op'[a].snap) : op'[a].snap[j] \in Movable => rows[j].state \in Movable
      BY <1>0, <2>1, <2>5, <3>7 DEF Sound, RollbackSound
    <3>12. gone' = {}
      BY <1>2, <2>5 DEF Sound
    <3> HIDE DEF InHand
    <3> QED
      BY <2>1, <3>1, <3>6, <3>8, <3>9, <3>10, <3>11, <3>12 DEF RollbackOwes
  <2> QED
    BY <1>0, <1>2, <2>1, <2>4, <2>5, RollingKeeps
<1>6. CASE op[a].snap[i] \in Movable /\ MoveFails("home", "staging", p) /\ Goto(a, "reverse")
  <2>1. /\ op' \in [Admin -> OpType] /\ \A b \in Admin \ {a} : op'[b] = op[b]
        /\ op'[a].pc = "reverse" /\ op'[a].snap = op[a].snap /\ op'[a].i = i /\ op'[a].moves = op[a].moves
    <3>1. "reverse" \in Pc
      BY DEF Pc
    <3> QED
      BY <1>0, <1>i, <1>6, <3>1, GotoOp DEF Shape
  <2>2. HeldIn(op'[a], Len(rows))
    BY <1>0, <1>1, <1>i, <2>1 DEF HeldIn, OpType
  <2>3. UNCHANGED disk /\ dirs' = dirs \union {"staging"} /\ (disk["home"][p] # 0 => Fault) /\ (Fault \/ NoFault)
    BY <1>6 DEF MoveFails, MadeDir
  <2>4. faults' \in 0..MaxFaults /\ (Fault => faults' = 1)
    BY <1>0, <2>3, FaultOnce
  <2>5. Ledger'
    <3>1. dirs' \subseteq {"staging", "final"}
      BY <1>0, <2>3 DEF Shape
    <3> QED
      BY <1>0, <1>2, <2>1, <2>2, <2>3, <2>4, <3>1, FilesKept DEF Shape
  <2>6. ASSUME Sound PROVE RollbackOwes(a)
    <3>0. /\ disk["home"][p] = i /\ (\A q \in Path : disk["final"][q] = 0)
          /\ InHand(a) /\ Staging(a) /\ "final" \notin dirs
      BY <1>4, <1>6, <2>6
    <3>1. Moved(a)' = Moved(a) /\ Rolling(a)' /\ ~Committed(a)' /\ Staging(a)'
      BY <2>1 DEF Moved, MovedBy, Rolling, Committed, Staging
    <3>2. InHand(a)'
      BY <1>2, <2>3, <3>0, <3>1 DEF InHand
    <3>3. faults' = 1
      BY <2>3, <2>4, <3>0
    <3>4. \A r \in Row : rows[r].state \in Movable => disk["home"][rows[r].path] = r \/ r \in Moved(a)
      BY <1>4, <1>6, <2>6
    <3>5. gone' = {} /\ (writer.pc # "idle" =>
            /\ disk["final"][rows[writer.row].path] # writer.row
            /\ writer.pc = "post" => disk["home"][rows[writer.row].path] = writer.row)
      BY <1>2, <2>6 DEF Sound, WriterAlone
    <3> HIDE DEF InHand
    <3> QED
      BY <2>1, <2>3, <3>0, <3>1, <3>2, <3>3, <3>4, <3>5 DEF RollbackOwes
  <2> QED
    BY <1>0, <1>2, <2>1, <2>5, <2>6, RollingKeeps
<1>7. \/ op[a].snap[i] \notin Movable /\ op' = [op EXCEPT ![a].i = op[a].i + 1] /\ UNCHANGED <<disk, dirs, faults>>
      \/ /\ op[a].snap[i] \in Movable /\ MoveOk("home", "staging", p)
         /\ op' = [op EXCEPT ![a].i = op[a].i + 1, ![a].moves = Append(@, op[a].i)]
      \/ op[a].snap[i] \in Movable /\ MoveFails("home", "staging", p) /\ Goto(a, "reverse")
    BY <1>i, <1>p DEF RollbackMove
<1> QED
    BY <1>3, <1>5, <1>6, <1>7

(* What holds while a rollback is under way.                               *)
LEMMA RollbackState ==
    ASSUME Ledger, Sound, NEW a \in Admin, Rolling(a)
    PROVE  /\ InHand(a) /\ (\A r \in Row : ~Quarantined(r)) /\ gone = {}
           /\ (\A b \in Admin \ {a} : op[b].pc = "idle") /\ Moved(a) \subseteq Row
           /\ \A r \in Row : rows[r].state \in Movable => disk["home"][rows[r].path] = r \/ r \in Moved(a)
           /\ writer.pc # "idle" =>
                 /\ writer.row \in Row /\ writer.row # 0 /\ rows[writer.row].path \in Path
                 /\ disk["final"][rows[writer.row].path] # writer.row
                 /\ writer.pc = "post" => disk["home"][rows[writer.row].path] = writer.row
           /\ ~Staging(a) => \A q \in Path : disk["staging"][q] = 0
           /\ \A q \in Path : disk["final"][q] # 0 =>
                 "final" \in dirs /\ (rows[disk["final"][q]].state = "purged" \/ Committed(a))
<1>1. op[a].pc # "idle" /\ Solo /\ gone = {} /\ InHand(a) /\ \A r \in Row : ~Quarantined(r)
    BY DEF Sound, RollbackSound, Rolling
<1>2. \A b \in Admin \ {a} : op[b].pc = "idle" /\ ~Rolling(b) /\ ~Staging(b) /\ ~Committed(b)
    BY <1>1 DEF Solo, Rolling, Staging, Committed
<1>3. Moved(a) \subseteq Row
    BY MovedRows
<1>4. \A r \in Row : rows[r].state \in Movable => disk["home"][rows[r].path] = r \/ r \in Moved(a)
    BY <1>2 DEF Sound, HomeHas
<1>5. writer.pc # "idle" => writer.row \in Row /\ writer.row # 0 /\ rows[writer.row].path \in Path
  <2>1. writer.pc # "idle" => writer.row \in Row
    BY DEF Ledger, InLedger, Row
  <2>2. 0 \notin Row
    BY DEF Row
  <2> QED
    BY <2>1, <2>2, RowTyped
<1>6. ~Staging(a) => \A q \in Path : disk["staging"][q] = 0
    BY <1>2 DEF Sound, StagingEmpty
<1>7. \A q \in Path : disk["final"][q] # 0 =>
                 "final" \in dirs /\ (rows[disk["final"][q]].state = "purged" \/ Committed(a))
  <2> SUFFICES ASSUME NEW q \in Path, disk["final"][q] # 0
               PROVE  "final" \in dirs /\ (rows[disk["final"][q]].state = "purged" \/ Committed(a))
    OBVIOUS
  <2>1. disk["final"][q] \in Row
    BY FileRow DEF Where
  <2> QED
    BY <1>1, <1>2, <2>1 DEF Sound, FinalSound
<1>8. writer.pc # "idle" => /\ disk["final"][rows[writer.row].path] # writer.row
                            /\ writer.pc = "post" => disk["home"][rows[writer.row].path] = writer.row
    BY DEF Sound, WriterAlone
<1> QED
    BY <1>1, <1>2, <1>3, <1>4, <1>5, <1>6, <1>7, <1>8

(* Moving on without a file being moved.                                   *)
LEMMA GotoHeld ==
    ASSUME Shape, NEW a \in Admin, HeldIn(op[a], Len(rows)), NEW l \in Pc \ {"idle", "read", "rread"}, Goto(a, l)
    PROVE  /\ op' \in [Admin -> OpType] /\ \A b \in Admin \ {a} : op'[b] = op[b]
           /\ op'[a].pc = l /\ op'[a].snap = op[a].snap /\ op'[a].i = op[a].i
           /\ op'[a].moves = op[a].moves /\ Moved(a)' = Moved(a) /\ HeldIn(op'[a], Len(rows))
<1>1. /\ op' \in [Admin -> OpType] /\ \A b \in Admin \ {a} : op'[b] = op[b]
      /\ op'[a].pc = l /\ op'[a].snap = op[a].snap /\ op'[a].i = op[a].i
      /\ op'[a].moves = op[a].moves
    BY GotoOp DEF Shape
<1> QED
    BY <1>1 DEF HeldIn, Moved, MovedBy

LEMMA RollbackCommitKeeps ==
    ASSUME IInv, OneFault, NEW a \in Admin, RollbackCommit(a)
    PROVE  IInv'
<1>0. Ledger /\ Shape /\ op[a].pc = "move" /\ Rolling(a) /\ Staging(a) /\ HeldIn(op[a], Len(rows))
    BY DEF IInv, Ledger, InLedger, RollbackCommit, Rolling, Staging
<1>1. UNCHANGED <<backend, now, rows, writer, sweep, crashes, mishap, gone>>
    BY DEF RollbackCommit
<1>2. CASE /\ "staging" \in dirs /\ "final" \notin dirs /\ NoFault
           /\ disk' = [disk EXCEPT !["final"] = disk["staging"], !["staging"] = Missing]
           /\ dirs' = {"final"} /\ Goto(a, "ledger")
  <2>1. /\ op' \in [Admin -> OpType] /\ \A b \in Admin \ {a} : op'[b] = op[b]
        /\ op'[a].pc = "ledger" /\ Moved(a)' = Moved(a) /\ HeldIn(op'[a], Len(rows))
    <3>1. "ledger" \in Pc \ {"idle", "read", "rread"}
      BY DEF Pc
    <3> QED
      BY <1>0, <1>2, <3>1, GotoHeld
  <2>2. /\ disk' \in [Where -> [Path -> Nat]]
        /\ \A q \in Path : /\ disk'["staging"][q] = 0 /\ disk'["final"][q] = disk["staging"][q]
                           /\ disk'["home"][q] = disk["home"][q]
    <3>1. "home" \in Where \ {"staging", "final"} /\ "staging" \in Where /\ "final" \in Where /\ "staging" # "final"
      BY DEF Where
    <3> QED
      BY <1>0, <1>2, <3>1, RenamedDir DEF Shape
  <2>3. Ledger'
    <3>1. \A l \in Where : \A q \in Path : disk'[l][q] # 0 => \E k \in Where : disk'[l][q] = disk[k][q]
      BY <2>2 DEF Where
    <3>2. dirs' \subseteq {"staging", "final"} /\ faults' \in 0..MaxFaults
      BY <1>0, <1>2 DEF Shape, NoFault
    <3> QED
      BY <1>0, <1>1, <2>1, <2>2, <3>1, <3>2, FilesKept
  <2>4. ASSUME Sound PROVE RollbackOwes(a)
    <3>1. Rolling(a)' /\ ~Staging(a)' /\ Committed(a)'
      BY <2>1 DEF Rolling, Staging, Committed
    <3>2. /\ \A m \in Moved(a) : m \in Row /\ rows[m].state \in Movable /\ disk["staging"][rows[m].path] = m
          /\ \A q \in Path : disk["staging"][q] # 0 => disk["staging"][q] \in Moved(a)
      BY <1>0, <2>4, RollbackState DEF InHand
    <3>3. InHand(a)'
      <4>1. \A m \in Moved(a) : disk'["final"][rows[m].path] = m
        BY <1>0, <2>2, <3>2, RowTyped
      <4> QED
        BY <1>1, <2>1, <2>2, <3>1, <3>2, <4>1 DEF InHand
    <3>4. writer.pc # "idle" =>
            /\ disk'["final"][rows[writer.row].path] # writer.row
            /\ writer.pc = "post" => disk'["home"][rows[writer.row].path] = writer.row
      <4>1. writer.pc # "idle" => /\ writer.row # 0 /\ rows[writer.row].path \in Path
                                  /\ writer.pc = "post" => disk["home"][rows[writer.row].path] = writer.row
        BY <1>0, <2>4, RollbackState
      <4>2. writer.pc # "idle" => writer.row \notin Moved(a)
        BY <1>0, <2>4, <3>2, Settled
      <4> QED
        BY <2>2, <3>2, <4>1, <4>2
    <3>5. \A r \in Row : rows[r].state \in Movable => disk'["home"][rows[r].path] = r \/ r \in Moved(a)'
      BY <1>0, <2>1, <2>2, <2>4, RollbackState, RowTyped
    <3>6. gone' = {}
      BY <1>1, <2>4 DEF Sound
    <3> HIDE DEF InHand
    <3> QED
      BY <1>2, <2>1, <2>2, <3>1, <3>3, <3>4, <3>5, <3>6 DEF RollbackOwes
  <2> QED
    BY <1>0, <1>1, <2>1, <2>3, <2>4, RollingKeeps
<1>3. CASE /\ IF "staging" \in dirs /\ "final" \notin dirs THEN Fault ELSE NoFault
           /\ Goto(a, "reverse") /\ UNCHANGED <<disk, dirs>>
  <2>1. /\ op' \in [Admin -> OpType] /\ \A b \in Admin \ {a} : op'[b] = op[b]
        /\ op'[a].pc = "reverse" /\ Moved(a)' = Moved(a) /\ HeldIn(op'[a], Len(rows))
    <3>1. "reverse" \in Pc \ {"idle", "read", "rread"}
      BY DEF Pc
    <3> QED
      BY <1>0, <1>3, <3>1, GotoHeld
  <2>2. faults' \in 0..MaxFaults /\ (Fault => faults' = 1)
    BY <1>0, <1>3, FaultOnce
  <2>3. Ledger'
    BY <1>0, <1>1, <1>3, <2>1, <2>2, FilesKept DEF Shape
  <2>4. ASSUME Sound PROVE RollbackOwes(a)
    <3>1. Rolling(a)' /\ Staging(a)' /\ ~Committed(a)' /\ ~Committed(a)
      BY <1>0, <2>1 DEF Rolling, Staging, Committed
    <3>2. InHand(a)'
      BY <1>0, <1>1, <1>3, <2>1, <2>4, <3>1, RollbackState DEF InHand
    <3>3. faults' = 1
      BY <1>0, <1>3, <2>2, <2>4 DEF Sound, RollbackSound
    <3>4. gone' = {}
      BY <1>1, <2>4 DEF Sound
    <3> HIDE DEF InHand
    <3> QED
      BY <1>0, <1>3, <2>1, <2>4, <3>1, <3>2, <3>3, <3>4, RollbackState DEF RollbackOwes
  <2> QED
    BY <1>0, <1>1, <2>1, <2>3, <2>4, RollingKeeps
<1> QED
    BY <1>2, <1>3 DEF RollbackCommit

LEMMA RollbackUncommitKeeps ==
    ASSUME IInv, OneFault, NEW a \in Admin, RollbackUncommit(a)
    PROVE  IInv'
<1>0. Ledger /\ Shape /\ op[a].pc = "uncommit" /\ Rolling(a) /\ ~Staging(a) /\ HeldIn(op[a], Len(rows))
    BY DEF IInv, Ledger, InLedger, RollbackUncommit, Rolling, Staging
<1>1. UNCHANGED <<backend, now, rows, writer, sweep, crashes, mishap, gone>>
    BY DEF RollbackUncommit
<1>2. ASSUME Sound
      PROVE  /\ \A m \in Moved(a) : m \in Row /\ rows[m].state \in Movable /\ disk["final"][rows[m].path] = m
             /\ \A q \in Path : disk["final"][q] # 0 => disk["final"][q] \in Moved(a)
             /\ "final" \in dirs /\ "staging" \notin dirs /\ (faults = 1 \/ op[a].moves = <<>>)
    BY <1>0, <1>2, RollbackState DEF InHand, Sound, RollbackSound, Committed
<1>3. CASE /\ "final" \in dirs /\ "staging" \notin dirs /\ NoFault
           /\ disk' = [disk EXCEPT !["staging"] = disk["final"], !["final"] = Missing]
           /\ dirs' = {"staging"} /\ Goto(a, "reverse")
  <2>1. /\ op' \in [Admin -> OpType] /\ \A b \in Admin \ {a} : op'[b] = op[b]
        /\ op'[a].pc = "reverse" /\ op'[a].moves = op[a].moves
        /\ Moved(a)' = Moved(a) /\ HeldIn(op'[a], Len(rows))
    <3>1. "reverse" \in Pc \ {"idle", "read", "rread"}
      BY DEF Pc
    <3> QED
      BY <1>0, <1>3, <3>1, GotoHeld
  <2>2. /\ disk' \in [Where -> [Path -> Nat]]
        /\ \A q \in Path : /\ disk'["final"][q] = 0 /\ disk'["staging"][q] = disk["final"][q]
                           /\ disk'["home"][q] = disk["home"][q]
    <3>1. "home" \in Where \ {"final", "staging"} /\ "staging" \in Where /\ "final" \in Where /\ "staging" # "final"
      BY DEF Where
    <3> QED
      BY <1>0, <1>3, <3>1, RenamedDir DEF Shape
  <2>3. Ledger'
    <3>1. \A l \in Where : \A q \in Path : disk'[l][q] # 0 => \E k \in Where : disk'[l][q] = disk[k][q]
      BY <2>2 DEF Where
    <3>2. dirs' \subseteq {"staging", "final"} /\ faults' \in 0..MaxFaults
      BY <1>0, <1>3 DEF Shape, NoFault
    <3> QED
      BY <1>0, <1>1, <2>1, <2>2, <3>1, <3>2, FilesKept
  <2>4. ASSUME Sound PROVE RollbackOwes(a)
    <3>1. Rolling(a)' /\ Staging(a)' /\ ~Committed(a)'
      BY <2>1 DEF Rolling, Staging, Committed
    <3>2. InHand(a)'
      <4>1. \A m \in Moved(a) : disk'["staging"][rows[m].path] = m
        BY <1>0, <1>2, <2>2, <2>4, RowTyped
      <4> QED
        BY <1>1, <1>2, <2>1, <2>2, <2>4, <3>1, <4>1 DEF InHand
    <3>3. writer.pc # "idle" =>
            /\ disk'["final"][rows[writer.row].path] # writer.row
            /\ writer.pc = "post" => disk'["home"][rows[writer.row].path] = writer.row
      BY <1>0, <2>2, <2>4, RollbackState
    <3>4. \A r \in Row : rows[r].state \in Movable => disk'["home"][rows[r].path] = r \/ r \in Moved(a)'
      BY <1>0, <2>1, <2>2, <2>4, RollbackState, RowTyped
    <3>5. gone' = {} /\ (faults' = 1 \/ op'[a].moves = <<>>)
      BY <1>1, <1>2, <1>3, <2>1, <2>4 DEF Sound, NoFault
    <3> HIDE DEF InHand
    <3> QED
      BY <1>3, <2>1, <2>2, <3>1, <3>2, <3>3, <3>4, <3>5 DEF RollbackOwes
  <2> QED
    BY <1>0, <1>1, <2>1, <2>3, <2>4, RollingKeeps
<1>4. CASE /\ IF "final" \in dirs /\ "staging" \notin dirs THEN Fault ELSE NoFault
           /\ Return(a) /\ UNCHANGED <<disk, dirs>>
  <2>1. /\ op' \in [Admin -> OpType] /\ \A b \in Admin \ {a} : op'[b] = op[b]
        /\ op'[a] = Idle /\ HeldIn(op'[a], Len(rows)) /\ op'[a].pc = "idle"
    BY <1>0, <1>4, ReturnOp, IdleHeld, IdleOp DEF Shape
  <2>2. faults' \in 0..MaxFaults /\ (Fault => faults = 0)
    BY <1>0, <1>4, FaultOnce
  <2>3. Ledger'
    BY <1>0, <1>1, <1>4, <2>1, <2>2, FilesKept DEF Shape
  <2>4. ASSUME Sound PROVE RollbackOwes(a)
    <3>1. ~Rolling(a)' /\ ~Staging(a)' /\ ~Committed(a)'
      BY <2>1 DEF Rolling, Staging, Committed
    <3>2. op[a].moves = <<>>
      BY <1>2, <1>4, <2>2, <2>4
    <3>3. Moved(a) = {}
      BY <3>2 DEF Moved, MovedBy
    <3>4. gone' = {} /\ \A q \in Path : disk["final"][q] = 0
      BY <1>1, <1>2, <2>4, <3>3 DEF Sound
    <3> QED
      BY <1>0, <1>4, <2>1, <2>4, <3>1, <3>3, <3>4, RollbackState DEF RollbackOwes
  <2> QED
    BY <1>0, <1>1, <2>1, <2>3, <2>4, RollingKeeps
<1> QED
    BY <1>3, <1>4 DEF RollbackUncommit

(* One file goes back home: with the one fault spent, it arrives.          *)
LEMMA RollbackReverseKeeps ==
    ASSUME IInv, OneFault, NEW a \in Admin, RollbackReverse(a)
    PROVE  IInv'
<1>0. /\ Ledger /\ Shape /\ op[a].pc = "reverse" /\ Rolling(a) /\ Staging(a) /\ ~Committed(a)
      /\ HeldIn(op[a], Len(rows)) /\ op[a].moves # <<>> /\ Len(rows) \in Nat
    BY DEF IInv, Ledger, Shape, InLedger, RollbackReverse, Rolling, Staging, Committed
<1>1. UNCHANGED <<backend, now, rows, writer, sweep, crashes, mishap, gone>>
    BY DEF RollbackReverse
<1>2. /\ op' \in [Admin -> OpType] /\ \A b \in Admin \ {a} : op'[b] = op[b]
      /\ op'[a].pc = "reverse" /\ HeldIn(op'[a], Len(rows))
      /\ Last(op[a].moves) \in Moved(a) /\ Moved(a)' = Moved(a) \ {Last(op[a].moves)}
  <2>1. op' = [op EXCEPT ![a].moves = Front(@)] /\ op \in [Admin -> OpType]
    BY <1>0 DEF RollbackReverse, Shape
  <2> QED
    BY <1>0, <2>1, FrontOp DEF Moved
<1>s. \A r \in Row : rows[r].path \in Path
    BY <1>0, RowTyped
<1>r. PICK r \in Row : r = Last(op[a].moves)
    BY <1>0, <1>2, MovedRows
<1>p. PICK p \in Path : p = rows[r].path
    BY <1>s
<1>3. MoveOk("staging", "home", p) \/ MoveFails("staging", "home", p)
    BY <1>r, <1>p DEF RollbackReverse
<1>w. "home" \in Where /\ "staging" \in Where /\ "final" \in Where /\ "home" # "staging"
    BY DEF Where
<1>4. /\ dirs' = dirs /\ (Fault \/ NoFault)
      /\ (UNCHANGED disk /\ (disk["staging"][p] # 0 => Fault)) \/ (disk' = Renamed("staging", "home", p) /\ NoFault)
    BY <1>3 DEF MoveOk, MoveFails, MadeDir
<1>5. disk' = Renamed("staging", "home", p) =>
        /\ disk' \in [Where -> [Path -> Nat]]
        /\ disk'["staging"][p] = 0 /\ disk'["home"][p] = disk["staging"][p]
        /\ \A l \in Where : \A q \in Path : q # p \/ l \notin {"staging", "home"} => disk'[l][q] = disk[l][q]
  <2>1. "staging" # "home" /\ disk \in [Where -> [Path -> Nat]]
    BY <1>0 DEF Shape
  <2> QED
    BY <1>w, <2>1, RenamedDisk
<1>6. faults' \in 0..MaxFaults /\ (faults = 1 => faults' = 1) /\ (Fault => faults = 0)
    BY <1>0, <1>4, FaultOnce
<1>7. Ledger'
  <2>1. /\ disk' \in [Where -> [Path -> Nat]]
        /\ \A l \in Where : \A q \in Path : disk'[l][q] # 0 => \E k \in Where : disk'[l][q] = disk[k][q]
    BY <1>0, <1>4, <1>5, <1>w DEF Shape
  <2>2. dirs' \subseteq {"staging", "final"}
    BY <1>0, <1>4 DEF Shape
  <2> QED
    BY <1>0, <1>1, <1>2, <1>6, <2>1, <2>2, FilesKept
<1>8. ASSUME Sound PROVE RollbackOwes(a)
  <2>1. /\ \A m \in Moved(a) : m \in Row /\ rows[m].state \in Movable /\ disk["staging"][rows[m].path] = m
        /\ \A q \in Path : disk["staging"][q] # 0 => disk["staging"][q] \in Moved(a)
        /\ faults = 1
    BY <1>0, <1>8, RollbackState DEF InHand, Sound, RollbackSound
  <2>2. disk["staging"][p] = r /\ r # 0 /\ r \in Moved(a) /\ rows[r].state \in Movable
    BY <1>2, <1>r, <1>p, <2>1 DEF Row
  <2>3. /\ disk'["staging"][p] = 0 /\ disk'["home"][p] = r /\ faults' = 1
        /\ \A q \in Path \ {p} : disk'["home"][q] = disk["home"][q] /\ disk'["staging"][q] = disk["staging"][q]
        /\ \A q \in Path : disk'["final"][q] = disk["final"][q]
    <3>1. disk' = Renamed("staging", "home", p) /\ faults' = 1
      BY <1>4, <1>6, <2>1, <2>2
    <3> QED
      BY <1>5, <1>w, <2>2, <3>1
  <2>4. Rolling(a)' /\ Staging(a)' /\ ~Committed(a)'
    BY <1>2 DEF Rolling, Staging, Committed
  <2>5. \A s \in Row : s # r /\ rows[s].path = p => rows[s].state \notin Movable
    BY <1>0, <1>8, <1>p, <2>2, Settled
  <2>6. InHand(a)'
    <3>1. \A m \in Moved(a)' : rows[m].state \in Movable /\ disk'["staging"][rows[m].path] = m
      BY <1>2, <1>r, <1>s, <2>1, <2>3, <2>5
    <3>2. \A q \in Path : disk'["staging"][q] # 0 => disk'["staging"][q] \in Moved(a)'
      <4> SUFFICES ASSUME NEW q \in Path, disk'["staging"][q] # 0 PROVE disk'["staging"][q] \in Moved(a)'
        OBVIOUS
      <4>1. q # p /\ disk'["staging"][q] = disk["staging"][q]
        BY <2>3
      <4>2. rows[disk["staging"][q]].path = q
        BY <1>0, <1>w, <4>1, FileRow
      <4> QED
        BY <1>2, <1>r, <1>p, <2>1, <4>1, <4>2
    <3> QED
      BY <1>1, <2>4, <3>1, <3>2 DEF InHand
  <2>7. \A s \in Row : rows[s].state \in Movable => disk'["home"][rows[s].path] = s \/ s \in Moved(a)'
    <3>1. \A s \in Row : rows[s].state \in Movable => disk["home"][rows[s].path] = s \/ s \in Moved(a)
      BY <1>0, <1>8, RollbackState
    <3> QED
      BY <1>2, <1>r, <1>s, <1>p, <2>3, <2>5, <3>1
  <2>8. writer.pc # "idle" =>
            /\ disk'["final"][rows[writer.row].path] # writer.row
            /\ writer.pc = "post" => disk'["home"][rows[writer.row].path] = writer.row
    <3>1. writer.pc # "idle" => /\ rows[writer.row].path \in Path /\ disk["final"][rows[writer.row].path] # writer.row
                                /\ writer.pc = "post" => disk["home"][rows[writer.row].path] = writer.row
      BY <1>0, <1>8, RollbackState
    <3>2. writer.pc # "idle" => rows[writer.row].path # p
      BY <1>0, <1>8, <1>p, <2>2, Settled
    <3> QED
      BY <2>3, <3>1, <3>2
  <2>9. gone' = {} /\ \A q \in Path : disk'["final"][q] # 0 => "final" \in dirs /\ rows[disk'["final"][q]].state = "purged"
    BY <1>0, <1>1, <1>8, <2>3, RollbackState
  <2> HIDE DEF InHand
  <2> QED
    BY <1>2, <1>4, <2>3, <2>4, <2>6, <2>7, <2>8, <2>9 DEF RollbackOwes
<1> QED
    BY <1>0, <1>1, <1>2, <1>7, <1>8, RollingKeeps

(* The staging directory is removed once it is empty.                      *)
LEMMA RollbackClearKeeps ==
    ASSUME IInv, OneFault, NEW a \in Admin, RollbackClear(a)
    PROVE  IInv'
<1>0. Ledger /\ Shape /\ op[a].pc = "reverse" /\ Rolling(a) /\ Staging(a) /\ ~Committed(a) /\ op[a].moves = <<>>
    BY DEF IInv, Ledger, RollbackClear, Rolling, Staging, Committed
<1>1. UNCHANGED <<backend, now, rows, writer, sweep, crashes, mishap>> /\ Return(a)
    BY DEF RollbackClear
<1>2. /\ op' \in [Admin -> OpType] /\ \A b \in Admin \ {a} : op'[b] = op[b]
      /\ op'[a] = Idle /\ HeldIn(op'[a], Len(rows)) /\ op'[a].pc = "idle"
    BY <1>0, <1>1, ReturnOp, IdleHeld, IdleOp DEF Shape
<1>3. /\ Fault \/ NoFault
      /\ \/ /\ disk' = [disk EXCEPT !["staging"] = Missing] /\ dirs' = dirs \ {"staging"}
            /\ gone' = gone \union Deleted("staging")
         \/ UNCHANGED <<disk, dirs, gone>>
    BY DEF RollbackClear, RemoveAll
<1>4. /\ disk' \in [Where -> [Path -> Nat]]
      /\ \A q \in Path : /\ disk'["staging"][q] \in {0, disk["staging"][q]} /\ disk'["final"][q] = disk["final"][q]
                         /\ disk'["home"][q] = disk["home"][q]
  <2>1. "staging" \in Where /\ "final" \in Where \ {"staging"} /\ "home" \in Where \ {"staging"}
    BY DEF Where
  <2>2. CASE disk' = [disk EXCEPT !["staging"] = Missing]
    BY <1>0, <2>1, <2>2, RemovedDir DEF Shape
  <2> QED
    BY <1>0, <1>3, <2>2 DEF Shape
<1>5. faults' \in 0..MaxFaults /\ dirs' \subseteq {"staging", "final"} /\ ("final" \in dirs => "final" \in dirs')
    BY <1>0, <1>3, FaultOnce DEF Shape
<1>6. Ledger'
  <2>1. \A l \in Where : \A q \in Path : disk'[l][q] # 0 => \E k \in Where : disk'[l][q] = disk[k][q]
    BY <1>4 DEF Where
  <2> QED
    BY <1>0, <1>1, <1>2, <1>4, <1>5, <2>1, FilesKept
<1>7. ASSUME Sound PROVE RollbackOwes(a)
  <2>1. ~Rolling(a)' /\ ~Staging(a)' /\ ~Committed(a)' /\ Moved(a) = {}
    BY <1>0, <1>2 DEF Rolling, Staging, Committed, Moved, MovedBy
  <2>2. \A q \in Path : disk["staging"][q] = 0
    BY <1>0, <1>7, <2>1, RollbackState DEF InHand
  <2>3. Deleted("staging") = {}
    BY <2>2 DEF Deleted, Files
  <2>4. gone' = {} /\ \A q \in Path : disk'["staging"][q] = 0
    BY <1>3, <1>4, <1>7, <2>2, <2>3 DEF Sound
  <2>5. \A r \in Row : rows[r].state \in Movable => disk'["home"][rows[r].path] = r
    BY <1>0, <1>4, <1>7, <2>1, RollbackState, RowTyped
  <2>6. writer.pc # "idle" =>
            /\ disk'["final"][rows[writer.row].path] # writer.row
            /\ writer.pc = "post" => disk'["home"][rows[writer.row].path] = writer.row
    BY <1>0, <1>4, <1>7, RollbackState
  <2>7. \A q \in Path : disk'["final"][q] # 0 => "final" \in dirs' /\ rows[disk'["final"][q]].state = "purged"
    BY <1>0, <1>4, <1>5, <1>7, RollbackState
  <2> QED
    BY <1>2, <2>1, <2>4, <2>5, <2>6, <2>7 DEF RollbackOwes
<1> QED
    BY <1>0, <1>1, <1>2, <1>6, <1>7, RollingKeeps

(* The ledger follows the files, or refuses.                               *)
LEMMA RollbackLedgerKeeps ==
    ASSUME IInv, OneFault, NEW a \in Admin, RollbackLedger(a)
    PROVE  IInv'
<1>0. Ledger /\ Shape /\ op[a].pc = "ledger" /\ Rolling(a) /\ ~Staging(a) /\ Committed(a) /\ HeldIn(op[a], Len(rows))
    BY DEF IInv, Ledger, InLedger, RollbackLedger, Rolling, Staging, Committed
<1>1. UNCHANGED <<backend, now, disk, dirs, writer, sweep, crashes, gone>>
    BY DEF RollbackLedger
<1>t. DOMAIN rows = Row /\ Len(rows) \in Nat /\ \A r \in Row : rows[r] \in RowType /\ rows[r].path \in Path /\ rows[r].state \in State
    BY <1>0, RowTyped
<1>2. ASSUME Sound
      PROVE  /\ \A m \in Moved(a) : m \in Row /\ rows[m].state \in Movable /\ disk["final"][rows[m].path] = m
             /\ \A q \in Path : disk["final"][q] # 0 => disk["final"][q] \in Moved(a)
             /\ "final" \in dirs /\ "staging" \notin dirs
    BY <1>0, <1>2, RollbackState DEF InHand, Sound, RollbackSound
<1>3. CASE /\ IF RollbackRejected THEN NoFault ELSE Fault
           /\ Goto(a, "uncommit") /\ UNCHANGED <<rows, mishap>>
  <2>1. /\ op' \in [Admin -> OpType] /\ \A b \in Admin \ {a} : op'[b] = op[b]
        /\ op'[a].pc = "uncommit" /\ op'[a].moves = op[a].moves
        /\ Moved(a)' = Moved(a) /\ HeldIn(op'[a], Len(rows))
    <3>1. "uncommit" \in Pc \ {"idle", "read", "rread"}
      BY DEF Pc
    <3> QED
      BY <1>0, <1>3, <3>1, GotoHeld
  <2>2. faults' \in 0..MaxFaults /\ (Fault => faults' = 1)
    BY <1>0, <1>3, FaultOnce
  <2>3. Ledger'
    BY <1>0, <1>1, <1>3, <2>1, <2>2, FilesKept DEF Shape
  <2>4. ASSUME Sound PROVE RollbackOwes(a)
    <3>1. Rolling(a)' /\ ~Staging(a)' /\ Committed(a)'
      BY <2>1 DEF Rolling, Staging, Committed
    <3>2. faults' = 1 \/ op'[a].moves = <<>>
      <4>1. CASE RollbackRejected
        <5>1. \A m \in Moved(a) : FALSE
          BY <1>2, <1>t, <2>4, <4>1 DEF RollbackRejected, Movable
        <5>2. op[a].moves \in Seq(Nat)
          BY <1>0 DEF Shape, OpType
        <5>3. Len(op[a].moves) # 0 => 1 \in 1..Len(op[a].moves)
          BY <5>2
        <5>4. Len(op[a].moves) = 0
          BY <5>1, <5>3 DEF Moved, MovedBy
        <5> QED
          BY <2>1, <5>2, <5>4
      <4> QED
        BY <1>3, <2>2, <4>1
    <3>3. InHand(a)'
      BY <1>0, <1>1, <1>2, <1>3, <2>1, <2>4, <3>1 DEF InHand
    <3>4. gone' = {}
      BY <1>1, <2>4 DEF Sound
    <3> HIDE DEF InHand
    <3> QED
      BY <1>0, <1>1, <1>2, <2>1, <2>4, <3>1, <3>2, <3>3, <3>4, RollbackState DEF RollbackOwes
  <2> QED
    BY <1>0, <1>1, <1>3, <2>1, <2>3, <2>4, RollingKeeps
<1>q. ASSUME QuarantineRows
      PROVE  /\ rows' \in Seq(RowType) /\ Len(rows') = Len(rows) /\ Row' = Row
             /\ \A r \in Row : rows'[r].path = rows[r].path
             /\ \A r \in Row \cap ToQuarantine : rows'[r].state = "quarantined" /\ rows'[r].qat = QuarantineStamp(r)
             /\ \A r \in Row \ ToQuarantine : rows'[r] = rows[r]
  <2>1. \A r \in Row : QuarantineStamp(r) \in Int
    <3>1. \A r \in Row : rows[r].qat \in Int
      BY <1>t DEF RowType
    <3> QED
      BY <1>0, <3>1 DEF QuarantineStamp, Shape
  <2>2. rows' = [r \in Row |-> IF r \in ToQuarantine
                   THEN [rows[r] EXCEPT !.state = "quarantined", !.qat = QuarantineStamp(r)] ELSE rows[r]]
    BY <1>q, <1>t DEF QuarantineRows
  <2>3. \A r \in Row : [rows[r] EXCEPT !.state = "quarantined", !.qat = QuarantineStamp(r)] \in RowType
    BY <1>t, <2>1 DEF RowType, State
  <2>4. rows' \in [1..Len(rows) -> RowType]
    BY <1>t, <2>2, <2>3 DEF Row
  <2>5. rows' \in Seq(RowType) /\ Len(rows') = Len(rows)
    BY <1>t, <2>4
  <2> QED
    BY <1>t, <2>2, <2>5 DEF Row, RowType
<1>4. CASE ~RollbackRejected /\ NoFault /\ LedgerRollback(Range(op[a].moves)) /\ Return(a)
  <2>1. /\ op' \in [Admin -> OpType] /\ \A b \in Admin \ {a} : op'[b] = op[b]
        /\ op'[a] = Idle /\ HeldIn(op'[a], Len(rows)) /\ op'[a].pc = "idle"
    BY <1>0, <1>4, ReturnOp, IdleHeld, IdleOp DEF Shape
  <2>4. /\ rows' \in Seq(RowType) /\ Len(rows') = Len(rows) /\ Row' = Row
        /\ \A r \in Row : rows'[r].path = rows[r].path
        /\ \A r \in Row \cap ToQuarantine : rows'[r].state = "quarantined" /\ rows'[r].qat = QuarantineStamp(r)
        /\ \A r \in Row \ ToQuarantine : rows'[r] = rows[r]
    BY <1>4, <1>q DEF LedgerRollback
  <2>5. Ledger'
    <3>1. \A b \in Admin : HeldIn(op'[b], Len(rows))
      BY <1>0, <2>1 DEF Ledger, InLedger
    <3> QED
      BY <1>0, <1>1, <1>4, <1>t, <2>1, <2>4, <3>1, LedgerKept DEF Shape, Ledger, InLedger, Row, NoFault
  <2>6. mishap' = mishap
          \union (IF ToQuarantine \subseteq Range(op[a].moves) THEN {} ELSE {"unmoved"})
          \union (IF \A r \in ToQuarantine : QuarantineStamp(r) = now THEN {} ELSE {"stamp"})
    BY <1>4 DEF LedgerRollback
  <2>7. ASSUME mishap' \subseteq {"unmoved"} PROVE Sound'
    <3>1. Sound /\ \A r \in ToQuarantine : QuarantineStamp(r) = now
      BY <2>6, <2>7 DEF IInv
    <3>2. (\A r \in Row : ~Quarantined(r)) /\ gone = {} /\ sweep = "idle" /\ \A b \in Admin : op'[b].pc = "idle"
      <4>1. op[a].pc # "idle" /\ Solo
        BY <1>0, <3>1 DEF Sound
      <4> QED
        BY <1>0, <2>1, <3>1, <4>1, RollbackState DEF Solo
    <3>3. \A r \in Row : r \in ToQuarantine \/ rows[r].state = "purged"
      BY <1>0, <1>t, <3>2 DEF ToQuarantine, Quarantined, State, Shape
    <3>4. /\ \A r \in Row : rows'[r].state \in {"quarantined", "purged"} /\ ~Live(r)'
          /\ \A r \in Row : Quarantined(r)' => rows'[r].qat = now
      BY <2>4, <3>1, <3>3 DEF Live, Quarantined
    <3>5. \A r \in Row : rows[r].state \in Movable => rows'[r].state = "quarantined"
      BY <2>4, <3>3 DEF Movable
    <3>6. \A q \in Path : disk["final"][q] # 0 => Quarantined(disk["final"][q])'
      BY <1>1, <1>2, <3>1, <3>5 DEF Quarantined
    <3>7. OnePath' /\ HomeHas'
      BY <2>4, <3>4 DEF OnePath, HomeHas, Movable
    <3>8. WriterAlone'
      <4> SUFFICES ASSUME writer.pc # "idle"
                   PROVE  /\ rows'[writer.row].state \in {"pending", "quarantined", "purged"}
                          /\ disk["final"][rows'[writer.row].path] # writer.row
                          /\ ~Stored(rows[writer.row].path)'
                          /\ writer.pc = "post" => disk["home"][rows'[writer.row].path] = writer.row
        BY <1>1, <2>4, <3>4, RollbackState, <1>0, <3>1 DEF WriterAlone
      <4>1. /\ writer.row \in Row /\ rows[writer.row].path \in Path
            /\ disk["final"][rows[writer.row].path] # writer.row
            /\ writer.pc = "post" => disk["home"][rows[writer.row].path] = writer.row
        BY <1>0, <3>1, RollbackState
      <4>2. disk["final"][rows[writer.row].path] = 0
        <5>1. \A m \in Moved(a) : rows[writer.row].path # rows[m].path
          BY <1>0, <1>2, <3>1, Settled
        <5>2. disk["final"][rows[writer.row].path] # 0 =>
                 rows[disk["final"][rows[writer.row].path]].path = rows[writer.row].path
          BY <1>0, <4>1, FileRow DEF Where
        <5> QED
          BY <1>2, <3>1, <4>1, <5>1, <5>2
      <4>3. ~Stored(rows[writer.row].path)'
        BY <1>1, <2>4, <3>2, <4>1, <4>2 DEF Stored, Restoring
      <4> QED
        BY <2>4, <3>4, <4>1, <4>3
    <3>9. RollbackSound' /\ RestoreSound' /\ Solo'
      BY <3>2 DEF RollbackSound, RestoreSound, Rolling, Committed, Restoring, Solo
    <3>10. StagingEmpty'
      BY <1>0, <1>1, <3>1, RollbackState DEF StagingEmpty
    <3>11. FinalSound'
      BY <1>1, <1>2, <3>1, <3>6 DEF FinalSound
    <3>12. OneStamp' /\ Swept' /\ gone' = {}
      BY <1>1, <2>4, <3>2, <3>4 DEF OneStamp, Swept
    <3> QED
      BY <3>7, <3>8, <3>9, <3>10, <3>11, <3>12 DEF Sound
  <2>8. ASSUME mishap' = {} PROVE Exact'
    <3>1. Sound /\ ToQuarantine \subseteq Range(op[a].moves)
      BY <2>6, <2>8 DEF IInv
    <3>2. ToQuarantine \subseteq Moved(a)
      <4>1. op[a].moves \in Seq(Nat)
        BY <1>0 DEF Shape, OpType
      <4>2. DOMAIN op[a].moves = 1..Len(op[a].moves)
        BY <4>1
      <4> QED
        BY <3>1, <4>2 DEF Range, Moved, MovedBy
    <3>3. (\A r \in Row : ~Quarantined(r)) /\ \A b \in Admin : op'[b].pc = "idle"
      BY <1>0, <2>1, <3>1, RollbackState
    <3>4. \A r \in Row : Quarantined(r)' => r \in Moved(a)
      BY <2>4, <3>2, <3>3 DEF Quarantined
    <3>5. \A r \in Row : Quarantined(r)' => disk'["final"][rows'[r].path] = r
      BY <1>1, <1>2, <2>4, <3>1, <3>4
    <3> QED
      BY <2>4, <3>3, <3>5 DEF Exact
  <2> QED
    BY <2>5, <2>7, <2>8 DEF IInv
<1>5. CASE /\ Fault /\ QuarantineRows /\ Goto(a, "uncommit") /\ mishap' = mishap \union {"indoubt"}
  <2>1. /\ op' \in [Admin -> OpType] /\ \A b \in Admin \ {a} : op'[b] = op[b]
        /\ HeldIn(op'[a], Len(rows))
    <3>1. "uncommit" \in Pc \ {"idle", "read", "rread"}
      BY DEF Pc
    <3> QED
      BY <1>0, <1>5, <3>1, GotoHeld
  <2>2. faults' \in 0..MaxFaults
    BY <1>0, <1>5, FaultOnce
  <2>3. Ledger'
    <3>1. \A b \in Admin : HeldIn(op'[b], Len(rows))
      BY <1>0, <2>1 DEF Ledger, InLedger
    <3>2. /\ rows' \in Seq(RowType) /\ Len(rows') = Len(rows) /\ Row' = Row
          /\ \A r \in Row : rows'[r].path = rows[r].path
      BY <1>5, <1>q
    <3> QED
      BY <1>0, <1>1, <1>t, <2>1, <2>2, <3>1, <3>2, LedgerKept DEF Shape, Ledger, InLedger, Row
  <2> QED
    BY <1>5, <2>3 DEF IInv
<1> QED
    BY <1>3, <1>4, <1>5 DEF RollbackLedger
----------------------------------------------------------------------------
(* RollbackService.Restore                                                 *)

(* What a step of a restore that leaves the rows alone owes the invariant. *)
RestoreOwes(a) ==
    /\ gone' = {} /\ op'[a].pc \in {"idle", "rmove", "rreverse", "rledger"}
    /\ \A q \in Path : Stored(q)' => Stored(q)
    /\ \A q \in Path : disk'["staging"][q] = disk["staging"][q]
    /\ \A r \in Row : rows[r].state \in Movable => disk'["home"][rows[r].path] = disk["home"][rows[r].path]
    /\ writer.pc # "idle" =>
          /\ disk'["final"][rows[writer.row].path] \in {0, disk["final"][rows[writer.row].path]}
          /\ disk'["home"][rows[writer.row].path] = disk["home"][rows[writer.row].path]
    /\ \A q \in Path : disk'["final"][q] # 0 =>
          /\ "final" \in dirs'
          /\ \/ rows[disk'["final"][q]].state = "purged" /\ \A r \in Row : ~Quarantined(r)
             \/ rows[disk'["final"][q]].state = "quarantined"
    /\ (\E r \in Row : Quarantined(r)) => "final" \in dirs' \/ op'[a].pc = "rledger"
    /\ Restoring(a)' => AtHome(a)'
    /\ op'[a].pc = "rmove" => Current(a)'
    /\ op'[a].pc = "rledger" => \A r \in Row : Quarantined(r) => r \in Moved(a)'

ExactOwes(a) ==
    /\ \A r \in Row : Quarantined(r) =>
          \/ disk'["final"][rows[r].path] = r
          \/ disk'["home"][rows[r].path] = r /\ Restoring(a)' /\ r \in Moved(a)'
    /\ op'[a].pc = "rreverse" => faults' = 1 \/ op'[a].moves = <<>>
    /\ op'[a].pc = "rmove" =>
          \A r \in 1..Len(op'[a].snap) : op'[a].snap[r] = "quarantined" => Quarantined(r)

LEMMA RestoringKeeps ==
    ASSUME IInv, Ledger', NEW a \in Admin, Restoring(a), UNCHANGED <<rows, writer, sweep, mishap>>,
           \A b \in Admin \ {a} : op'[b] = op[b],
           Sound => RestoreOwes(a), Sound /\ Exact => ExactOwes(a)
    PROVE  IInv'
<1>1. Ledger
    BY DEF IInv
<1>2. Row' = Row /\ \A r \in Row : rows'[r] = rows[r]
    BY DEF Row
<1>3. ASSUME Sound
      PROVE  /\ op[a].pc # "idle" /\ sweep = "idle" /\ Solo'
             /\ \A b \in Admin \ {a} : op[b].pc = "idle" /\ op'[b].pc = "idle"
  <2>1. op[a].pc # "idle"
    BY DEF Restoring
  <2> QED
    BY <1>3, <2>1, OthersIdle DEF Sound
<1>4. ASSUME Sound PROVE Sound'
  <2>0. RestoreOwes(a)
    BY <1>4
  <2>1. op'[a].pc \in {"idle", "rmove", "rreverse", "rledger"} /\ gone' = {}
    BY <2>0 DEF RestoreOwes
  <2>2. \A b \in Admin : ~Rolling(b) /\ ~Rolling(b)' /\ ~Staging(b) /\ ~Staging(b)' /\ ~Committed(b)'
    BY <1>3, <1>4, <2>1 DEF Rolling, Staging, Committed, Restoring
  <2>s. \A r \in Row : rows[r].path \in Path
    BY <1>1, RowTyped
  <2>3. OnePath'
    <3>1. \A q \in Path : Stored(q)' => Stored(q)
      BY <2>0 DEF RestoreOwes
    <3> SUFFICES ASSUME NEW r \in Row, NEW t \in Row, r # t, rows[r].path = rows[t].path, Live(r)
                 PROVE  ~Live(t) /\ (Quarantined(t) => ~Stored(rows[r].path)')
      BY <1>2 DEF OnePath, Live, Quarantined
    <3>2. PICK q \in Path : q = rows[r].path
      BY <2>s
    <3> QED
      BY <1>4, <3>1, <3>2 DEF Sound, OnePath
  <2>4. HomeHas'
    BY <1>2, <1>4, <2>0, <2>2 DEF Sound, HomeHas, RestoreOwes
  <2>5. WriterAlone'
    <3> SUFFICES ASSUME writer.pc # "idle" PROVE WriterAlone'
      BY DEF WriterAlone
    <3>w. PICK w \in Row : w = writer.row
      BY <1>1 DEF Ledger, InLedger, Row
    <3>p. PICK p \in Path : p = rows[w].path
      BY <2>s
    <3>1. w # 0
      BY DEF Row
    <3>2. /\ rows[w].state \in {"pending", "quarantined", "purged"} /\ disk["final"][p] # w
          /\ \A t \in Row : rows[t].path = p => (t # w => ~Live(t)) /\ (Quarantined(t) => ~Stored(p))
          /\ writer.pc = "post" => disk["home"][p] = w
      BY <1>4, <3>w, <3>p DEF Sound, WriterAlone
    <3>3. disk'["final"][p] \in {0, disk["final"][p]} /\ disk'["home"][p] = disk["home"][p] /\ (Stored(p)' => Stored(p))
      BY <2>0, <3>w, <3>p DEF RestoreOwes
    <3>4. writer' = writer /\ rows' = rows
      OBVIOUS
    <3> QED
      BY <1>2, <3>1, <3>2, <3>3, <3>4, <3>w, <3>p DEF WriterAlone, Live, Quarantined
  <2>6. RollbackSound'
    BY <1>3, <1>4, <2>1, <2>2 DEF RollbackSound
  <2>7. StagingEmpty'
    BY <1>4, <2>0, <2>2 DEF Sound, StagingEmpty, RestoreOwes
  <2>8. FinalSound'
    BY <1>2, <2>0 DEF RestoreOwes, FinalSound, Quarantined
  <2>9. RestoreSound'
    <3> SUFFICES ASSUME NEW b \in Admin
                 PROVE  /\ Restoring(b)' => AtHome(b)'
                        /\ op'[b].pc \in {"rread", "rmove"} => Current(b)'
                        /\ op'[b].pc = "rledger" => \A r \in Row' : Quarantined(r)' => r \in Moved(b)'
      BY DEF RestoreSound
    <3>1. CASE b = a
      BY <1>2, <2>0, <2>1, <3>1 DEF RestoreOwes, Quarantined
    <3>2. CASE b # a
      BY <1>3, <1>4, <3>2 DEF Restoring
    <3> QED
      BY <3>1, <3>2
  <2>10. OneStamp' /\ Swept' /\ Solo'
    BY <1>2, <1>3, <1>4 DEF Sound, OneStamp, Swept, Quarantined
  <2> QED
    BY <2>1, <2>3, <2>4, <2>5, <2>6, <2>7, <2>8, <2>9, <2>10 DEF Sound
<1>5. ASSUME Sound, Exact PROVE Exact'
  <2>1. ExactOwes(a) /\ RestoreOwes(a)
    BY <1>5
  <2>2. op'[a].pc # "rread"
    BY <2>1 DEF RestoreOwes
  <2>3. \A b \in Admin \ {a} : op'[b].pc = "idle"
    BY <1>3, <1>5
  <2>4. \A r \in Row' : Quarantined(r)' =>
          \/ disk'["final"][rows'[r].path] = r
          \/ disk'["home"][rows'[r].path] = r /\ \E b \in Admin : Restoring(b)' /\ r \in Moved(b)'
    BY <1>2, <2>1 DEF ExactOwes, Quarantined
  <2>5. \A b \in Admin :
          /\ op'[b].pc = "rreverse" => faults' = 1 \/ op'[b].moves = <<>>
          /\ op'[b].pc \in {"rread", "rmove"} =>
                \A r \in 1..Len(op'[b].snap) : op'[b].snap[r] = "quarantined" => Quarantined(r)'
    BY <2>1, <2>2, <2>3 DEF ExactOwes, Quarantined
  <2> QED
    BY <2>4, <2>5 DEF Exact
<1> QED
    BY <1>4, <1>5 DEF IInv

(* What holds while a restore is under way.                                *)
LEMMA RestoreState ==
    ASSUME Ledger, Sound, NEW a \in Admin, Restoring(a)
    PROVE  /\ AtHome(a) /\ gone = {} /\ Moved(a) \subseteq Row /\ \A b \in Admin \ {a} : op[b].pc = "idle"
           /\ \A r \in Row : rows[r].state \in Movable => disk["home"][rows[r].path] = r
           /\ \A q \in Path : disk["final"][q] # 0 =>
                 /\ "final" \in dirs
                 /\ \/ rows[disk["final"][q]].state = "purged" /\ \A r \in Row : ~Quarantined(r)
                    \/ rows[disk["final"][q]].state = "quarantined"
           /\ (\E r \in Row : Quarantined(r)) => "final" \in dirs \/ op[a].pc = "rledger"
           /\ op[a].pc = "rmove" => Current(a)
           /\ op[a].pc = "rledger" => \A r \in Row : Quarantined(r) => r \in Moved(a)
<1>1. op[a].pc # "idle" /\ op[a].pc \in {"rmove", "rreverse", "rledger"}
    BY DEF Restoring
<1>2. \A b \in Admin \ {a} : op[b].pc = "idle"
    BY <1>1 DEF Sound, Solo
<1>3. \A b \in Admin : ~Rolling(b) /\ ~Committed(b) /\ (op[b].pc = "rledger" => b = a)
    BY <1>1, <1>2 DEF Rolling, Committed
<1>4. AtHome(a) /\ gone = {} /\ Moved(a) \subseteq Row
    BY MovedRows DEF Sound, RestoreSound
<1>5. \A r \in Row : rows[r].state \in Movable => disk["home"][rows[r].path] = r
    BY <1>3 DEF Sound, HomeHas
<1>6. \A q \in Path : disk["final"][q] # 0 =>
                 /\ "final" \in dirs
                 /\ \/ rows[disk["final"][q]].state = "purged" /\ \A r \in Row : ~Quarantined(r)
                    \/ rows[disk["final"][q]].state = "quarantined"
    BY <1>3 DEF Sound, FinalSound, Quarantined
<1>7. (\E r \in Row : Quarantined(r)) => "final" \in dirs \/ op[a].pc = "rledger"
    BY <1>3 DEF Sound, FinalSound
<1> QED
    BY <1>2, <1>4, <1>5, <1>6, <1>7 DEF Sound, RestoreSound

(* A quarantined row whose file a restore can bring back, or has brought   *)
(* back, shares its path with no live row and with no write.               *)
LEMMA Kept ==
    ASSUME Ledger, Sound, NEW r \in Row, Quarantined(r), Stored(rows[r].path)
    PROVE  /\ \A t \in Row : rows[t].path = rows[r].path => ~Live(t)
           /\ writer.pc # "idle" => rows[writer.row].path # rows[r].path
<1>1. \A t \in Row : rows[t].path = rows[r].path => ~Live(t)
    BY DEF Sound, OnePath, Live, Quarantined
<1>2. writer.pc # "idle" => rows[writer.row].path # rows[r].path
    BY DEF Sound, WriterAlone
<1> QED
    BY <1>1, <1>2

LEMMA RestoreMoveKeeps ==
    ASSUME IInv, OneFault, NEW a \in Admin, RestoreMove(a)
    PROVE  IInv'
<1>0. /\ Ledger /\ Shape /\ op[a].pc = "rmove" /\ Restoring(a) /\ op[a] \in OpType /\ Len(rows) \in Nat
      /\ HeldIn(op[a], Len(rows))
    BY DEF IInv, Ledger, InLedger, Shape, RestoreMove, Restoring
<1>i. PICK i \in Nat \ {0} : i = op[a].i
    BY <1>0 DEF OpType
<1>1. i <= Len(op[a].snap) /\ i \in Row /\ i # 0 /\ i \in 1..Len(op[a].snap)
  <2>1. i <= Len(op[a].snap) /\ Len(op[a].snap) \in Nat
    BY <1>0, <1>i DEF RestoreMove, OpType
  <2>2. i \in i..Len(op[a].snap)
    BY <2>1
  <2> QED
    BY <1>0, <1>i, <2>1, <2>2, SnapRows
<1>s. \A r \in Row : rows[r].path \in Path
    BY <1>0, RowTyped
<1>p. PICK p \in Path : p = rows[i].path
    BY <1>1, <1>s
<1>2. UNCHANGED <<backend, now, rows, writer, sweep, crashes, mishap, gone>>
    BY DEF RestoreMove
<1>r. \A r \in Row : r \in Nat
    BY <1>0 DEF Row
<1>3. i \notin Moved(a)
  <2>1. \A k \in 1..Len(op[a].moves) : op[a].moves[k] < i
    BY <1>0, <1>i DEF HeldIn
  <2>2. \A k \in 1..Len(op[a].moves) : op[a].moves[k] # i
    BY <1>i, <2>1
  <2> QED
    BY <2>2 DEF Moved, MovedBy
<1>4. CASE op[a].snap[i] # "quarantined" /\ op' = [op EXCEPT ![a].i = op[a].i + 1] /\ UNCHANGED <<disk, dirs, faults>>
  <2>1. /\ op' \in [Admin -> OpType] /\ \A b \in Admin \ {a} : op'[b] = op[b]
        /\ op'[a].pc = "rmove" /\ op'[a].snap = op[a].snap /\ op'[a].i = i + 1 /\ op'[a].moves = op[a].moves
    BY <1>0, <1>i, <1>4, SkipOp DEF Shape
  <2>2. HeldIn(op'[a], Len(rows))
    BY <1>0, <1>1, <1>i, <2>1 DEF HeldIn, OpType
  <2>3. Ledger'
    BY <1>0, <1>2, <1>4, <2>1, <2>2, FilesKept DEF Shape
  <2>4. Moved(a)' = Moved(a) /\ Restoring(a)'
    BY <2>1 DEF Moved, MovedBy, Restoring
  <2>5. ASSUME Sound PROVE RestoreOwes(a)
    <3>1. \A q \in Path : Stored(q)' => Stored(q)
      <4>1. \A b \in Admin : Moved(b)' = Moved(b) /\ (Restoring(b)' => Restoring(b))
        BY <1>0, <2>1, <2>4 DEF Moved, MovedBy, Restoring
      <4> QED
        BY <1>2, <1>4, <4>1 DEF Stored
    <3>2. AtHome(a)'
      BY <1>0, <1>2, <1>4, <2>4, <2>5, RestoreState DEF AtHome, Quarantined
    <3>3. Current(a)'
      <4>1. Current(a)
        BY <1>0, <2>5, RestoreState
      <4>2. ~Quarantined(i)
        BY <1>1, <1>4, <4>1 DEF Current
      <4>3. \A r \in Row : r < i + 1 => r < i \/ r = i
        BY <1>r
      <4> QED
        BY <1>2, <1>4, <1>i, <2>1, <2>4, <4>1, <4>2, <4>3 DEF Current, Row, Quarantined
    <3>4. gone' = {}
      BY <1>2, <2>5 DEF Sound
    <3> HIDE DEF AtHome, Current
    <3> QED
      BY <1>0, <1>4, <2>1, <2>5, <3>1, <3>2, <3>3, <3>4, RestoreState DEF RestoreOwes
  <2>6. ASSUME Sound, Exact PROVE ExactOwes(a)
    <3>1. \A r \in Row : Quarantined(r) =>
            disk["final"][rows[r].path] = r \/ (disk["home"][rows[r].path] = r /\ r \in Moved(a))
      BY <1>0, <2>6, RestoreState DEF Exact, Restoring
    <3> QED
      BY <1>0, <1>4, <2>1, <2>4, <2>6, <3>1 DEF Exact, ExactOwes
  <2> QED
    BY <1>0, <1>2, <2>1, <2>3, <2>5, <2>6, RestoringKeeps
<1>w. "home" \in Where /\ "staging" \in Where /\ "final" \in Where /\ "final" # "home"
    BY DEF Where
<1>5. CASE /\ op[a].snap[i] = "quarantined" /\ MoveOk("final", "home", p)
           /\ op' = [op EXCEPT ![a].i = op[a].i + 1, ![a].moves = Append(@, op[a].i)]
  <2>1. /\ op' \in [Admin -> OpType] /\ \A b \in Admin \ {a} : op'[b] = op[b]
        /\ op'[a].pc = "rmove" /\ op'[a].snap = op[a].snap /\ op'[a].i = i + 1
        /\ Moved(a)' = Moved(a) \union {i}
    BY <1>0, <1>i, <1>5, AppendOp DEF Shape, Moved
  <2>2. HeldIn(op'[a], Len(rows))
    BY <1>0, <1>1, <1>i, <1>5, AppendHeld DEF Shape
  <2>3. /\ disk["final"][p] # 0
        /\ disk' \in [Where -> [Path -> Nat]] /\ UNCHANGED faults /\ dirs' = dirs
        /\ disk'["final"][p] = 0 /\ disk'["home"][p] = disk["final"][p]
        /\ \A q \in Path \ {p} : disk'["home"][q] = disk["home"][q] /\ disk'["final"][q] = disk["final"][q]
        /\ \A q \in Path : disk'["staging"][q] = disk["staging"][q]
    <3>1. disk' = Renamed("final", "home", p) /\ dirs' = dirs /\ UNCHANGED faults /\ disk["final"][p] # 0
      BY <1>5 DEF MoveOk, MadeDir, NoFault
    <3>2. /\ disk' \in [Where -> [Path -> Nat]] /\ disk'["final"][p] = 0 /\ disk'["home"][p] = disk["final"][p]
          /\ \A l \in Where : \A q \in Path : q # p \/ l \notin {"final", "home"} => disk'[l][q] = disk[l][q]
      <4>1. disk \in [Where -> [Path -> Nat]]
        BY <1>0 DEF Shape
      <4> QED
        BY <1>w, <3>1, <4>1, RenamedDisk
    <3> QED
      BY <1>w, <3>1, <3>2
  <2>4. Ledger'
    <3>1. \A l \in Where : \A q \in Path : disk'[l][q] # 0 => \E k \in Where : disk'[l][q] = disk[k][q]
      BY <2>3 DEF Where
    <3>2. dirs' \subseteq {"staging", "final"} /\ faults' \in 0..MaxFaults
      BY <1>0, <2>3 DEF Shape
    <3> QED
      BY <1>0, <1>2, <2>1, <2>2, <2>3, <3>1, <3>2, FilesKept
  <2>5. ASSUME Sound
        PROVE  /\ Quarantined(i) /\ rows[disk["final"][p]].state = "quarantined"
               /\ \A m \in Moved(a) : m \in Row /\ rows[m].path \in Path /\ rows[m].path # p
               /\ \A r \in Row : rows[r].path = p => rows[r].state \notin Movable
               /\ writer.pc # "idle" => rows[writer.row].path \in Path /\ rows[writer.row].path # p
    <3>1. Quarantined(i)
      BY <1>0, <1>1, <1>5, <1>p, <2>3, <2>5, RestoreState DEF Current
    <3>2. rows[disk["final"][p]].state = "quarantined"
      BY <1>0, <1>1, <2>3, <2>5, <3>1, RestoreState
    <3>3. \A m \in Moved(a) : m \in Row /\ rows[m].path \in Path /\ rows[m].path # p
      BY <1>0, <1>s, <2>3, <2>5, RestoreState DEF AtHome
    <3>4. Stored(rows[i].path)
      BY <1>p, <2>3 DEF Stored
    <3>5. /\ \A t \in Row : rows[t].path = p => ~Live(t)
          /\ writer.pc # "idle" => rows[writer.row].path # p
      BY <1>0, <1>1, <1>p, <2>5, <3>1, <3>4, Kept
    <3>6. writer.pc # "idle" => rows[writer.row].path \in Path
      BY <1>0, <1>s DEF Ledger, InLedger, Row
    <3> QED
      BY <3>1, <3>2, <3>3, <3>5, <3>6 DEF Live, Movable
  <2>6. ASSUME Sound PROVE RestoreOwes(a)
    <3>1. \A q \in Path : Stored(q)' => Stored(q)
      <4> SUFFICES ASSUME NEW q \in Path, Stored(q)' PROVE Stored(q)
        OBVIOUS
      <4>1. CASE disk'["final"][q] # 0
        BY <2>3, <4>1 DEF Stored
      <4>2. CASE \E b \in Admin : Restoring(b)' /\ \E m \in Moved(b)' : rows'[m].path = q
        <5>1. PICK b \in Admin : Restoring(b)' /\ \E m \in Moved(b)' : rows'[m].path = q
          BY <4>2
        <5>2. CASE b = a
          BY <1>0, <1>2, <1>p, <2>1, <2>3, <5>1, <5>2 DEF Stored
        <5>3. CASE b # a
          BY <1>2, <2>1, <5>1, <5>3 DEF Stored, Restoring, Moved
        <5> QED
          BY <5>2, <5>3
      <4> QED
        BY <4>1, <4>2 DEF Stored
    <3>2. AtHome(a)'
      <4> SUFFICES ASSUME NEW m \in Moved(a) \union {i}
                   PROVE  /\ Quarantined(m) /\ disk'["final"][rows[m].path] = 0
                          /\ disk'["home"][rows[m].path] # 0 
                          /\ rows[disk'["home"][rows[m].path]].state = "quarantined"
                          /\ \A n \in Moved(a) \union {i} : rows[n].path = rows[m].path => n = m
        BY <1>2, <2>1 DEF AtHome, Quarantined
      <4>1. AtHome(a)
        BY <1>0, <2>6, RestoreState
      <4>2. CASE m = i
        BY <1>p, <2>3, <2>5, <2>6, <4>2
      <4>3. CASE m \in Moved(a)
        BY <1>p, <2>3, <2>5, <2>6, <4>1, <4>3 DEF AtHome, Quarantined
      <4> QED
        BY <4>2, <4>3
    <3>3. Current(a)'
      <4>1. Current(a)
        BY <1>0, <2>6, RestoreState
      <4>2. \A r \in Row : r < i + 1 => r < i \/ r = i
        BY <1>r
      <4>3. \A r \in Row : disk["final"][rows[r].path] = 0 => disk'["final"][rows[r].path] = 0
        BY <1>s, <2>3
      <4> SUFFICES ASSUME NEW r \in Row
                   PROVE  /\ Quarantined(r) => r <= Len(op[a].snap) /\ op[a].snap[r] = "quarantined"
                          /\ Quarantined(r) /\ r < i + 1 => r \in Moved(a) \union {i}
                          /\ r <= Len(op[a].snap) /\ op[a].snap[r] = "quarantined" =>
                              Quarantined(r) \/ (rows[r].state = "active" /\ disk'["final"][rows[r].path] = 0)
        BY <1>2, <2>1 DEF Current, Row, Quarantined
      <4> QED
        BY <1>i, <4>1, <4>2, <4>3 DEF Current
    <3>4. gone' = {} /\ op'[a].pc = "rmove"
      BY <1>2, <2>1, <2>6 DEF Sound
    <3>5. /\ \A r \in Row : rows[r].state \in Movable => disk'["home"][rows[r].path] = disk["home"][rows[r].path]
          /\ writer.pc # "idle" =>
               /\ disk'["final"][rows[writer.row].path] \in {0, disk["final"][rows[writer.row].path]}
               /\ disk'["home"][rows[writer.row].path] = disk["home"][rows[writer.row].path]
      BY <1>s, <2>3, <2>5, <2>6
    <3>6. /\ \A q \in Path : disk'["final"][q] # 0 =>
               /\ "final" \in dirs'
               /\ \/ rows[disk'["final"][q]].state = "purged" /\ \A r \in Row : ~Quarantined(r)
                  \/ rows[disk'["final"][q]].state = "quarantined"
          /\ (\E r \in Row : Quarantined(r)) => "final" \in dirs'
      BY <1>0, <2>3, <2>6, RestoreState
    <3> HIDE DEF AtHome, Current
    <3> QED
      BY <2>3, <3>1, <3>2, <3>3, <3>4, <3>5, <3>6 DEF RestoreOwes
  <2>7. ASSUME Sound, Exact PROVE ExactOwes(a)
    <3>1. \A r \in Row : Quarantined(r) =>
            disk["final"][rows[r].path] = r \/ (disk["home"][rows[r].path] = r /\ r \in Moved(a))
      BY <1>0, <2>7, RestoreState DEF Exact, Restoring
    <3>2. disk["final"][p] = i
      BY <1>1, <1>3, <1>p, <2>5, <2>7, <3>1
    <3>3. \A r \in Row : Quarantined(r) =>
            disk'["final"][rows[r].path] = r \/ (disk'["home"][rows[r].path] = r /\ r \in Moved(a)')
      BY <1>s, <2>1, <2>3, <2>5, <2>7, <3>1, <3>2
    <3>4. Restoring(a)'
      BY <2>1 DEF Restoring
    <3> QED
      BY <1>0, <2>1, <2>7, <3>3, <3>4 DEF Exact, ExactOwes
  <2> QED
    BY <1>0, <1>2, <2>1, <2>4, <2>6, <2>7, RestoringKeeps
<1>6. CASE op[a].snap[i] = "quarantined" /\ MoveFails("final", "home", p) /\ Goto(a, "rreverse")
  <2>1. /\ op' \in [Admin -> OpType] /\ \A b \in Admin \ {a} : op'[b] = op[b]
        /\ op'[a].pc = "rreverse" /\ Moved(a)' = Moved(a) /\ HeldIn(op'[a], Len(rows))
    <3>1. "rreverse" \in Pc \ {"idle", "read", "rread"}
      BY DEF Pc
    <3> QED
      BY <1>0, <1>6, <3>1, GotoHeld
  <2>2. UNCHANGED <<disk, dirs>> /\ (disk["final"][p] # 0 => Fault) /\ (Fault \/ NoFault)
    BY <1>6 DEF MoveFails, MadeDir
  <2>3. faults' \in 0..MaxFaults /\ (Fault => faults' = 1)
    BY <1>0, <2>2, FaultOnce
  <2>4. Ledger'
    BY <1>0, <1>2, <2>1, <2>2, <2>3, FilesKept DEF Shape
  <2>5. Restoring(a)'
    BY <2>1 DEF Restoring
  <2>6. ASSUME Sound PROVE RestoreOwes(a)
    <3>1. \A q \in Path : Stored(q)' => Stored(q)
      <4>1. \A b \in Admin \ {a} : Moved(b)' = Moved(b) /\ (Restoring(b)' => Restoring(b))
        BY <2>1 DEF Moved, Restoring
      <4> QED
        BY <1>0, <1>2, <2>1, <2>2, <4>1 DEF Stored
    <3>2. AtHome(a)'
      BY <1>0, <1>2, <2>1, <2>2, <2>6, RestoreState DEF AtHome, Quarantined
    <3>3. gone' = {}
      BY <1>2, <2>6 DEF Sound
    <3> HIDE DEF AtHome
    <3> QED
      BY <1>0, <2>1, <2>2, <2>6, <3>1, <3>2, <3>3, RestoreState DEF RestoreOwes
  <2>7. ASSUME Sound, Exact PROVE ExactOwes(a)
    <3>1. \A r \in Row : Quarantined(r) =>
            disk["final"][rows[r].path] = r \/ (disk["home"][rows[r].path] = r /\ r \in Moved(a))
      BY <1>0, <2>7, RestoreState DEF Exact, Restoring
    <3>2. Quarantined(i)
      BY <1>0, <1>1, <1>6, <2>7 DEF Exact
    <3>3. faults' = 1
      BY <1>1, <1>3, <1>p, <2>2, <2>3, <3>1, <3>2
    <3> QED
      BY <2>1, <2>2, <2>5, <3>1, <3>3 DEF ExactOwes
  <2> QED
    BY <1>0, <1>2, <2>1, <2>4, <2>6, <2>7, RestoringKeeps
<1>7. \/ op[a].snap[i] # "quarantined" /\ op' = [op EXCEPT ![a].i = op[a].i + 1] /\ UNCHANGED <<disk, dirs, faults>>
      \/ /\ op[a].snap[i] = "quarantined" /\ MoveOk("final", "home", p)
         /\ op' = [op EXCEPT ![a].i = op[a].i + 1, ![a].moves = Append(@, op[a].i)]
      \/ op[a].snap[i] = "quarantined" /\ MoveFails("final", "home", p) /\ Goto(a, "rreverse")
    BY <1>i, <1>p DEF RestoreMove
<1> QED
    BY <1>4, <1>5, <1>6, <1>7

LEMMA RestoreReverseKeeps ==
    ASSUME IInv, OneFault, NEW a \in Admin, RestoreReverse(a)
    PROVE  IInv'
<1>0. /\ Ledger /\ Shape /\ op[a].pc = "rreverse" /\ Restoring(a) /\ HeldIn(op[a], Len(rows)) /\ Len(rows) \in Nat
    BY DEF IInv, Ledger, InLedger, Shape, RestoreReverse, Restoring
<1>1. UNCHANGED <<backend, now, rows, writer, sweep, crashes, mishap, gone>>
    BY DEF RestoreReverse
<1>s. \A r \in Row : rows[r].path \in Path
    BY <1>0, RowTyped
<1>e. ASSUME Sound, Exact
      PROVE  \A r \in Row : Quarantined(r) =>
                disk["final"][rows[r].path] = r \/ (disk["home"][rows[r].path] = r /\ r \in Moved(a))
    BY <1>0, <1>e, RestoreState DEF Exact, Restoring
<1>2. CASE op[a].moves = <<>>
  <2>1. Return(a) /\ UNCHANGED <<disk, dirs, faults>>
    BY <1>2 DEF RestoreReverse
  <2>2. /\ op' \in [Admin -> OpType] /\ \A b \in Admin \ {a} : op'[b] = op[b]
        /\ op'[a] = Idle /\ HeldIn(op'[a], Len(rows)) /\ op'[a].pc = "idle"
    BY <1>0, <2>1, ReturnOp, IdleHeld, IdleOp DEF Shape
  <2>3. Ledger'
    BY <1>0, <1>1, <2>1, <2>2, FilesKept DEF Shape
  <2>4. ~Restoring(a)' /\ Moved(a) = {}
    BY <1>2, <2>2 DEF Restoring, Moved, MovedBy
  <2>5. ASSUME Sound PROVE RestoreOwes(a)
    <3>1. \A q \in Path : Stored(q)' => Stored(q)
      <4>1. \A b \in Admin \ {a} : Moved(b)' = Moved(b) /\ (Restoring(b)' => Restoring(b))
        BY <2>2 DEF Moved, Restoring
      <4> QED
        BY <1>1, <2>1, <2>4, <4>1 DEF Stored
    <3>2. gone' = {}
      BY <1>1, <2>5 DEF Sound
    <3> QED
      BY <1>0, <2>1, <2>2, <2>4, <2>5, <3>1, <3>2, RestoreState DEF RestoreOwes
  <2>6. ASSUME Sound, Exact PROVE ExactOwes(a)
    BY <1>e, <2>1, <2>2, <2>4, <2>6 DEF ExactOwes
  <2> QED
    BY <1>0, <1>1, <2>2, <2>3, <2>5, <2>6, RestoringKeeps
<1>3. CASE op[a].moves # <<>>
  <2>1. /\ op' \in [Admin -> OpType] /\ \A b \in Admin \ {a} : op'[b] = op[b]
        /\ op'[a].pc = "rreverse" /\ HeldIn(op'[a], Len(rows))
        /\ Last(op[a].moves) \in Moved(a) /\ Moved(a)' = Moved(a) \ {Last(op[a].moves)}
    <3>1. op' = [op EXCEPT ![a].moves = Front(@)] /\ op \in [Admin -> OpType]
      BY <1>0, <1>3 DEF RestoreReverse, Shape
    <3> QED
      BY <1>0, <1>3, <3>1, FrontOp DEF Moved
  <2>r. PICK r \in Row : r = Last(op[a].moves)
    BY <1>0, <2>1, MovedRows
  <2>p. PICK p \in Path : p = rows[r].path
    BY <1>s
  <2>2. MoveOk("home", "final", p) \/ MoveFails("home", "final", p)
    BY <1>3, <2>r, <2>p DEF RestoreReverse
  <2>w. "home" \in Where /\ "staging" \in Where /\ "final" \in Where /\ "home" # "final"
    BY DEF Where
  <2>3. /\ dirs' = dirs \union {"final"} /\ (Fault \/ NoFault)
        /\ (UNCHANGED disk /\ (disk["home"][p] # 0 => Fault)) \/ (disk' = Renamed("home", "final", p) /\ NoFault)
    BY <2>2 DEF MoveOk, MoveFails, MadeDir
  <2>4. disk' = Renamed("home", "final", p) =>
        /\ disk' \in [Where -> [Path -> Nat]]
        /\ disk'["home"][p] = 0 /\ disk'["final"][p] = disk["home"][p]
        /\ \A l \in Where : \A q \in Path : q # p \/ l \notin {"home", "final"} => disk'[l][q] = disk[l][q]
    <3>1. disk \in [Where -> [Path -> Nat]]
      BY <1>0 DEF Shape
    <3> QED
      BY <2>w, <3>1, RenamedDisk
  <2>5. faults' \in 0..MaxFaults /\ (faults = 1 => faults' = 1) /\ (Fault => faults = 0)
    BY <1>0, <2>3, FaultOnce
  <2>6. Ledger'
    <3>1. /\ disk' \in [Where -> [Path -> Nat]]
          /\ \A l \in Where : \A q \in Path : disk'[l][q] # 0 => \E k \in Where : disk'[l][q] = disk[k][q]
      <4>1. CASE UNCHANGED disk
        BY <1>0, <4>1 DEF Shape
      <4>2. CASE disk' = Renamed("home", "final", p)
        BY <2>4, <2>w, <4>2
      <4> QED
        BY <2>3, <4>1, <4>2
    <3>2. dirs' \subseteq {"staging", "final"}
      BY <1>0, <2>3 DEF Shape
    <3> QED
      BY <1>0, <1>1, <2>1, <2>5, <3>1, <3>2, FilesKept
  <2>7. Restoring(a)' /\ r \in Moved(a)
    BY <2>1, <2>r DEF Restoring
  <2>8. /\ \A q \in Path \ {p} : disk'["home"][q] = disk["home"][q] /\ disk'["final"][q] = disk["final"][q]
        /\ \A q \in Path : disk'["staging"][q] = disk["staging"][q]
        /\ \/ disk'["home"][p] = disk["home"][p] /\ disk'["final"][p] = disk["final"][p] /\ (disk["home"][p] # 0 => Fault)
           \/ disk'["home"][p] = 0 /\ disk'["final"][p] = disk["home"][p]
    <3>1. CASE UNCHANGED disk /\ (disk["home"][p] # 0 => Fault)
      BY <3>1
    <3>2. CASE disk' = Renamed("home", "final", p)
      BY <2>4, <2>w, <3>2
    <3> QED
      BY <2>3, <3>1, <3>2
  <2>9. ASSUME Sound
        PROVE  /\ AtHome(a) /\ Quarantined(r) /\ disk["final"][p] = 0 /\ disk["home"][p] # 0
               /\ rows[disk["home"][p]].state = "quarantined" /\ Stored(p)
               /\ \A m \in Moved(a) \ {r} : m \in Row /\ rows[m].path \in Path /\ rows[m].path # p
               /\ \A t \in Row : rows[t].path = p => rows[t].state \notin Movable
               /\ writer.pc # "idle" => rows[writer.row].path \in Path /\ rows[writer.row].path # p
    <3>1. AtHome(a) /\ Moved(a) \subseteq Row
      BY <1>0, <2>9, RestoreState
    <3>2. /\ Quarantined(r) /\ disk["final"][p] = 0 /\ disk["home"][p] # 0
          /\ rows[disk["home"][p]].state = "quarantined" /\ \A n \in Moved(a) : rows[n].path = p => n = r
      BY <2>7, <2>p, <3>1 DEF AtHome, Quarantined
    <3>3. Stored(p)
      BY <1>0, <2>7, <2>p DEF Stored
    <3>4. /\ \A t \in Row : rows[t].path = p => ~Live(t)
          /\ writer.pc # "idle" => rows[writer.row].path # p
      BY <1>0, <2>9, <2>p, <3>2, <3>3, Kept
    <3>5. writer.pc # "idle" => rows[writer.row].path \in Path
      BY <1>0, <1>s DEF Ledger, InLedger, Row
    <3>6. \A m \in Moved(a) \ {r} : m \in Row /\ rows[m].path \in Path /\ rows[m].path # p
      BY <1>s, <3>1, <3>2
    <3> QED
      BY <3>1, <3>2, <3>3, <3>4, <3>5, <3>6 DEF Live, Movable
  <2>10. ASSUME Sound PROVE RestoreOwes(a)
    <3>1. \A q \in Path : Stored(q)' => Stored(q)
      <4> SUFFICES ASSUME NEW q \in Path \ {p}, Stored(q)' PROVE Stored(q)
        BY <2>9, <2>10
      <4>1. CASE disk'["final"][q] # 0
        BY <2>8, <4>1 DEF Stored
      <4>2. CASE \E b \in Admin : Restoring(b)' /\ \E m \in Moved(b)' : rows'[m].path = q
        <5>1. PICK b \in Admin : Restoring(b)' /\ \E m \in Moved(b)' : rows'[m].path = q
          BY <4>2
        <5>2. CASE b = a
          BY <1>0, <1>1, <2>1, <5>1, <5>2 DEF Stored
        <5>3. CASE b # a
          BY <1>1, <2>1, <5>1, <5>3 DEF Stored, Restoring, Moved
        <5> QED
          BY <5>2, <5>3
      <4> QED
        BY <4>1, <4>2 DEF Stored
    <3>2. AtHome(a)'
      <4> SUFFICES ASSUME NEW m \in Moved(a) \ {r}
                   PROVE  /\ Quarantined(m) /\ disk'["final"][rows[m].path] = 0
                          /\ disk'["home"][rows[m].path] # 0
                          /\ rows[disk'["home"][rows[m].path]].state = "quarantined"
                          /\ \A n \in Moved(a) : rows[n].path = rows[m].path => n = m
        BY <1>1, <2>1, <2>r DEF AtHome, Quarantined
      <4> QED
        BY <2>8, <2>9, <2>10 DEF AtHome, Quarantined
    <3>3. gone' = {} /\ op'[a].pc = "rreverse" /\ "final" \in dirs'
      BY <1>1, <2>1, <2>3, <2>10 DEF Sound
    <3>4. /\ \A t \in Row : rows[t].state \in Movable => disk'["home"][rows[t].path] = disk["home"][rows[t].path]
          /\ writer.pc # "idle" =>
               /\ disk'["final"][rows[writer.row].path] \in {0, disk["final"][rows[writer.row].path]}
               /\ disk'["home"][rows[writer.row].path] = disk["home"][rows[writer.row].path]
      BY <1>s, <2>8, <2>9, <2>10
    <3>5. \A q \in Path : disk'["final"][q] # 0 =>
            \/ rows[disk'["final"][q]].state = "purged" /\ \A t \in Row : ~Quarantined(t)
            \/ rows[disk'["final"][q]].state = "quarantined"
      <4>1. \A q \in Path : disk["final"][q] # 0 =>
              \/ rows[disk["final"][q]].state = "purged" /\ \A t \in Row : ~Quarantined(t)
              \/ rows[disk["final"][q]].state = "quarantined"
        BY <1>0, <2>10, RestoreState
      <4> QED
        BY <2>8, <2>9, <2>10, <4>1
    <3> HIDE DEF AtHome
    <3> QED
      BY <2>8, <3>1, <3>2, <3>3, <3>4, <3>5 DEF RestoreOwes
  <2>11. ASSUME Sound, Exact PROVE ExactOwes(a)
    <3>1. faults = 1 /\ faults' = 1
      BY <1>0, <1>3, <2>5, <2>11 DEF Exact
    <3>2. disk'["home"][p] = 0 /\ disk'["final"][p] = disk["home"][p]
      BY <2>5, <2>8, <2>9, <2>11, <3>1
    <3>3. \A t \in Row : Quarantined(t) /\ rows[t].path = p => disk["home"][p] = t
      <4> SUFFICES ASSUME NEW t \in Row, Quarantined(t), rows[t].path = p PROVE disk["home"][p] = t
        OBVIOUS
      <4>1. t # 0
        BY DEF Row
      <4> QED
        BY <1>e, <2>9, <2>11, <4>1
    <3>4. \A t \in Row : Quarantined(t) =>
            disk'["final"][rows[t].path] = t \/ (disk'["home"][rows[t].path] = t /\ t \in Moved(a)')
      <4> SUFFICES ASSUME NEW t \in Row, Quarantined(t)
                   PROVE  disk'["final"][rows[t].path] = t \/ (disk'["home"][rows[t].path] = t /\ t \in Moved(a)')
        OBVIOUS
      <4>1. CASE rows[t].path = p
        BY <3>2, <3>3, <4>1
      <4>2. CASE rows[t].path # p
        <5>1. t # r
          BY <2>p, <4>2
        <5> QED
          BY <1>e, <1>s, <2>1, <2>r, <2>8, <2>11, <4>2, <5>1
      <4> QED
        BY <4>1, <4>2
    <3> QED
      BY <2>1, <2>7, <3>1, <3>4 DEF ExactOwes
  <2> QED
    BY <1>0, <1>1, <2>1, <2>6, <2>10, <2>11, RestoringKeeps
<1> QED
    BY <1>2, <1>3

(* The quarantine is removed once a restore has emptied it.                *)
LEMMA RestoreCleanKeeps ==
    ASSUME IInv, OneFault, NEW a \in Admin, RestoreClean(a)
    PROVE  IInv'
<1>0. /\ Ledger /\ Shape /\ op[a].pc = "rmove" /\ Restoring(a) /\ HeldIn(op[a], Len(rows)) /\ op[a] \in OpType
      /\ op[a].i > Len(op[a].snap)
    BY DEF IInv, Ledger, InLedger, Shape, RestoreClean, Restoring
<1>1. UNCHANGED <<backend, now, rows, writer, sweep, crashes, mishap>> /\ Goto(a, "rledger")
    BY DEF RestoreClean
<1>s. DOMAIN rows = Row /\ \A r \in Row : rows[r].path \in Path
    BY <1>0, RowTyped
<1>2. /\ op' \in [Admin -> OpType] /\ \A b \in Admin \ {a} : op'[b] = op[b]
      /\ op'[a].pc = "rledger" /\ Moved(a)' = Moved(a) /\ HeldIn(op'[a], Len(rows))
  <2>1. "rledger" \in Pc \ {"idle", "read", "rread"}
    BY DEF Pc
  <2> QED
    BY <1>0, <1>1, <2>1, GotoHeld
<1>3. /\ Fault \/ NoFault
      /\ \/ /\ disk' = [disk EXCEPT !["final"] = Missing] /\ dirs' = dirs \ {"final"}
            /\ gone' = gone \union Deleted("final")
         \/ UNCHANGED <<disk, dirs, gone>>
    BY DEF RestoreClean, RemoveAll
<1>4. /\ disk' \in [Where -> [Path -> Nat]]
      /\ \A q \in Path : disk'["staging"][q] = disk["staging"][q] /\ disk'["home"][q] = disk["home"][q]
      /\ \/ \A q \in Path : disk'["final"][q] = 0
         \/ UNCHANGED <<disk, dirs>>
  <2>1. "final" \in Where /\ "staging" \in Where \ {"final"} /\ "home" \in Where \ {"final"}
    BY DEF Where
  <2>2. CASE disk' = [disk EXCEPT !["final"] = Missing]
    BY <1>0, <2>1, <2>2, RemovedDir DEF Shape
  <2> QED
    BY <1>0, <1>3, <2>2 DEF Shape
<1>5. faults' \in 0..MaxFaults /\ dirs' \subseteq {"staging", "final"}
    BY <1>0, <1>3, FaultOnce DEF Shape
<1>6. Ledger'
  <2>1. \A l \in Where : \A q \in Path : disk'[l][q] # 0 => \E k \in Where : disk'[l][q] = disk[k][q]
    BY <1>4 DEF Where
  <2> QED
    BY <1>0, <1>1, <1>2, <1>4, <1>5, <2>1, FilesKept
<1>7. Restoring(a)'
    BY <1>2 DEF Restoring
<1>8. ASSUME Sound PROVE \A r \in Row : Quarantined(r) => r \in Moved(a) /\ disk["final"][rows[r].path] = 0
  <2>1. Current(a) /\ AtHome(a)
    BY <1>0, <1>8, RestoreState
  <2>2. \A r \in Row : r <= Len(op[a].snap) => r < op[a].i
    BY <1>0 DEF OpType, Row
  <2> QED
    BY <2>1, <2>2 DEF Current, AtHome
<1>9. ASSUME Sound PROVE RestoreOwes(a)
  <2>1. \A q \in Path : disk["final"][q] # 0 =>
           disk["final"][q] \in Row /\ rows[disk["final"][q]].path = q /\ rows[disk["final"][q]].state = "purged"
    <3> SUFFICES ASSUME NEW q \in Path, disk["final"][q] # 0
                 PROVE disk["final"][q] \in Row /\ rows[disk["final"][q]].path = q /\ rows[disk["final"][q]].state = "purged"
      OBVIOUS
    <3>1. disk["final"][q] \in Row /\ rows[disk["final"][q]].path = q
      BY <1>0, FileRow DEF Where
    <3>2. rows[disk["final"][q]].state \in {"purged", "quarantined"}
      BY <1>0, <1>9, RestoreState
    <3> QED
      BY <1>8, <1>9, <3>1, <3>2 DEF Quarantined
  <2>2. Deleted("final") = {}
    BY <2>1 DEF Deleted, Files
  <2>3. gone' = {}
    BY <1>3, <1>9, <2>2 DEF Sound
  <2>4. \A q \in Path : Stored(q)' => Stored(q)
    <3>1. \A b \in Admin : Moved(b)' = Moved(b) /\ (Restoring(b)' => Restoring(b))
      BY <1>0, <1>2 DEF Moved, Restoring
    <3> QED
      BY <1>1, <1>4, <3>1 DEF Stored
  <2>5. AtHome(a)'
    <3>1. AtHome(a) /\ Moved(a) \subseteq Row
      BY <1>0, <1>9, RestoreState
    <3> SUFFICES ASSUME NEW m \in Moved(a)
                 PROVE  /\ Quarantined(m) /\ disk'["final"][rows[m].path] = 0
                        /\ disk'["home"][rows[m].path] # 0
                        /\ rows[disk'["home"][rows[m].path]].state = "quarantined"
                        /\ \A n \in Moved(a) : rows[n].path = rows[m].path => n = m
      BY <1>1, <1>2 DEF AtHome, Quarantined
    <3>2. rows[m].path \in Path
      BY <1>s, <3>1
    <3> QED
      BY <1>4, <3>1, <3>2 DEF AtHome, Quarantined
  <2>6. /\ \A r \in Row : rows[r].state \in Movable => disk'["home"][rows[r].path] = disk["home"][rows[r].path]
        /\ writer.pc # "idle" =>
               /\ disk'["final"][rows[writer.row].path] \in {0, disk["final"][rows[writer.row].path]}
               /\ disk'["home"][rows[writer.row].path] = disk["home"][rows[writer.row].path]
    <3>1. writer.pc # "idle" => rows[writer.row].path \in Path
      BY <1>0, <1>s DEF Ledger, InLedger, Row
    <3> QED
      BY <1>4, <1>s, <3>1
  <2>7. \A q \in Path : disk'["final"][q] # 0 =>
          /\ "final" \in dirs'
          /\ \/ rows[disk'["final"][q]].state = "purged" /\ \A r \in Row : ~Quarantined(r)
             \/ rows[disk'["final"][q]].state = "quarantined"
    BY <1>0, <1>4, <1>9, RestoreState
  <2> HIDE DEF AtHome
  <2> QED
    BY <1>2, <1>4, <1>8, <1>9, <2>3, <2>4, <2>5, <2>6, <2>7 DEF RestoreOwes
<1>10. ASSUME Sound, Exact PROVE ExactOwes(a)
  <2>1. \A r \in Row : r # 0
    BY DEF Row
  <2>2. \A r \in Row : Quarantined(r) => disk'["home"][rows[r].path] = r /\ r \in Moved(a)'
    BY <1>2, <1>4, <1>8, <1>10, <1>s, <2>1 DEF Exact
  <2> QED
    BY <1>2, <1>7, <2>2 DEF ExactOwes
<1> QED
    BY <1>0, <1>1, <1>2, <1>6, <1>9, <1>10, RestoringKeeps

(* A restore the ledger has nothing for, and one it follows.               *)
LEMMA RestoreLedgerKeeps ==
    ASSUME IInv, OneFault, NEW a \in Admin, RestoreLedger(a)
    PROVE  IInv'
<1>0. Ledger /\ Shape /\ op[a].pc = "rledger" /\ Restoring(a) /\ Len(rows) \in Nat
    BY DEF IInv, Ledger, Shape, RestoreLedger, Restoring
<1>1. UNCHANGED <<backend, now, disk, dirs, writer, sweep, crashes, gone>> /\ Return(a) /\ (Fault \/ NoFault)
    BY DEF RestoreLedger
<1>t. DOMAIN rows = Row /\ \A r \in Row : rows[r] \in RowType /\ rows[r].path \in Path /\ rows[r].state \in State
    BY <1>0, RowTyped
<1>2. /\ op' \in [Admin -> OpType] /\ \A b \in Admin \ {a} : op'[b] = op[b]
      /\ op'[a] = Idle /\ HeldIn(op'[a], Len(rows)) /\ op'[a].pc = "idle" /\ ~Restoring(a)'
    BY <1>0, <1>1, ReturnOp, IdleHeld, IdleOp DEF Shape, Restoring
<1>f. faults' \in 0..MaxFaults
    BY <1>0, <1>1, FaultOnce
<1>3. CASE UNCHANGED rows
  <2>1. Ledger'
    BY <1>0, <1>1, <1>2, <1>3, <1>f, FilesKept DEF Shape
  <2>2. CASE "stuck" \in mishap'
    BY <2>1, <2>2 DEF IInv
  <2>3. CASE RestoreRejected /\ UNCHANGED mishap
    <3>1. \A r \in Row : ~Quarantined(r)
      BY <1>t, <2>3 DEF RestoreRejected, Quarantined
    <3>2. ASSUME Sound PROVE RestoreOwes(a)
      <4>1. \A q \in Path : Stored(q)' => Stored(q)
        <5>1. \A b \in Admin \ {a} : Moved(b)' = Moved(b) /\ (Restoring(b)' => Restoring(b))
          BY <1>2 DEF Moved, Restoring
        <5> QED
          BY <1>1, <1>2, <1>3, <5>1 DEF Stored
      <4>2. gone' = {}
        BY <1>1, <3>2 DEF Sound
      <4> QED
        BY <1>0, <1>1, <1>2, <3>1, <3>2, <4>1, <4>2, RestoreState DEF RestoreOwes
    <3>3. ASSUME Sound, Exact PROVE ExactOwes(a)
      BY <1>2, <3>1 DEF ExactOwes
    <3> QED
      BY <1>0, <1>1, <1>2, <1>3, <2>1, <2>3, <3>2, <3>3, RestoringKeeps
  <2>4. CASE ~RestoreRejected /\ LedgerRestore /\ UNCHANGED mishap
    <3>1. PICK r \in Row : Quarantined(r)
      BY <1>t, <2>4 DEF RestoreRejected, Quarantined
    <3>2. rows'[r] = [rows[r] EXCEPT !.state = "restored"] /\ rows[r] \in RowType
      BY <1>t, <2>4, <3>1 DEF LedgerRestore, Quarantined
    <3>3. rows'[r].state = "restored"
      BY <3>2 DEF RowType
    <3> QED
      BY <1>3, <3>1, <3>3 DEF Quarantined
  <2> QED
    BY <2>2, <2>3, <2>4 DEF RestoreLedger
<1>4. CASE LedgerRestore /\ UNCHANGED mishap
  <2>1. rows' = [r \in Row |-> IF rows[r].state = "quarantined" THEN [rows[r] EXCEPT !.state = "restored"] ELSE rows[r]]
    BY <1>4, <1>t DEF LedgerRestore
  <2>2. /\ rows' \in Seq(RowType) /\ Len(rows') = Len(rows) /\ Row' = Row
        /\ \A r \in Row : rows'[r].path = rows[r].path
        /\ \A r \in Row : rows'[r].state = IF rows[r].state = "quarantined" THEN "restored" ELSE rows[r].state
    <3>1. \A r \in Row : [rows[r] EXCEPT !.state = "restored"] \in RowType
      BY <1>t DEF RowType, State
    <3>2. rows' \in [1..Len(rows) -> RowType]
      BY <1>t, <2>1, <3>1 DEF Row
    <3>3. rows' \in Seq(RowType) /\ Len(rows') = Len(rows)
      BY <1>0, <3>2
    <3> QED
      BY <1>t, <2>1, <3>3 DEF Row, RowType
  <2>3. Ledger'
    <3>1. \A b \in Admin : HeldIn(op'[b], Len(rows))
      BY <1>0, <1>2 DEF Ledger, InLedger
    <3> QED
      BY <1>0, <1>1, <1>2, <1>f, <1>t, <2>2, <3>1, LedgerKept DEF Shape, Ledger, InLedger, Row
  <2>4. \A r \in Row : ~Quarantined(r)'
    BY <2>2 DEF Quarantined
  <2>5. ASSUME Sound
        PROVE  /\ sweep = "idle" /\ \A b \in Admin : op'[b].pc = "idle"
               /\ \A r \in Row : Quarantined(r) =>
                     /\ r \in Moved(a) /\ disk["home"][rows[r].path] = r /\ disk["final"][rows[r].path] = 0
                     /\ Stored(rows[r].path)
               /\ \A r, t \in Row : Quarantined(r) /\ Quarantined(t) /\ rows[r].path = rows[t].path => r = t
    <3>1. /\ AtHome(a) /\ (\A b \in Admin \ {a} : op[b].pc = "idle") /\ Moved(a) \subseteq Row
          /\ \A r \in Row : Quarantined(r) => r \in Moved(a)
      BY <1>0, <2>5, RestoreState
    <3>2. sweep = "idle" /\ \A b \in Admin : op'[b].pc = "idle"
      BY <1>0, <1>2, <2>5, <3>1 DEF Sound, Solo
    <3>3. \A r, t \in Row : Quarantined(r) /\ Quarantined(t) /\ rows[r].path = rows[t].path => r = t
      BY <3>1 DEF AtHome
    <3>4. ASSUME NEW r \in Row, Quarantined(r)
          PROVE  /\ r \in Moved(a) /\ disk["home"][rows[r].path] = r /\ disk["final"][rows[r].path] = 0
                 /\ Stored(rows[r].path)
      <4>1. /\ r \in Moved(a) /\ disk["final"][rows[r].path] = 0
            /\ disk["home"][rows[r].path] # 0 /\ Quarantined(disk["home"][rows[r].path])
        BY <3>1, <3>4 DEF AtHome
      <4>2. PICK h \in Row : h = disk["home"][rows[r].path] /\ rows[h].path = rows[r].path
        BY <1>0, <1>t, <4>1, FileRow DEF Where
      <4>3. h = r
        BY <3>3, <3>4, <4>1, <4>2
      <4>4. Stored(rows[r].path)
        BY <1>0, <4>1 DEF Stored
      <4> QED
        BY <4>1, <4>2, <4>3, <4>4
    <3> QED
      BY <3>2, <3>3, <3>4
  <2>6. ASSUME Sound PROVE Sound'
    <3>1. \A r \in Row : Live(r)' => Live(r) \/ Quarantined(r)
      BY <2>2 DEF Live, Quarantined
    <3>2. \A r, t \in Row : Quarantined(r) /\ rows[t].path = rows[r].path => ~Live(t)
      BY <1>0, <2>5, <2>6, Kept
    <3>3. OnePath'
      <4> SUFFICES ASSUME NEW r \in Row, NEW t \in Row, r # t, rows[r].path = rows[t].path, Live(r)'
                   PROVE  ~Live(t)'
        BY <2>2, <2>4 DEF OnePath, Live
      <4>1. CASE Live(r)
        BY <2>6, <3>1, <3>2, <4>1 DEF Sound, OnePath
      <4>2. CASE Quarantined(r)
        BY <2>5, <2>6, <3>1, <3>2, <4>2
      <4> QED
        BY <3>1, <4>1, <4>2
    <3>4. HomeHas'
      <4>1. \A r \in Row : rows'[r].state \in Movable => rows[r].state \in Movable \/ Quarantined(r)
        BY <2>2 DEF Movable, Quarantined
      <4>2. \A r \in Row : rows[r].state \in Movable => disk["home"][rows[r].path] = r
        BY <1>0, <2>6, RestoreState
      <4> QED
        BY <1>1, <2>2, <2>5, <2>6, <4>1, <4>2 DEF HomeHas
    <3>5. WriterAlone'
      <4> SUFFICES ASSUME writer.pc # "idle" PROVE WriterAlone'
        BY <1>1 DEF WriterAlone
      <4>w. PICK w \in Row : w = writer.row
        BY <1>0 DEF Ledger, InLedger, Row
      <4>p. PICK p \in Path : p = rows[w].path
        BY <1>t
      <4>1. /\ rows[w].state \in {"pending", "quarantined", "purged"} /\ disk["final"][p] # w
            /\ \A t \in Row : rows[t].path = p => (t # w => ~Live(t)) /\ (Quarantined(t) => ~Stored(p))
            /\ writer.pc = "post" => disk["home"][p] = w
        BY <2>6, <4>w, <4>p DEF Sound, WriterAlone
      <4>2. \A t \in Row : rows[t].path = p => ~Quarantined(t)
        BY <2>5, <2>6, <4>1
      <4>3. rows'[w].state \in {"pending", "quarantined", "purged"} /\ rows'[w].path = p
        BY <2>2, <4>1, <4>2, <4>p DEF Quarantined
      <4>4. \A t \in Row : rows'[t].path = p => (t # w => ~Live(t)')
        BY <2>2, <3>1, <4>1, <4>2
      <4> QED
        BY <1>1, <2>2, <2>4, <4>1, <4>3, <4>4, <4>w DEF WriterAlone
    <3>6. RollbackSound' /\ RestoreSound' /\ Solo'
      BY <2>5, <2>6 DEF RollbackSound, RestoreSound, Rolling, Committed, Restoring, Solo
    <3>7. StagingEmpty'
      <4>1. \A b \in Admin : ~Staging(b)
        BY <1>0, <2>6, RestoreState DEF Staging
      <4> QED
        BY <1>1, <2>6, <4>1 DEF Sound, StagingEmpty
    <3>8. FinalSound'
      <4>1. \A q \in Path : disk["final"][q] # 0 => "final" \in dirs /\ rows'[disk["final"][q]].state = "purged"
        <5> SUFFICES ASSUME NEW q \in Path, disk["final"][q] # 0
                     PROVE  "final" \in dirs /\ rows'[disk["final"][q]].state = "purged"
          OBVIOUS
        <5>1. disk["final"][q] \in Row /\ rows[disk["final"][q]].path = q
          BY <1>0, FileRow DEF Where
        <5>2. "final" \in dirs /\ rows[disk["final"][q]].state \in {"purged", "quarantined"}
          BY <1>0, <2>6, RestoreState
        <5>3. rows[disk["final"][q]].state = "purged"
          BY <2>5, <2>6, <5>1, <5>2 DEF Quarantined
        <5> QED
          BY <2>2, <5>1, <5>2, <5>3
      <4> QED
        BY <1>1, <2>2, <2>4, <4>1 DEF FinalSound
    <3>9. OneStamp' /\ Swept' /\ gone' = {}
      BY <1>1, <2>2, <2>4, <2>6 DEF OneStamp, Swept, Sound
    <3> QED
      BY <3>3, <3>4, <3>5, <3>6, <3>7, <3>8, <3>9 DEF Sound
  <2>7. ASSUME Sound PROVE Exact'
    BY <2>2, <2>4, <2>5, <2>7 DEF Exact
  <2> QED
    BY <1>4, <2>3, <2>6, <2>7 DEF IInv
<1> QED
    BY <1>3, <1>4 DEF RestoreLedger
----------------------------------------------------------------------------
(* PurgeService.Run                                                        *)

LEMMA PurgeLedgerKeeps ==
    ASSUME IInv, NEW days \in Nat, PurgeLedger(days)
    PROVE  IInv'
<1>0. Ledger /\ Shape /\ Len(rows) \in Nat
    BY DEF IInv, Ledger, Shape
<1>1. sweep = "idle" /\ UNCHANGED <<backend, now, disk, dirs, writer, op, faults, crashes, gone>>
    BY DEF PurgeLedger
<1>t. DOMAIN rows = Row /\ \A r \in Row : rows[r] \in RowType /\ rows[r].path \in Path
    BY <1>0, RowTyped
<1>2. /\ rows' = [r \in Row |-> IF r \in Expired(days) THEN [rows[r] EXCEPT !.state = "purged"] ELSE rows[r]]
      /\ sweep' = (IF Expired(days) = {} THEN "idle" ELSE "remove")
      /\ mishap' = mishap \union (IF Expired(days) = {} THEN {} ELSE Overlap)
    BY <1>t DEF PurgeLedger, LedgerPurge
<1>3. /\ rows' \in Seq(RowType) /\ Len(rows') = Len(rows) /\ Row' = Row
      /\ \A r \in Row : rows'[r].path = rows[r].path
      /\ \A r \in Row \cap Expired(days) : rows'[r].state = "purged"
      /\ \A r \in Row \ Expired(days) : rows'[r] = rows[r]
  <2>1. \A r \in Row : [rows[r] EXCEPT !.state = "purged"] \in RowType
    BY <1>t DEF RowType, State
  <2>2. rows' \in [1..Len(rows) -> RowType]
    BY <1>t, <1>2, <2>1 DEF Row
  <2>3. rows' \in Seq(RowType) /\ Len(rows') = Len(rows)
    BY <1>0, <2>2
  <2> QED
    BY <1>t, <1>2, <2>3 DEF Row, RowType
<1>4. Ledger'
  <2>1. sweep' \in {"idle", "remove"} /\ \A b \in Admin : HeldIn(op'[b], Len(rows))
    BY <1>0, <1>1, <1>2 DEF Ledger, InLedger
  <2> QED
    BY <1>0, <1>1, <1>3, <1>t, <2>1, LedgerKept DEF Shape, Ledger, InLedger, Row
<1>5. CASE Expired(days) = {}
  <2>1. rows' = rows
    <3>1. DOMAIN rows' = DOMAIN rows /\ \A r \in DOMAIN rows : rows'[r] = rows[r]
      BY <1>2, <1>t, <1>5
    <3>2. rows \in Seq(RowType)
      BY <1>0 DEF Shape
    <3> QED
      BY <1>3, <3>1, <3>2
  <2>2. UNCHANGED vars
    BY <1>1, <1>2, <1>5, <2>1 DEF vars
  <2> QED
    BY <2>2, TickKeeps
<1>6. CASE Expired(days) # {}
  <2>1. ASSUME mishap' \subseteq {"unmoved"}
        PROVE  Sound /\ \A b \in Admin : op[b].pc = "idle"
    BY <1>2, <1>6, <2>1 DEF IInv, Overlap
  <2>2. ASSUME mishap' \subseteq {"unmoved"}
        PROVE  /\ \A r \in Row : Quarantined(r) => r \in Expired(days)
               /\ \A r \in Row : ~Quarantined(r)'
               /\ \A r \in Row : rows[r].state # "quarantined" => rows'[r] = rows[r]
               /\ \A r \in Row : rows[r].state = "quarantined" => rows'[r].state = "purged"
    <3>1. PICK e \in Expired(days) : TRUE
      BY <1>6
    <3>2. e \in Row /\ Quarantined(e) /\ rows[e].qat < now - days
      BY <1>t DEF Expired, Quarantined
    <3>3. \A r \in Row : Quarantined(r) => r \in Expired(days)
      BY <1>t, <2>1, <2>2, <3>2 DEF Sound, OneStamp, Expired, Quarantined
    <3>4. \A r \in Row : r \in Expired(days) => rows[r].state = "quarantined"
      BY DEF Expired
    <3> QED
      BY <1>3, <3>3, <3>4 DEF Quarantined
  <2>3. ASSUME mishap' \subseteq {"unmoved"} PROVE Sound' /\ Exact'
    <3>1. /\ Sound /\ (\A b \in Admin : op[b].pc = "idle") /\ (\A r \in Row : ~Quarantined(r)')
          /\ (\A r \in Row : rows[r].state # "quarantined" => rows'[r] = rows[r])
          /\ (\A r \in Row : rows[r].state = "quarantined" => rows'[r].state = "purged")
      BY <2>1, <2>2, <2>3
    <3>2. \A r \in Row : Live(r)' <=> Live(r)
      BY <3>1 DEF Live
    <3>3. OnePath'
      BY <1>3, <3>1, <3>2 DEF Sound, OnePath, Live
    <3>4. HomeHas'
      <4>1. \A r \in Row : rows'[r].state \in Movable => rows[r].state \in Movable
        BY <3>1 DEF Movable
      <4>2. \A r \in Row : rows[r].state \in Movable => disk["home"][rows[r].path] = r
        BY <3>1 DEF Sound, HomeHas, Rolling
      <4> QED
        BY <1>1, <1>3, <4>1, <4>2 DEF HomeHas
    <3>5. WriterAlone'
      <4> SUFFICES ASSUME writer.pc # "idle" PROVE WriterAlone'
        BY <1>1 DEF WriterAlone
      <4>w. PICK w \in Row : w = writer.row
        BY <1>0 DEF Ledger, InLedger, Row
      <4>p. PICK p \in Path : p = rows[w].path
        BY <1>t
      <4>1. /\ rows[w].state \in {"pending", "quarantined", "purged"} /\ disk["final"][p] # w
            /\ \A t \in Row : rows[t].path = p => (t # w => ~Live(t))
            /\ writer.pc = "post" => disk["home"][p] = w
        BY <3>1, <4>w, <4>p DEF Sound, WriterAlone
      <4>2. rows'[w].state \in {"pending", "quarantined", "purged"} /\ rows'[w].path = p
        BY <1>3, <3>1, <4>1, <4>p
      <4>3. \A t \in Row : rows'[t].path = p => (t # w => ~Live(t)')
        BY <1>3, <3>2, <4>1
      <4> QED
        BY <1>1, <1>3, <3>1, <4>1, <4>2, <4>3, <4>w DEF WriterAlone
    <3>6. RollbackSound' /\ RestoreSound' /\ Solo' /\ StagingEmpty'
      BY <1>1, <3>1 DEF Sound, RollbackSound, RestoreSound, Rolling, Committed, Restoring, Solo, StagingEmpty, Staging
    <3>7. FinalSound'
      <4>1. \A q \in Path : disk["final"][q] # 0 => "final" \in dirs /\ rows'[disk["final"][q]].state = "purged"
        <5> SUFFICES ASSUME NEW q \in Path, disk["final"][q] # 0
                     PROVE  "final" \in dirs /\ rows'[disk["final"][q]].state = "purged"
          OBVIOUS
        <5>1. disk["final"][q] \in Row
          BY <1>0, FileRow DEF Where
        <5>2. "final" \in dirs /\ rows[disk["final"][q]].state \in {"purged", "quarantined"}
          BY <3>1 DEF Sound, FinalSound, Committed, Quarantined
        <5> QED
          BY <3>1, <5>1, <5>2
      <4> QED
        BY <1>1, <1>3, <3>1, <4>1 DEF FinalSound
    <3>8. OneStamp' /\ Swept' /\ gone' = {}
      BY <1>1, <1>3, <3>1 DEF OneStamp, Swept, Sound
    <3>9. Exact'
      BY <1>1, <1>3, <3>1 DEF Exact
    <3> QED
      BY <3>3, <3>4, <3>5, <3>6, <3>7, <3>8, <3>9 DEF Sound
  <2> QED
    BY <1>4, <2>3 DEF IInv
<1> QED
    BY <1>5, <1>6

(* After a purge only purged rows have files in quarantine.                *)
LEMMA PurgeRemoveKeeps == ASSUME IInv, OneFault, PurgeRemove PROVE IInv'
<1>0. Ledger /\ Shape /\ sweep = "remove"
    BY DEF IInv, Ledger, PurgeRemove
<1>1. UNCHANGED <<backend, now, rows, writer, op, crashes, mishap>> /\ sweep' = "idle"
    BY DEF PurgeRemove
<1>t. DOMAIN rows = Row /\ \A r \in Row : rows[r] \in RowType /\ rows[r].path \in Path
    BY <1>0, RowTyped
<1>2. /\ Fault \/ NoFault
      /\ \/ /\ disk' = [disk EXCEPT !["final"] = Missing] /\ dirs' = dirs \ {"final"}
            /\ gone' = gone \union Deleted("final")
         \/ UNCHANGED <<disk, dirs, gone>>
    BY DEF PurgeRemove, RemoveAll
<1>3. /\ disk' \in [Where -> [Path -> Nat]]
      /\ \A q \in Path : disk'["staging"][q] = disk["staging"][q] /\ disk'["home"][q] = disk["home"][q]
      /\ \/ \A q \in Path : disk'["final"][q] = 0
         \/ UNCHANGED <<disk, dirs>>
  <2>1. "final" \in Where /\ "staging" \in Where \ {"final"} /\ "home" \in Where \ {"final"}
    BY DEF Where
  <2>2. CASE disk' = [disk EXCEPT !["final"] = Missing]
    BY <1>0, <2>1, <2>2, RemovedDir DEF Shape
  <2> QED
    BY <1>0, <1>2, <2>2 DEF Shape
<1>4. faults' \in 0..MaxFaults /\ dirs' \subseteq {"staging", "final"} /\ Row' = Row
    BY <1>0, <1>1, <1>2, FaultOnce DEF Shape, Row
<1>5. Ledger'
  <2>1. \A l \in Where : \A q \in Path : disk'[l][q] # 0 => \E k \in Where : disk'[l][q] = disk[k][q]
    BY <1>3 DEF Where
  <2>2. \A b \in Admin : HeldIn(op'[b], Len(rows))
    BY <1>0, <1>1 DEF Ledger, InLedger
  <2>3. Len(rows) \in Nat
    BY <1>0 DEF Shape
  <2> QED
    BY <1>0, <1>1, <1>3, <1>4, <2>1, <2>2, <2>3, LedgerKept DEF Shape, Ledger, InLedger
<1>6. ASSUME Sound PROVE Sound' /\ Exact'
  <2>1. (\A b \in Admin : op[b].pc = "idle") /\ \A r \in Row : ~Quarantined(r)
    BY <1>0, <1>6 DEF Sound, Solo, Swept
  <2>2. \A r \in Row' : ~Quarantined(r)'
    BY <1>1, <1>4, <2>1 DEF Quarantined
  <2>3. \A q \in Path : disk["final"][q] # 0 =>
           "final" \in dirs /\ disk["final"][q] \in Row /\ rows[disk["final"][q]].state = "purged"
    <3>1. \A q \in Path : disk["final"][q] # 0 => disk["final"][q] \in Row
      BY <1>0, FileRow DEF Where
    <3> QED
      BY <1>6, <2>1, <3>1 DEF Sound, FinalSound, Committed
  <2>4. Deleted("final") = {}
    BY <2>3 DEF Deleted, Files
  <2>5. gone' = {}
    BY <1>2, <1>6, <2>4 DEF Sound
  <2>6. OnePath'
    BY <1>1, <1>4, <1>6, <2>2 DEF Sound, OnePath, Live
  <2>7. HomeHas'
    <3>1. \A r \in Row : rows[r].state \in Movable => disk["home"][rows[r].path] = r
      BY <1>6, <2>1 DEF Sound, HomeHas, Rolling
    <3> QED
      BY <1>1, <1>3, <1>4, <1>t, <3>1 DEF HomeHas
  <2>8. WriterAlone'
    <3> SUFFICES ASSUME writer.pc # "idle" PROVE WriterAlone'
      BY <1>1 DEF WriterAlone
    <3>w. PICK w \in Row : w = writer.row
      BY <1>0 DEF Ledger, InLedger, Row
    <3>p. PICK p \in Path : p = rows[w].path
      BY <1>t
    <3>1. /\ rows[w].state \in {"pending", "quarantined", "purged"} /\ disk["final"][p] # w
          /\ \A t \in Row : rows[t].path = p => (t # w => ~Live(t))
          /\ writer.pc = "post" => disk["home"][p] = w
      BY <1>6, <3>w, <3>p DEF Sound, WriterAlone
    <3>2. w # 0
      BY DEF Row
    <3>3. disk'["final"][p] # w /\ disk'["home"][p] = disk["home"][p]
      BY <1>3, <3>1, <3>2
    <3>4. writer' = writer /\ rows' = rows
      BY <1>1
    <3> QED
      BY <1>4, <2>2, <3>1, <3>3, <3>4, <3>w, <3>p DEF WriterAlone, Live
  <2>9. RollbackSound' /\ RestoreSound' /\ Solo'
    BY <1>1, <2>1 DEF RollbackSound, RestoreSound, Rolling, Committed, Restoring, Solo
  <2>10. StagingEmpty'
    BY <1>3, <1>6, <2>1 DEF Sound, StagingEmpty, Staging
  <2>11. FinalSound'
    BY <1>1, <1>3, <2>2, <2>3 DEF FinalSound
  <2>12. OneStamp' /\ Swept' /\ Exact'
    BY <1>1, <2>1, <2>2 DEF OneStamp, Swept, Exact
  <2> QED
    BY <2>5, <2>6, <2>7, <2>8, <2>9, <2>10, <2>11, <2>12 DEF Sound
<1> QED
    BY <1>1, <1>5, <1>6 DEF IInv
----------------------------------------------------------------------------
LEMMA InitIInv == Init => IInv
<1> SUFFICES ASSUME Init PROVE IInv
    OBVIOUS
<1>1. /\ rows = <<>> /\ Len(rows) = 0 /\ Row = {} /\ rows \in Seq(RowType)
      /\ sweep = "idle" /\ writer = [pc |-> "idle", row |-> 0] /\ writer.pc = "idle" /\ dirs = {} /\ gone = {}
    BY DEF Init, Row
<1>2. op \in [Admin -> OpType] /\ \A a \in Admin : op[a] = Idle /\ op[a].pc = "idle" /\ HeldIn(op[a], 0)
    BY IdleOp, IdleHeld DEF Init
<1>3. disk \in [Where -> [Path -> Nat]] /\ \A l \in Where : \A p \in Path : disk[l][p] = 0
    BY DEF Init, Where
<1>4. Ledger
  <2>1. Shape
    BY <1>1, <1>2, <1>3, ArtefactsAssumption DEF Shape, Init
  <2> QED
    BY <1>1, <1>2, <1>3, <2>1 DEF Ledger, InLedger, AtItsPath
<1>5. "staging" \in Where /\ "final" \in Where
    BY DEF Where
<1>6. Sound
    BY <1>1, <1>2, <1>3, <1>5 DEF Sound, Solo, OnePath, HomeHas, WriterAlone, RollbackSound, StagingEmpty,
         FinalSound, RestoreSound, OneStamp, Swept, Rolling, Committed, Restoring
<1>7. Exact
    BY <1>1, <1>2 DEF Exact
<1> QED
    BY <1>4, <1>6, <1>7 DEF IInv

LEMMA NextIInv == ASSUME IInv, OneFault, [Next]_vars PROVE IInv'
<1>1. ASSUME NEW p \in Path, WriteBegin(p) PROVE IInv'
    BY <1>1, WriteBeginKeeps
<1>2. CASE WriteBytes
    BY <1>2, WriteBytesKeeps
<1>3. CASE WriteEnd
    BY <1>3, WriteEndKeeps
<1>4. ASSUME NEW a \in Admin, AdminStep(a) PROVE IInv'
  <2>1. CASE RollbackBegin(a) \/ RestoreBegin(a)
    BY <2>1, BeginKeeps
  <2>2. CASE RollbackStage(a) \/ RestoreExists(a)
    BY <2>2, StageKeeps
  <2>3. CASE RollbackMove(a)
    BY <2>3, RollbackMoveKeeps
  <2>4. CASE RollbackCommit(a)
    BY <2>4, RollbackCommitKeeps
  <2>5. CASE RollbackLedger(a)
    BY <2>5, RollbackLedgerKeeps
  <2>6. CASE RollbackUncommit(a)
    BY <2>6, RollbackUncommitKeeps
  <2>7. CASE RollbackReverse(a)
    BY <2>7, RollbackReverseKeeps
  <2>8. CASE RollbackClear(a)
    BY <2>8, RollbackClearKeeps
  <2>9. CASE RestoreMove(a)
    BY <2>9, RestoreMoveKeeps
  <2>10. CASE RestoreReverse(a)
    BY <2>10, RestoreReverseKeeps
  <2>11. CASE RestoreClean(a)
    BY <2>11, RestoreCleanKeeps
  <2>12. CASE RestoreLedger(a)
    BY <2>12, RestoreLedgerKeeps
  <2> QED
    BY <1>4, <2>1, <2>2, <2>3, <2>4, <2>5, <2>6, <2>7, <2>8, <2>9, <2>10, <2>11, <2>12 DEF AdminStep
<1>5. CASE PurgeLoop \/ HandleAdminPurgeArtefacts
  <2>1. \E days \in Nat : PurgeLedger(days)
    BY <1>5, ArtefactsAssumption DEF PurgeLoop, HandleAdminPurgeArtefacts
  <2> QED
    BY <2>1, PurgeLedgerKeeps
<1>6. CASE PurgeRemove
    BY <1>6, PurgeRemoveKeeps
<1>7. CASE Tick \/ UNCHANGED vars
    BY <1>7, TickKeeps
<1>8. CASE Crash
    BY <1>8, CrashKeeps
<1> QED
    BY <1>1, <1>2, <1>3, <1>4, <1>5, <1>6, <1>7, <1>8 DEF Next

(* The invariant holds in every state of every behaviour with one fault.   *)
LEMMA Invariant == OneFault => (Spec => []IInv)
<1> SUFFICES ASSUME OneFault PROVE Spec => []IInv
    OBVIOUS
<1>1. Init => IInv
    BY InitIInv
<1>2. IInv /\ [Next]_vars => IInv'
    BY NextIInv
<1> QED
    BY <1>1, <1>2, PTL DEF Spec

(* No RemoveAll of RollbackService or PurgeService deletes bytes of a row  *)
(* that has not been purged, whatever files, administrators, writes, days  *)
(* and crashes there are, with at most one failing call.  With two, a      *)
(* reversal whose rename also fails leaves a file in the staging directory *)
(* and reverse removes it.                                                 *)
THEOREM NothingDeletedHolds == OneFault => (Spec => []NothingDeleted)
<1> SUFFICES ASSUME OneFault PROVE Spec => []NothingDeleted
    OBVIOUS
<1>1. IInv => NothingDeleted
    BY DEF IInv, Sound, NothingDeleted
<1>2. Spec => []IInv
    BY Invariant
<1> QED
    BY <1>1, <1>2, PTL

(* With nobody at work and no mishap, the ledger's rows tell where the     *)
(* bytes are, and nothing is left in staging: one failing call anywhere in *)
(* RollbackService.Rollback or Restore is undone completely.               *)
THEOREM LedgerMatchesDiskHolds == OneFault => (Spec => []LedgerMatchesDisk)
<1> SUFFICES ASSUME OneFault PROVE Spec => []LedgerMatchesDisk
    OBVIOUS
<1>1. IInv => LedgerMatchesDisk
  <2> SUFFICES ASSUME IInv, AtRest, mishap = {} 
               PROVE  /\ Files("staging") = {}
                      /\ \A r \in DOMAIN rows :
                            /\ rows[r].state \in Movable => disk["home"][rows[r].path] = r
                            /\ rows[r].state = "quarantined" => disk["final"][rows[r].path] = r
    BY DEF LedgerMatchesDisk
  <2>1. Ledger /\ Sound /\ Exact /\ \A a \in Admin : op[a].pc = "idle"
    BY DEF IInv, AtRest
  <2>2. \A a \in Admin : ~Staging(a) /\ ~Rolling(a) /\ ~Restoring(a)
    BY <2>1 DEF Staging, Rolling, Restoring
  <2>3. Files("staging") = {}
    BY <2>1, <2>2 DEF Sound, StagingEmpty, Files
  <2>4. DOMAIN rows = Row
    BY <2>1, RowTyped
  <2> QED
    BY <2>1, <2>2, <2>3, <2>4 DEF Sound, HomeHas, Exact, Quarantined
<1>2. Spec => []IInv
    BY Invariant
<1> QED
    BY <1>1, <1>2, PTL
============================================================================
