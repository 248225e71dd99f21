--------------------------- MODULE SessionService ---------------------------
(***************************************************************************)
(* One conversation of the assistant as internal/app/session_service.go    *)
(* serves it: HTTP requests (GetSession, SendMessage, DeleteSession,       *)
(* UpdateSession) work concurrently on the in-memory maps, the background  *)
(* goroutine of a message runs the CPN, and both write to the session      *)
(* repository, a Redis cache aside Postgres (store/redis/session.go,       *)
(* store/postgres/session.go).  The server may restart at any time.        *)
(*                                                                         *)
(* The maps sessions and states change together under s.mu, so one         *)
(* variable, live, stands for both entries; its value is a session object  *)
(* (cpn.Session with its Root and its sessionState).  What the CPN does    *)
(* during Run is reduced to the rows it adds to Root.History.              *)
(***************************************************************************)
EXTENDS Integers, Sequences, FiniteSets, SequencesExt

CONSTANTS
  Proc,          \* HTTP requests that may be under way
  Loads,         \* what the server may have to cope with, one of which holds
  MaxObj,        \* bound: session objects
  MaxRun,        \* bound: background runs
  MaxRestarts    \* bound: restarts of the server

OpKind == {"get", "send", "delete", "softdelete", "rename"}

(* clients: requests at a time; ops: their kinds; cache: Redis is configured; *)
(* awakening: CreateSession starts runAwakeningAsync; faulty: the writes of   *)
(* messages that may fail; the rest bounds requests, runs and the transitions *)
(* that add rows to the history in a run.  fork: the session was forked from  *)
(* another one after so many of its messages, 0 for one CreateSession made.   *)
Load == [clients : 1..Cardinality(Proc), ops : SUBSET OpKind, cache : BOOLEAN,
         awakening : BOOLEAN, fork : Nat, faulty : SUBSET {"user", "flush", "after", "awaken", "get"},
         maxOps : Nat, maxRun : 0..MaxRun, maxFirings : Nat]

ASSUME SessionAssumption ==
  /\ IsFiniteSet(Proc) /\ Proc # {}
  /\ MaxObj \in Nat \ {0} /\ MaxRun \in Nat /\ MaxRestarts \in Nat
  /\ Loads \subseteq Load

Obj == 1..MaxObj
Run == 1..MaxRun

(* A message: uid identifies it, id is its ID field with 0 for "", parent   *)
(* says that ParentMessageID is set.                                         *)
Msg == [uid : Nat, id : Nat, role : {"user", "assistant"}, parent : BOOLEAN]

PC == {"free", "lookup", "join", "cacheget", "dbget", "fill", "build", "insert",
       "find", "check", "append", "appenddb", "title", "invalidate", "reset", "arm", "launch",
       "unmap", "cancel", "close", "exists", "update", "softdb", "evict"}

Phase == {"none", "armed", "run", "flush", "add", "failed", "ok", "collect", "synced", "idle",
          "persist", "done", "dead"}

VARIABLES
  load,         \* the load the server is under, fixed
  live,         \* s.sessions[id], s.states[id]: an object, 0 for no entry
  nobj,         \* objects made so far
  busy,         \* sessionState.state of each object is StateRunning
  cancel,       \* sessionState.cancel: the run it cancels, 0 for nil
  msgs,         \* Session.messages of each object
  history,      \* Root.History of each object
  rows,         \* the messages table
  closed,       \* sessions.state is 'closed'
  deleted,      \* sessions.deleted_at is set
  title,        \* sessions.title
  usage,        \* LLM calls of the session in TokenLedger
  billed,       \* and in the token_ledger table
  cached,       \* the session key is in Redis,
  cache,        \* with these messages
  pc, op,       \* location and kind of each request
  got, mine,    \* the object it works on, the run it prepares
  rec,          \* the messages of the record it read
  ret,          \* where Get returns to
  leader,       \* leader of the singleflight call
  phase,        \* phase of each background run
  runObj,       \* the object it runs on
  base,         \* historyLen
  lastFlushed,  \* lastFlushed of flushHistory
  ctxDone,      \* bgCtx is cancelled
  snap,         \* historySnapshot of the flush under way
  from,         \* and its startIdx
  fresh,        \* newMsgs handed to persistAfterRun
  fired,        \* firings of the run
  awake,        \* runAwakeningAsync
  nrun, nmsg, nops, restarts

objVars == <<live, nobj, busy, cancel, msgs, history>>
ledgerVars == <<usage, billed>>
dbVars == <<rows, closed, deleted, title, cached, cache>>
reqVars == <<pc, op, got, mine, rec, ret, leader>>
runVars == <<phase, runObj, base, lastFlushed, ctxDone, snap, from, fresh, fired>>
counts == <<load, ledgerVars, nrun, nmsg, nops, restarts, awake>>
vars == <<objVars, dbVars, reqVars, runVars, counts>>

(* Every variable has its type. *)
TypeOK ==
  /\ load \in Loads
  /\ live \in 0..MaxObj /\ nobj \in 0..MaxObj
  /\ busy \in [Obj -> BOOLEAN] /\ cancel \in [Obj -> 0..MaxRun]
  /\ msgs \in [Obj -> Seq(Msg)] /\ history \in [Obj -> Seq(Msg)]
  /\ rows \in Seq(Msg) /\ closed \in BOOLEAN /\ deleted \in BOOLEAN
  /\ title \in {"", "fork", "auto", "user"} /\ cached \in BOOLEAN /\ cache \in Seq(Msg)
  /\ usage \in Nat /\ billed \in Nat
  /\ pc \in [Proc -> PC] /\ op \in [Proc -> OpKind] /\ got \in [Proc -> 0..MaxObj]
  /\ mine \in [Proc -> 0..MaxRun]
  /\ rec \in [Proc -> Seq(Msg)] /\ ret \in [Proc -> PC] /\ leader \subseteq Proc
  /\ phase \in [Run -> Phase] /\ runObj \in [Run -> Obj]
  /\ base \in [Run -> Nat] /\ lastFlushed \in [Run -> Nat] /\ ctxDone \in [Run -> BOOLEAN]
  /\ snap \in [Run -> Seq(Msg)] /\ from \in [Run -> Nat]
  /\ awake \in [at : {"run", "save", "done"}, new : Seq(Msg)]
  /\ fresh \in [Run -> Seq(Msg)] /\ fired \in [Run -> Nat]
  /\ nrun \in 0..MaxRun /\ nmsg \in Nat /\ nops \in 0..load.maxOps /\ restarts \in 0..MaxRestarts
-----------------------------------------------------------------------------
(* Messages and the repository *)

(* Rows that are promoted from the history to the session: the assistant's   *)
(* and the answers to HITL surfaces.                                         *)
Promoted(m) == m.role = "assistant" \/ m.parent

(* INSERT ... ON CONFLICT (id) DO NOTHING, into an active session only.      *)
InsertRow(table, m) ==
  IF closed \/ (\E k \in DOMAIN table : table[k].id = m.id) THEN table ELSE Append(table, m)

Inserted(table, ms) == FoldLeft(InsertRow, table, ms)

(* AppendMessage of each row of ms: errors are logged and dropped.  The      *)
(* cached record is left alone, only its TTL is reset.                       *)
AppendMessages(writer, ms) ==
  \/ rows' = Inserted(rows, ms)
  \/ writer \in load.faulty /\ UNCHANGED rows

GoTo(p, l) == pc' = [pc EXCEPT ![p] = l]

(* Sessions.Get goes on at l with the messages of the record in rec[p].      *)
(* Postgres selects neither deleted_at nor title: both are empty in a record *)
(* read from there.                                                          *)
CallGet(p, l) ==
  /\ GoTo(p, IF load.cache THEN "cacheget" ELSE "dbget")
  /\ ret' = [ret EXCEPT ![p] = l]

CacheGet(p) ==
  /\ pc[p] = "cacheget"
  /\ IF cached THEN GoTo(p, ret[p]) /\ rec' = [rec EXCEPT ![p] = cache]
               ELSE GoTo(p, "dbget") /\ UNCHANGED rec
  /\ UNCHANGED <<objVars, dbVars, op, got, mine, ret, leader, runVars, counts>>

(* SELECT ... ORDER BY timestamp: uid stands for the time of creation.       *)
Placed(ms, m) ==
  LET later == SelectInSeq(ms, LAMBDA x : x.uid > m.uid)
  IN  InsertAt(ms, IF later = 0 THEN Len(ms) + 1 ELSE later, m)

ByTimestamp(ms) == FoldLeft(Placed, <<>>, ms)

DbGet(p) ==
  /\ pc[p] = "dbget"
  /\ rec' = [rec EXCEPT ![p] = ByTimestamp(rows)]
  /\ GoTo(p, IF load.cache THEN "fill" ELSE ret[p])
  /\ UNCHANGED <<objVars, dbVars, op, got, mine, ret, leader, runVars, counts>>

(* Get fails: rehydration and UpdateSession give up, the title is left out.  *)
GetFails(p) ==
  /\ pc[p] = "dbget" /\ "get" \in load.faulty
  /\ pc' = [q \in Proc |->
       IF q = p THEN IF ret[p] = "title" THEN "reset" ELSE "free"
       ELSE IF ret[p] = "build" /\ pc[q] = "join" THEN "free" ELSE pc[q]]
  /\ leader' = leader \ {p}
  /\ UNCHANGED <<objVars, dbVars, op, got, mine, rec, ret, runVars, counts>>

(* cacheSession *)
Fill(p) ==
  /\ pc[p] = "fill"
  /\ cached' = TRUE /\ cache' = rec[p]
  /\ GoTo(p, ret[p])
  /\ UNCHANGED <<objVars, rows, closed, deleted, title, op, got, mine, rec, ret, leader, runVars, counts>>

(* evict and invalidate delete the session key.                              *)
Evict(p) ==
  /\ pc[p] \in {"evict", "invalidate"}
  /\ cached' = FALSE /\ cache' = <<>>
  /\ GoTo(p, CASE pc[p] = "invalidate" /\ op[p] = "send" -> "reset"
               [] pc[p] = "evict" /\ op[p] = "softdelete" -> "unmap"
               [] OTHER -> "free")
  /\ UNCHANGED <<objVars, rows, closed, deleted, title, op, got, mine, rec, ret, leader, runVars, counts>>

CacheExpires ==
  /\ cached
  /\ cached' = FALSE /\ cache' = <<>>
  /\ UNCHANGED <<objVars, rows, closed, deleted, title, reqVars, runVars, counts>>
-----------------------------------------------------------------------------
(* GetSession and rehydration *)

(* Where a request goes on once GetSession has answered.                     *)
AfterGet(o) == CASE o = "send" -> "find" [] o = "delete" -> "unmap" [] o = "get" -> "free"
                 [] OTHER -> "exists"

Start(p) ==
  /\ pc[p] = "free" /\ nops < load.maxOps
  /\ Cardinality({q \in Proc : pc[q] # "free"}) < load.clients
  /\ nops' = nops + 1
  /\ \E o \in load.ops : op' = [op EXCEPT ![p] = o]
  /\ GoTo(p, "lookup")
  /\ UNCHANGED <<objVars, dbVars, got, mine, rec, ret, leader, runVars, load, ledgerVars,
                 nrun, nmsg, restarts, awake>>

(* The hot path, or a call of rehydrate; singleflight makes the callers that *)
(* come while a load is under way wait for its result.                       *)
Lookup(p) ==
  /\ pc[p] = "lookup"
  /\ IF live # 0 THEN GoTo(p, AfterGet(op[p])) /\ UNCHANGED <<ret, leader>>
     ELSE IF leader = {} THEN CallGet(p, "build") /\ leader' = {p}
     ELSE GoTo(p, "join") /\ UNCHANGED <<ret, leader>>
  /\ UNCHANGED <<objVars, dbVars, op, got, mine, rec, runVars, counts>>

(* Slip: the messages are not replayed. *)
Build_Empty(p) ==
  /\ pc[p] = "build" /\ nobj < MaxObj
  /\ nobj' = nobj + 1
  /\ LET flight == {p} \cup {q \in Proc : pc[q] = "join"} IN
       /\ got' = [q \in Proc |-> IF q \in flight THEN nobj' ELSE got[q]]
       /\ pc' = [q \in Proc |-> IF q \in flight THEN "insert" ELSE pc[q]]
  /\ leader' = {}
  /\ UNCHANGED <<live, busy, cancel, msgs, history, dbVars, op, mine, rec, ret, runVars, counts>>

(* loadFromPersist builds an object from the record; every caller of the     *)
(* flight gets it.                                                           *)
Build(p) ==
  /\ pc[p] = "build" /\ nobj < MaxObj
  /\ nobj' = nobj + 1
  /\ msgs' = [msgs EXCEPT ![nobj'] = rec[p]]
  /\ LET flight == {p} \cup {q \in Proc : pc[q] = "join"} IN
       /\ got' = [q \in Proc |-> IF q \in flight THEN nobj' ELSE got[q]]
       /\ pc' = [q \in Proc |-> IF q \in flight THEN "insert" ELSE pc[q]]
  /\ leader' = {}
  /\ UNCHANGED <<live, busy, cancel, history, dbVars, op, mine, rec, ret, runVars, counts>>

(* Double-checked insertion, with a new sessionState.                        *)
Insert(p) ==
  /\ pc[p] = "insert"
  /\ IF live # 0 THEN UNCHANGED <<live, busy, cancel>>
     ELSE live' = got[p] /\ busy' = [busy EXCEPT ![got[p]] = FALSE] /\ cancel' = [cancel EXCEPT ![got[p]] = 0]
  /\ GoTo(p, AfterGet(op[p]))
  /\ UNCHANGED <<nobj, msgs, history, dbVars, op, got, mine, rec, ret, leader, runVars, counts>>
-----------------------------------------------------------------------------
(* SendMessage *)

Find(p) ==
  /\ pc[p] = "find"
  /\ got' = [got EXCEPT ![p] = live]
  /\ GoTo(p, IF live = 0 THEN "free" ELSE "check")
  /\ UNCHANGED <<objVars, dbVars, op, mine, rec, ret, leader, runVars, counts>>

(* Slip: a busy session is not refused. *)
Check_Never(p) ==
  /\ pc[p] = "check"
  /\ GoTo(p, "append")
  /\ UNCHANGED <<objVars, dbVars, op, got, mine, rec, ret, leader, runVars, counts>>

(* ErrSessionBusy *)
Check(p) ==
  /\ pc[p] = "check"
  /\ GoTo(p, IF busy[got[p]] THEN "free" ELSE "append")
  /\ UNCHANGED <<objVars, dbVars, op, got, mine, rec, ret, leader, runVars, counts>>

UserMsg(n) == [uid |-> n, id |-> n, role |-> "user", parent |-> FALSE]

AppendUser(p) ==
  /\ pc[p] = "append"
  /\ nmsg' = nmsg + 1
  /\ msgs' = [msgs EXCEPT ![got[p]] = Append(@, UserMsg(nmsg'))]
  /\ rec' = [rec EXCEPT ![p] = <<UserMsg(nmsg')>>]
  /\ GoTo(p, "appenddb")
  /\ UNCHANGED <<live, nobj, busy, cancel, history, dbVars, op, got, mine, ret, leader, runVars, load,
                 ledgerVars, nrun, nops, restarts, awake>>

AppendUserDb(p) ==
  /\ pc[p] = "appenddb"
  /\ AppendMessages("user", rec[p])
  /\ IF Len(msgs[got[p]]) = 1 THEN CallGet(p, "title") ELSE GoTo(p, "reset") /\ UNCHANGED ret
  /\ UNCHANGED <<objVars, closed, deleted, title, cached, cache, op, got, mine, rec, leader, runVars,
                 counts>>

(* The record ForkSession cached has a title, and no messages.               *)
HasTitle(p) == load.fork # 0 /\ rec[p] = <<>>

(* A record read from Postgres never has a title, so one is always written.  *)
AutoTitle(p) ==
  /\ pc[p] = "title"
  /\ IF HasTitle(p) THEN GoTo(p, "reset") /\ UNCHANGED title
     ELSE GoTo(p, IF load.cache THEN "invalidate" ELSE "reset") /\ title' = "auto"
  /\ UNCHANGED <<objVars, rows, closed, deleted, cached, cache, op, got, mine, rec, ret, leader, runVars, counts>>

(* Root.Reset, the history from the session, the input token, the callbacks. *)
ResetRoot(p) ==
  /\ pc[p] = "reset" /\ nrun < load.maxRun
  /\ nrun' = nrun + 1
  /\ mine' = [mine EXCEPT ![p] = nrun']
  /\ history' = [history EXCEPT ![got[p]] = msgs[got[p]]]
  /\ base' = [base EXCEPT ![nrun'] = Len(msgs[got[p]])]
  /\ runObj' = [runObj EXCEPT ![nrun'] = got[p]]
  /\ phase' = [phase EXCEPT ![nrun'] = "armed"]
  /\ rec' = [rec EXCEPT ![p] = <<>>]
  /\ GoTo(p, "arm")
  /\ UNCHANGED <<live, nobj, busy, cancel, msgs, dbVars, op, got, ret, leader, lastFlushed, ctxDone,
                 snap, from, fresh, fired, load, ledgerVars, nmsg, nops, restarts, awake>>

(* st.cancel = cancel *)
Arm(p) ==
  /\ pc[p] = "arm"
  /\ cancel' = [cancel EXCEPT ![got[p]] = mine[p]]
  /\ GoTo(p, "launch")
  /\ UNCHANGED <<live, nobj, busy, msgs, history, dbVars, op, got, mine, rec, ret, leader, runVars, counts>>

(* st.set(StateRunning), go func *)
Launch(p) ==
  /\ pc[p] = "launch"
  /\ busy' = [busy EXCEPT ![got[p]] = TRUE]
  /\ phase' = [phase EXCEPT ![mine[p]] = "run"]
  /\ GoTo(p, "free")
  /\ UNCHANGED <<live, nobj, cancel, msgs, history, dbVars, op, got, mine, rec, ret, leader, runObj, base,
                 lastFlushed, ctxDone, snap, from, fresh, fired, counts>>
-----------------------------------------------------------------------------
(* DeleteSession and UpdateSession *)

(* The entries leave the maps; the state that was found is kept in got.      *)
Unmap(p) ==
  /\ pc[p] = "unmap"
  /\ got' = [got EXCEPT ![p] = live]
  /\ live' = 0
  /\ GoTo(p, IF live = 0 THEN "free" ELSE "cancel")
  /\ UNCHANGED <<nobj, busy, cancel, msgs, history, dbVars, op, mine, rec, ret, leader, runVars, counts>>

(* Slip: the run is not cancelled. *)
CancelRun_Skip(p) ==
  /\ pc[p] = "cancel"
  /\ GoTo(p, IF op[p] = "delete" THEN "close" ELSE "free")
  /\ UNCHANGED <<objVars, dbVars, op, got, mine, rec, ret, leader, runVars, counts>>

CancelRun(p) ==
  /\ pc[p] = "cancel"
  /\ ctxDone' = [r \in Run |-> ctxDone[r] \/ r = cancel[got[p]]]
  /\ GoTo(p, IF op[p] = "delete" THEN "close" ELSE "free")
  /\ UNCHANGED <<objVars, dbVars, op, got, mine, rec, ret, leader, phase, runObj, base, lastFlushed, snap,
                 from, fresh, fired, counts>>

CloseDb(p) ==
  /\ pc[p] = "close"
  /\ closed' = TRUE
  /\ GoTo(p, IF load.cache /\ ~closed THEN "evict" ELSE "free")
  /\ UNCHANGED <<objVars, rows, deleted, title, cached, cache, op, got, mine, rec, ret, leader, runVars,
                 counts>>

(* UpdateSession checks that the record exists, then renames or deletes.     *)
UpdateExists(p) ==
  /\ pc[p] = "exists"
  /\ CallGet(p, "update")
  /\ UNCHANGED <<objVars, dbVars, op, got, mine, rec, leader, runVars, counts>>

Update(p) ==
  /\ pc[p] = "update"
  /\ title' = IF op[p] = "rename" THEN "user" ELSE title
  /\ GoTo(p, IF op[p] = "softdelete" THEN "softdb" ELSE IF load.cache THEN "invalidate" ELSE "free")
  /\ UNCHANGED <<objVars, rows, closed, deleted, cached, cache, op, got, mine, rec, ret, leader, runVars,
                 counts>>

(* A session that is soft-deleted already is not found.                      *)
SoftDelete(p) ==
  /\ pc[p] = "softdb"
  /\ deleted' = TRUE
  /\ GoTo(p, IF deleted THEN "free" ELSE IF load.cache THEN "evict" ELSE "unmap")
  /\ UNCHANGED <<objVars, rows, closed, title, cached, cache, op, got, mine, rec, ret, leader, runVars,
                 counts>>
-----------------------------------------------------------------------------
(* The background goroutine of a message *)

Promote(s, m) == IF Promoted(m) THEN Append(s, m) ELSE s
Rows(s) == FoldLeft(Promote, <<>>, s)
Rest(s, n) == SubSeq(s, n + 1, Len(s))
Later(m, n) == IF m > n THEN m ELSE n
Synced(r) == Later(base[r], lastFlushed[r])

AddRows(r, ms) ==
  /\ history' = [history EXCEPT ![runObj[r]] = @ \o ms]
  /\ nmsg' = nmsg + Len(ms)
  /\ fired' = [fired EXCEPT ![r] = @ + 1]
  /\ UNCHANGED <<live, nobj, busy, cancel, msgs, dbVars, reqVars, runObj, base, lastFlushed, ctxDone, from,
                 fresh, load, billed, nrun, nops, restarts, awake>>

(* fireLLM adds the prompt and the answer, both without an ID; the client    *)
(* records the call in its TokenLedger.                                      *)
FireLLM(r) ==
  /\ phase[r] = "run" /\ fired[r] < load.maxFirings
  /\ AddRows(r, <<[uid |-> nmsg + 1, id |-> 0, role |-> "user", parent |-> FALSE],
                  [uid |-> nmsg + 2, id |-> 0, role |-> "assistant", parent |-> FALSE]>>)
  /\ usage' = usage + 1
  /\ UNCHANGED <<phase, snap>>

(* fireHITL adds its surface and flushes before it waits.                    *)
FireHITL(r) ==
  /\ phase[r] = "run" /\ fired[r] < load.maxFirings
  /\ AddRows(r, <<[uid |-> nmsg + 1, id |-> nmsg + 1, role |-> "assistant", parent |-> FALSE]>>)
  /\ snap' = [snap EXCEPT ![r] = history'[runObj[r]]]
  /\ phase' = [phase EXCEPT ![r] = "flush"]
  /\ UNCHANGED usage

(* The human answers: a row that names the surface as its parent.            *)
AnswerHITL(r) ==
  /\ phase[r] = "run" /\ fired[r] < load.maxFirings
  /\ \E k \in (base[r] + 1)..Len(history[runObj[r]]) : history[runObj[r]][k].id # 0
  /\ AddRows(r, <<[uid |-> nmsg + 1, id |-> nmsg + 1, role |-> "user", parent |-> TRUE]>>)
  /\ UNCHANGED <<phase, snap, usage>>

(* The flush after a round of firings.                                       *)
BatchFlush(r) ==
  /\ phase[r] = "run" /\ Len(history[runObj[r]]) > Synced(r)
  /\ snap' = [snap EXCEPT ![r] = history[runObj[r]]]
  /\ phase' = [phase EXCEPT ![r] = "flush"]
  /\ UNCHANGED <<objVars, dbVars, reqVars, runObj, base, lastFlushed, ctxDone, from, fresh, fired, counts>>

(* Slip: lastFlushed is not advanced. *)
FlushSave_Stuck(r) ==
  /\ phase[r] = "flush"
  /\ from' = [from EXCEPT ![r] = Synced(r)]
  /\ AppendMessages("flush", Rows(Rest(snap[r], Synced(r))))
  /\ phase' = [phase EXCEPT ![r] = "add"]
  /\ UNCHANGED <<objVars, closed, deleted, title, cached, cache, reqVars, runObj, base, lastFlushed, ctxDone,
                 snap, fresh, fired, counts>>

(* flushHistory saves the rows after lastFlushed and moves it.  Flushes of a *)
(* run are taken one after the other; lastFlushed itself has no lock, and    *)
(* two gates that wait at the same time could flush together.                *)
FlushSave(r) ==
  /\ phase[r] = "flush"
  /\ from' = [from EXCEPT ![r] = Synced(r)]
  /\ AppendMessages("flush", Rows(Rest(snap[r], Synced(r))))
  /\ lastFlushed' = [lastFlushed EXCEPT ![r] = Len(snap[r])]
  /\ phase' = [phase EXCEPT ![r] = "add"]
  /\ UNCHANGED <<objVars, closed, deleted, title, cached, cache, reqVars, runObj, base, ctxDone, snap,
                 fresh, fired, counts>>

(* The flushed rows join the session's messages.                             *)
FlushAdd(r) ==
  /\ phase[r] = "add"
  /\ msgs' = [msgs EXCEPT ![runObj[r]] = @ \o Rows(Rest(snap[r], from[r]))]
  /\ snap' = [snap EXCEPT ![r] = <<>>]
  /\ phase' = [phase EXCEPT ![r] = "run"]
  /\ UNCHANGED <<live, nobj, busy, cancel, history, dbVars, reqVars, runObj, base, lastFlushed, ctxDone,
                 from, fresh, fired, counts>>

(* Run returns: with nil only after the flush of its last round.             *)
RunReturns(r) ==
  /\ phase[r] = "run"
  /\ \E res \in {"failed", "ok"} :
       /\ res = "ok" => Len(history[runObj[r]]) <= Synced(r)
       /\ phase' = [phase EXCEPT ![r] = res]
  /\ UNCHANGED <<objVars, dbVars, reqVars, runObj, base, lastFlushed, ctxDone, snap, from, fresh, fired,
                 counts>>

(* The rows that no flush has promoted; a row without an ID gets one.        *)
Named(m) == IF m.id = 0 THEN [m EXCEPT !.id = m.uid] ELSE m

Sync(r) ==
  /\ phase[r] \in {"failed", "ok"}
  /\ LET new == Rows(Rest(history[runObj[r]], Synced(r))) IN
       msgs' = [msgs EXCEPT ![runObj[r]] = @ \o [k \in DOMAIN new |-> Named(new[k])]]
  /\ phase' = [phase EXCEPT ![r] = IF @ = "ok" THEN "collect" ELSE "synced"]
  /\ UNCHANGED <<live, nobj, busy, cancel, history, dbVars, reqVars, runObj, base, lastFlushed, ctxDone,
                 snap, from, fresh, fired, counts>>

(* Terminal tokens become messages unless the answer was streamed.           *)
CollectOutput(r) ==
  /\ phase[r] = "collect"
  /\ \/ UNCHANGED <<msgs, nmsg>>
     \/ /\ nmsg' = nmsg + 1
        /\ msgs' = [msgs EXCEPT ![runObj[r]] =
             Append(@, [uid |-> nmsg', id |-> nmsg', role |-> "assistant", parent |-> FALSE])]
  /\ phase' = [phase EXCEPT ![r] = "synced"]
  /\ UNCHANGED <<live, nobj, busy, cancel, history, dbVars, reqVars, runObj, base, lastFlushed, ctxDone,
                 snap, from, fresh, fired, load, ledgerVars, nrun, nops, restarts, awake>>

SetIdle(r) ==
  /\ phase[r] = "synced"
  /\ busy' = [busy EXCEPT ![runObj[r]] = FALSE]
  /\ phase' = [phase EXCEPT ![r] = "idle"]
  /\ UNCHANGED <<live, nobj, cancel, msgs, history, dbVars, reqVars, runObj, base, lastFlushed, ctxDone,
                 snap, from, fresh, fired, counts>>

(* newMsgs := session.Messages()[historyLen:]                                *)
TakeNew(r) ==
  /\ phase[r] = "idle"
  /\ fresh' = [fresh EXCEPT ![r] = Rest(msgs[runObj[r]], base[r])]
  /\ phase' = [phase EXCEPT ![r] = "persist"]
  /\ UNCHANGED <<objVars, dbVars, reqVars, runObj, base, lastFlushed, ctxDone, snap, from, fired, counts>>

(* LedgerRepository.Record adds what it is given to the session's row.       *)
RecordUsage == \/ billed' = billed + usage
               \/ "after" \in load.faulty /\ UNCHANGED billed

(* Slip: only the messages of the terminal places are saved. *)
PersistAfterRun_Last(r) ==
  /\ phase[r] = "persist"
  /\ AppendMessages("after", IF fresh[r] = <<>> THEN <<>> ELSE Rows(<<Last(fresh[r])>>))
  /\ RecordUsage
  /\ phase' = [phase EXCEPT ![r] = "done"]
  /\ UNCHANGED <<objVars, closed, deleted, title, cached, cache, reqVars, runObj, base, lastFlushed,
                 ctxDone, snap, from, fresh, fired, load, usage, nrun, nmsg, nops, restarts, awake>>

(* The messages, and what the ledger has counted since the server started;   *)
(* the flow and the execution records are left out.                          *)
PersistAfterRun(r) ==
  /\ phase[r] = "persist"
  /\ AppendMessages("after", Rows(fresh[r]))
  /\ RecordUsage
  /\ phase' = [phase EXCEPT ![r] = "done"]
  /\ UNCHANGED <<objVars, closed, deleted, title, cached, cache, reqVars, runObj, base, lastFlushed,
                 ctxDone, snap, from, fresh, fired, load, usage, nrun, nmsg, nops, restarts, awake>>
-----------------------------------------------------------------------------
(* runAwakening: a card, or an error and none, with the LLM calls it made; a *)
(* snapshot of the last 24 hours gives a card without a call.                *)
runAwakening == [card : BOOLEAN, calls : 0..1]

(* runAwakeningAsync adds the card to the object CreateSession made, and     *)
(* appendAwakeningMessage saves it.                                          *)
Awaken ==
  /\ awake.at = "run"
  /\ \E a \in runAwakening :
       LET new == IF a.card THEN <<[uid |-> nmsg + 1, id |-> nmsg + 1, role |-> "assistant", parent |-> FALSE]>>
                  ELSE <<>>
       IN  /\ nmsg' = nmsg + Len(new)
           /\ msgs' = [msgs EXCEPT ![1] = @ \o new]
           /\ awake' = [at |-> IF a.card THEN "save" ELSE "done", new |-> new]
           /\ usage' = usage + a.calls
  /\ UNCHANGED <<live, nobj, busy, cancel, history, dbVars, reqVars, runVars, load, billed, nrun, nops, restarts>>

AwakenSave ==
  /\ awake.at = "save"
  /\ awake' = [at |-> "done", new |-> <<>>]
  /\ AppendMessages("awaken", awake.new)
  /\ UNCHANGED <<objVars, closed, deleted, title, cached, cache, reqVars, runVars, load, ledgerVars, nrun,
                 nmsg, nops, restarts>>

(* The process ends and starts again: what is in memory is gone.             *)
Restart ==
  /\ restarts < MaxRestarts
  /\ restarts' = restarts + 1
  /\ live' = 0 /\ busy' = [o \in Obj |-> FALSE] /\ cancel' = [o \in Obj |-> 0]
  /\ pc' = [p \in Proc |-> "free"] /\ leader' = {}
  /\ phase' = [r \in Run |-> IF phase[r] = "none" THEN "none" ELSE "dead"]
  /\ awake' = [at |-> "done", new |-> <<>>] /\ usage' = 0
  /\ UNCHANGED <<nobj, msgs, history, dbVars, op, got, mine, rec, ret, runObj, base, lastFlushed, ctxDone,
                 snap, from, fresh, fired, load, billed, nrun, nmsg, nops>>

(* The rows of a forked session: the first messages of its source, with new  *)
(* IDs and without ParentMessageID.                                          *)
ForkRows(n) ==
  [k \in 1..n |-> [uid |-> k, id |-> k, role |-> IF k % 2 = 1 THEN "user" ELSE "assistant", parent |-> FALSE]]

NoMessages == [o \in Obj |-> <<>>]

CreateSession ==
  /\ live = 1 /\ nobj = 1 /\ msgs = NoMessages
  /\ rows = <<>> /\ title = "" /\ nmsg = 0
  /\ cached = load.cache /\ cache = <<>>
  /\ awake = [at |-> IF load.awakening THEN "run" ELSE "done", new |-> <<>>]

(* The record that the repository returns, and Redis caches, does not have   *)
(* the messages that were copied: the session in memory begins without them. *)
ForkSession(n) ==
  /\ live = 1 /\ nobj = 1 /\ msgs = NoMessages
  /\ rows = ForkRows(n) /\ title = "fork" /\ nmsg = n
  /\ cached = load.cache /\ cache = <<>>
  /\ awake = [at |-> "done", new |-> <<>>]

Init ==
  /\ load \in Loads
  /\ IF load.fork = 0 THEN CreateSession ELSE ForkSession(load.fork)
  /\ busy = [o \in Obj |-> FALSE] /\ cancel = [o \in Obj |-> 0] /\ history = NoMessages
  /\ closed = FALSE /\ deleted = FALSE /\ usage = 0 /\ billed = 0
  /\ pc = [p \in Proc |-> "free"] /\ op = [p \in Proc |-> "get"]
  /\ got = [p \in Proc |-> 0] /\ mine = [p \in Proc |-> 0] /\ rec = [p \in Proc |-> <<>>]
  /\ ret = [p \in Proc |-> "free"] /\ leader = {}
  /\ phase = [r \in Run |-> "none"] /\ runObj = [r \in Run |-> 1] /\ base = [r \in Run |-> 0]
  /\ lastFlushed = [r \in Run |-> 0] /\ ctxDone = [r \in Run |-> FALSE]
  /\ snap = [r \in Run |-> <<>>] /\ from = [r \in Run |-> 0] /\ fresh = [r \in Run |-> <<>>]
  /\ fired = [r \in Run |-> 0]
  /\ nrun = 0 /\ nops = 0 /\ restarts = 0

Request(p) ==
  \/ CacheGet(p) \/ DbGet(p) \/ GetFails(p) \/ Fill(p) \/ Evict(p)
  \/ Lookup(p) \/ Build(p) \/ Insert(p)
  \/ Find(p) \/ Check(p) \/ AppendUser(p) \/ AppendUserDb(p) \/ AutoTitle(p)
  \/ ResetRoot(p) \/ Arm(p) \/ Launch(p)
  \/ Unmap(p) \/ CancelRun(p) \/ CloseDb(p) \/ UpdateExists(p) \/ Update(p) \/ SoftDelete(p)

RunStep(r) ==
  \/ FireLLM(r) \/ FireHITL(r) \/ AnswerHITL(r) \/ BatchFlush(r) \/ FlushSave(r) \/ FlushAdd(r)
  \/ RunReturns(r) \/ Sync(r) \/ CollectOutput(r) \/ SetIdle(r) \/ TakeNew(r) \/ PersistAfterRun(r)

Next ==
  \/ \E p \in Proc : Start(p) \/ Request(p)
  \/ \E r \in Run : RunStep(r)
  \/ Awaken \/ AwakenSave \/ CacheExpires \/ Restart

Spec == Init /\ [][Next]_vars
-----------------------------------------------------------------------------
(* Properties *)

Executing == {"run", "flush", "add", "failed", "ok", "collect", "synced"}

(* "Returns ErrSessionBusy if the CPN is already running for this session":  *)
(* no two background goroutines run the same Root.  (Clients that send       *)
(* concurrently pass the check together: it says nothing of them.)           *)
OneRun ==
  load.clients = 1 =>
  \A r, q \in Run : phase[r] \in Executing /\ phase[q] \in Executing /\ runObj[r] = runObj[q] => r = q

(* flushHistory and the sync after Run hand over every row of the run to the *)
(* session's messages exactly once, however flushes and failures interleave. *)
(* (Two clients may have two runs that reset and extend one history.)        *)
HandedOver ==
  load.clients = 1 =>
  \A r \in Run : phase[r] = "synced" =>
    LET h == history[runObj[r]] IN
    \A k \in (base[r] + 1)..Len(h) : Promoted(h[k]) =>
      Cardinality({j \in DOMAIN msgs[runObj[r]] : msgs[runObj[r]][j].uid = h[k].uid}) = 1

Saved(m) == \E k \in DOMAIN rows : rows[k].uid = m.uid

(* persistAfterRun: a message that has an ID is in the table once its run    *)
(* has been persisted, even if the flush during the run failed; only a       *)
(* failure of persistAfterRun's own writes loses it.  No LLM call is missing *)
(* from token_ledger then: when no run is under way it counts at least those *)
(* of this process ("Sync token usage from in-memory ledger"); those of an   *)
(* awakening have to wait for the next run.                                  *)
Durable ==
  "after" \notin load.faulty =>
  /\ \A r \in Run : phase[r] = "done" /\ ~closed =>
       \A k \in DOMAIN fresh[r] : Promoted(fresh[r][k]) /\ fresh[r][k].id # 0 => Saved(fresh[r][k])
  /\ ~load.awakening /\ (\A r \in Run : phase[r] \in {"none", "done", "dead"}) => billed >= usage

(* "the background goroutine ... will exit on context cancellation": a run   *)
(* whose session has left the maps is cancelled, or about to be.             *)
RemovedIsCancelled ==
  load.clients = 1 =>
  \A r \in Run : phase[r] = "run" /\ runObj[r] # live =>
    ctxDone[r] \/ \E p \in Proc : pc[p] = "cancel" /\ got[p] = runObj[r]

(* "replay message history so SessionInfo.Messages is not silently empty     *)
(* after a restart": whenever the server died, the session it rehydrates     *)
(* before anybody writes again has every saved message.  (With several       *)
(* clients one may send and another delete while a third rehydrates.)        *)
RehydratedComplete ==
  [][load.clients = 1 /\ ~load.cache /\ live = 0 /\ live' # 0 /\ restarts > 0
     /\ (\A r \in Run : phase[r] \in {"none", "dead"}) =>
       ToSet(rows) \subseteq ToSet(msgs[live'])]_live

=============================================================================
