---------------------------- MODULE ToolRegistry ----------------------------
(***************************************************************************)
(* The runtime tool registry: two in-memory indexes over the same entries  *)
(* (by qualified name, and by anchor with the versions in descending       *)
(* order) and, when a database is configured, the table behind them.       *)
(* RegisterEntry, Deprecate and Unregister look up under the lock, call    *)
(* the repository without it, and come back to the lock to change memory:  *)
(* other callers run in both gaps, and a repository call may fail, or take *)
(* effect and still report an error.  The callers are the register-tool    *)
(* transition and the awakening's batch, the admin API, and the rollback   *)
(* service, which deprecates the tool behind a binary it quarantines.      *)
(*                                                                         *)
(* The code compares entries by their pointers: an entry carries a "gen"   *)
(* that tells it from the other entries its name has had and that some     *)
(* caller still holds.  The lists hold the entries themselves, byQualified *)
(* the gen of the one a name stands for.                                   *)
(***************************************************************************)
EXTENDS Integers, Sequences, FiniteSets, SequencesExt

CONSTANTS
    Anchor,     \* namespace/name
    Builtin,    \* the anchors the server registers itself, at version 1
    Version,    \* numbers; the order CompareSemver gives
    Name,       \* the qualified names in use, pairs of anchor and version
    Binary,     \* binary paths of authored tools
    Caller,     \* goroutines in RegisterEntry, Deprecate or Unregister
    MaxFaults,  \* bound: repository calls that report an error
    MaxRestarts \* bound: restarts of the server

ASSUME RegistryAssumption ==
    /\ Builtin \subseteq Anchor
    /\ Version \subseteq Nat \ {0} /\ 1 \in Version
    /\ Name \subseteq Anchor \X Version /\ \A a \in Builtin : <<a, 1>> \in Name
    /\ IsFiniteSet(Name) /\ Name # {}
    /\ IsFiniteSet(Caller) /\ Caller # {}
    /\ MaxFaults \in Nat /\ MaxRestarts \in Nat

VARIABLES
    durable,        \* a repository is wired
    byQualified,    \* qualified name -> gen of its entry, or 0
    byAnchor,       \* anchor -> entries [v, gen, origin, path, dep], highest version first
    repo,           \* the tools table: qualified name -> [gen, path, dep], or NoRow
    call,           \* per caller: [pc, qn, gen, path]
    faults, restarts,
    raced,          \* a call came back to find its entry, or its row, replaced
    doubt,          \* a repository call took effect and reported an error
    flagged         \* names whose Deprecate succeeded, until their row is replaced

vars == <<durable, byQualified, byAnchor, repo, call, faults, restarts,
          raced, doubt, flagged>>

\* An entry that is held by a caller but no longer registered keeps its gen.
Gen == 1..(Cardinality(Caller) + 1)

NoRow == [gen |-> 0, path |-> "none", dep |-> FALSE]

IdleCall == [pc |-> "idle", qn |-> CHOOSE n \in Name : TRUE, gen |-> 0, path |-> "none"]

Entry == [v : Version, gen : Gen, origin : {"builtin", "agent-authored"},
          path : Binary \union {"go"}, dep : BOOLEAN]

Pc == {"idle", "upsert", "insert", "flag", "mark", "delete", "remove"}

TypeOK ==
    /\ durable \in BOOLEAN /\ raced \in BOOLEAN /\ doubt \in BOOLEAN
    /\ byQualified \in [Name -> Gen \union {0}]
    /\ byAnchor \in [Anchor -> Seq(Entry)]
    /\ repo \in [Name -> [gen : Gen \union {0}, path : Binary \union {"none"}, dep : BOOLEAN]]
    /\ call \in [Caller -> [pc : Pc, qn : Name, gen : Gen \union {0},
                            path : Binary \union {"none"}]]
    /\ faults \in 0..MaxFaults /\ restarts \in 0..MaxRestarts
    /\ flagged \subseteq Name

----------------------------------------------------------------------------
(* The indexes                                                             *)

\* The list is in order before: the new entry goes in front of the first lower one.
appendSortedDesc(list, e) ==
    LET i == SelectInSeq(list, LAMBDA x : x.v < e.v)
    IN  InsertAt(list, IF i = 0 THEN Len(list) + 1 ELSE i, e)

insertLocked(n, e) ==
    /\ byQualified' = [byQualified EXCEPT ![n] = e.gen]
    /\ byAnchor' = [byAnchor EXCEPT ![n[1]] = appendSortedDesc(@, e)]

\* removeLocked drops the name, and this very entry, if it is still there, from
\* its anchor's list.
Without(list, v, gen) ==
    LET i == SelectInSeq(list, LAMBDA x : x.v = v /\ x.gen = gen)
    IN  IF i = 0 THEN list ELSE RemoveAt(list, i)

removeLocked(n, gen) ==
    /\ byQualified' = [byQualified EXCEPT ![n] = 0]
    /\ byAnchor' = [byAnchor EXCEPT ![n[1]] = Without(@, n[2], gen)]

Listed(n) == {x \in Range(byAnchor[n[1]]) : x.v = n[2]}

\* The entry a name stands for.
EntryOf(n) == CHOOSE x \in Listed(n) : x.gen = byQualified[n]

FreeGens(n) == Gen \ ({x.gen : x \in Listed(n)} \union {call[c].gen : c \in {d \in Caller : call[d].qn = n}})

FreshGen(n) == CHOOSE g \in FreeGens(n) : \A h \in FreeGens(n) : g <= h

----------------------------------------------------------------------------
(* Reading                                                                 *)

\* AsLLMTools: what the model is offered.
AsLLMTools == {n \in Name : \E x \in Listed(n) : ~x.dep}

\* toolRegistryDeprecator.LookupByBinaryPath: the first match of ListFiltered,
\* which is in the order of anchors and, within one, of descending versions.
LookupByBinaryPath(p) ==
    {n \in Name : \E i \in DOMAIN byAnchor[n[1]] :
        LET list == byAnchor[n[1]] IN
        /\ list[i].v = n[2] /\ list[i].path = p
        /\ \A j \in 1..(i - 1) : list[j].path # p}

----------------------------------------------------------------------------
(* Start-up: Bootstrap reads the table, the builtins are registered, the   *)
(* system namespace is sealed; nothing else runs meanwhile.                *)

fromPersistEntry_Fresh(n, row) ==
    [v |-> n[2], gen |-> 1, origin |-> "agent-authored", path |-> row.path, dep |-> FALSE]

fromPersistEntry(n, row) ==
    [v |-> n[2], gen |-> 1, origin |-> "agent-authored", path |-> row.path, dep |-> row.dep]

\* A builtin gets its name even when the table has a row of that name.
Register == [v |-> 1, gen |-> 2, origin |-> "builtin", path |-> "go", dep |-> FALSE]

Stored(table, a) ==
    {fromPersistEntry(n, table[n]) : n \in {m \in Name : m[1] = a /\ durable /\ table[m] # NoRow}}

AtStart(table, a) == Stored(table, a) \union (IF a \in Builtin THEN {Register} ELSE {})

Before(x, y) == x.v > y.v \/ (x.v = y.v /\ x.gen < y.gen)

IsInOrder(l, S) ==
    /\ l \in [1..Cardinality(S) -> S] /\ Range(l) = S
    /\ \A i, j \in 1..Cardinality(S) : i < j => Before(l[i], l[j])

\* The list that inserting the entries of S one after the other leaves.
InOrder(S) == CHOOSE l \in [1..Cardinality(S) -> S] : IsInOrder(l, S)

Bootstrap(table) ==
    /\ byAnchor' = [a \in Anchor |-> InOrder(AtStart(table, a))]
    /\ byQualified' = [n \in Name |->
              IF n[1] \in Builtin /\ n[2] = 1 THEN 2
              ELSE IF durable /\ table[n] # NoRow THEN 1 ELSE 0]

Init ==
    /\ durable \in BOOLEAN
    /\ byQualified = [n \in Name |-> 0]
    /\ byAnchor = [a \in Anchor |-> <<>>]
    /\ repo = [n \in Name |-> NoRow]
    /\ call = [c \in Caller |-> IdleCall]
    /\ faults = 0 /\ restarts = 0
    /\ raced = FALSE /\ doubt = FALSE /\ flagged = {}

\* The server stops, in the middle of any call, and starts again.
Restart ==
    /\ restarts < MaxRestarts
    /\ restarts' = restarts + 1
    /\ Bootstrap(repo)
    /\ call' = [c \in Caller |-> IdleCall]
    /\ repo' = [n \in Name |-> IF repo[n] = NoRow THEN NoRow ELSE [repo[n] EXCEPT !.gen = 1]]
    /\ flagged' = IF durable THEN flagged ELSE {}
    /\ UNCHANGED <<durable, faults, raced, doubt>>

----------------------------------------------------------------------------
(* RegisterEntry                                                           *)

Started == restarts > 0

Return(c) == call' = [call EXCEPT ![c] = IdleCall]

Goto(c, pc) == call' = [call EXCEPT ![c].pc = pc]

\* The repository call of a step: it does "effect", or fails; a failed one may
\* have taken effect all the same.
RepoFails(effect) ==
    /\ faults < MaxFaults
    /\ faults' = faults + 1
    /\ \/ UNCHANGED <<repo, doubt>>
       \/ repo' = effect /\ doubt' = TRUE

\* The duplicate check under the lock; the new entry is still private.
RegisterEntry(c, n, p) ==
    /\ Started
    /\ call[c].pc = "idle"
    /\ byQualified[n] = 0
    /\ FreeGens(n) # {}     \* bound
    /\ call' = [call EXCEPT ![c] = [pc |-> IF durable THEN "upsert" ELSE "insert",
                                    qn |-> n, gen |-> FreshGen(n), path |-> p]]
    /\ UNCHANGED <<durable, byQualified, byAnchor, repo, faults, restarts, raced, doubt, flagged>>

\* Upsert, which despite its name refuses a row that is there.
Upsert(c) ==
    LET n == call[c].qn  row == [gen |-> call[c].gen, path |-> call[c].path, dep |-> FALSE] IN
    /\ call[c].pc = "upsert"
    /\ \/ /\ repo[n] # NoRow
          /\ Return(c)
          /\ UNCHANGED <<repo, doubt, faults>>
       \/ /\ repo[n] = NoRow
          /\ repo' = [repo EXCEPT ![n] = row]
          /\ Goto(c, "insert")
          /\ UNCHANGED <<doubt, faults>>
       \/ /\ repo[n] = NoRow
          /\ RepoFails([repo EXCEPT ![n] = row])
          /\ Return(c)
    /\ flagged' = IF repo'[n] = repo[n] THEN flagged ELSE flagged \ {n}
    /\ UNCHANGED <<durable, byQualified, byAnchor, restarts, raced>>

Authored(c) ==
    [v |-> call[c].qn[2], gen |-> call[c].gen, origin |-> "agent-authored",
     path |-> call[c].path, dep |-> FALSE]

Insert_NoRecheck(c) ==
    /\ call[c].pc = "insert"
    /\ insertLocked(call[c].qn, Authored(c))
    /\ flagged' = flagged \ {call[c].qn}
    /\ Return(c)
    /\ UNCHANGED <<durable, repo, faults, restarts, raced, doubt>>

\* The second check: another caller may have registered the name meanwhile.
\* With a repository that leaves this caller's row in the table.
Insert(c) ==
    LET n == call[c].qn IN
    /\ call[c].pc = "insert"
    /\ \/ /\ byQualified[n] # 0
          /\ raced' = (raced \/ durable)
          /\ UNCHANGED <<byQualified, byAnchor, flagged>>
       \/ /\ byQualified[n] = 0
          /\ insertLocked(n, Authored(c))
          /\ flagged' = flagged \ {n}
          /\ UNCHANGED raced
    /\ Return(c)
    /\ UNCHANGED <<durable, repo, faults, restarts, doubt>>

----------------------------------------------------------------------------
(* Deprecate                                                               *)

DeprecateOf(c, n) ==
    /\ Started
    /\ call[c].pc = "idle"
    /\ byQualified[n] # 0
    /\ call' = [call EXCEPT ![c] = [pc |-> IF durable THEN "flag" ELSE "mark",
                                    qn |-> n, gen |-> byQualified[n], path |-> "none"]]
    /\ UNCHANGED <<durable, byQualified, byAnchor, repo, faults, restarts,
                   raced, doubt, flagged>>

\* The admin API.
Deprecate(c, n) == DeprecateOf(c, n)

\* The rollback service, for a binary it has just quarantined.
deprecateTools(c, p) ==
    \E n \in LookupByBinaryPath(p) : DeprecateOf(c, n)

\* The row the statement changes is another entry's: the statement names only
\* the qualified name.
NotOwn(c) == repo[call[c].qn] # NoRow /\ repo[call[c].qn].gen # call[c].gen

\* The table first; a name without a row (a builtin) is reported not found.
RepoDeprecate(c) ==
    LET n == call[c].qn IN
    /\ call[c].pc = "flag"
    /\ \/ /\ repo[n] = NoRow
          /\ Return(c)
          /\ UNCHANGED <<repo, doubt, faults>>
       \/ /\ repo[n] # NoRow
          /\ repo' = [repo EXCEPT ![n].dep = TRUE]
          /\ Goto(c, "mark")
          /\ UNCHANGED <<doubt, faults>>
       \/ /\ repo[n] # NoRow
          /\ RepoFails([repo EXCEPT ![n].dep = TRUE])
          /\ Return(c)
    /\ raced' = (raced \/ NotOwn(c))
    /\ UNCHANGED <<durable, byQualified, byAnchor, restarts, flagged>>

Marked(list, v, gen) ==
    [i \in DOMAIN list |->
        IF list[i].v = v /\ list[i].gen = gen THEN [list[i] EXCEPT !.dep = TRUE] ELSE list[i]]

\* Then the entry that was looked up at the start, registered or not.
MarkDeprecated(c) ==
    LET n == call[c].qn IN
    /\ call[c].pc = "mark"
    /\ byAnchor' = [byAnchor EXCEPT ![n[1]] = Marked(@, n[2], call[c].gen)]
    /\ raced' = (raced \/ byQualified[n] # call[c].gen)
    /\ flagged' = IF durable /\ ~repo[n].dep THEN flagged ELSE flagged \union {n}
    /\ Return(c)
    /\ UNCHANGED <<durable, byQualified, repo, faults, restarts, doubt>>

----------------------------------------------------------------------------
(* Unregister                                                              *)

Unregister(c, n) ==
    /\ Started
    /\ call[c].pc = "idle"
    /\ byQualified[n] # 0
    /\ EntryOf(n).origin = "agent-authored"
    /\ call' = [call EXCEPT ![c] = [pc |-> IF durable THEN "delete" ELSE "remove",
                                    qn |-> n, gen |-> byQualified[n], path |-> "none"]]
    /\ UNCHANGED <<durable, byQualified, byAnchor, repo, faults, restarts,
                   raced, doubt, flagged>>

RepoDelete_Ignored(c) ==
    /\ call[c].pc = "delete"
    /\ \/ /\ repo' = [repo EXCEPT ![call[c].qn] = NoRow]
          /\ UNCHANGED <<doubt, faults>>
       \/ RepoFails([repo EXCEPT ![call[c].qn] = NoRow])
    /\ Goto(c, "remove")
    /\ UNCHANGED <<durable, byQualified, byAnchor, restarts, raced, flagged>>

RepoDelete(c) ==
    LET n == call[c].qn IN
    /\ call[c].pc = "delete"
    /\ \/ /\ repo[n] = NoRow
          /\ Return(c)
          /\ UNCHANGED <<repo, doubt, faults>>
       \/ /\ repo[n] # NoRow
          /\ repo' = [repo EXCEPT ![n] = NoRow]
          /\ Goto(c, "remove")
          /\ UNCHANGED <<doubt, faults>>
       \/ /\ repo[n] # NoRow
          /\ RepoFails([repo EXCEPT ![n] = NoRow])
          /\ Return(c)
    /\ raced' = (raced \/ NotOwn(c))
    /\ UNCHANGED <<durable, byQualified, byAnchor, restarts, flagged>>

RemoveEntry(c) ==
    /\ call[c].pc = "remove"
    /\ removeLocked(call[c].qn, call[c].gen)
    /\ raced' = (raced \/ byQualified[call[c].qn] # call[c].gen)
    /\ flagged' = flagged \ {call[c].qn}
    /\ Return(c)
    /\ UNCHANGED <<durable, repo, faults, restarts, doubt>>

----------------------------------------------------------------------------

Step(c) ==
    \/ \E n \in Name, p \in Binary : RegisterEntry(c, n, p)
    \/ Upsert(c) \/ Insert(c)
    \/ \E n \in Name : Deprecate(c, n)
    \/ \E p \in Binary : deprecateTools(c, p)
    \/ RepoDeprecate(c) \/ MarkDeprecated(c)
    \/ \E n \in Name : Unregister(c, n)
    \/ RepoDelete(c) \/ RemoveEntry(c)

Next == Restart \/ \E c \in Caller : Step(c)

Spec == Init /\ [][Next]_vars

----------------------------------------------------------------------------
(* Properties                                                              *)

AtRest == \A c \in Caller : call[c].pc = "idle"

\* The two indexes never disagree: a name and its anchor's list hold the same
\* entry, once, and the lists are in descending order of version, whichever
\* callers registered, deprecated or removed it meanwhile.
IndexesAgree ==
    ~raced =>
        \A a \in Anchor :
            LET list == byAnchor[a] IN
            /\ \A n \in Name : n[1] = a /\ byQualified[n] # 0 =>
                  \E i \in DOMAIN list : list[i].v = n[2] /\ list[i].gen = byQualified[n]
            /\ \A i \in DOMAIN list : byQualified[<<a, list[i].v>>] = list[i].gen
            /\ \A i, j \in DOMAIN list : i < j => list[i].v > list[j].v

\* With no call in flight the table and the memory hold the same authored tools
\* with the same flags, so that a restart would change nothing.
RestartKeeps ==
    Started /\ durable /\ AtRest /\ ~raced /\ ~doubt =>
        \A n \in Name :
            IF repo[n] = NoRow
            THEN byQualified[n] # 0 => EntryOf(n).origin = "builtin"
            ELSE /\ byQualified[n] # 0
                 /\ EntryOf(n).path = repo[n].path
                 /\ EntryOf(n).dep = repo[n].dep

\* A tool whose deprecation was acknowledged is not offered to the model again,
\* by later registrations or after any restart, until it is registered anew.
DeprecatedStays == ~raced => AsLLMTools \intersect flagged = {}
=============================================================================
