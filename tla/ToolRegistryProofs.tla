------------------------- MODULE ToolRegistryProofs -------------------------
(***************************************************************************)
(* Proofs about ToolRegistry, for every set of names, callers and bounds:  *)
(* its types; that the two indexes agree; that a deprecated tool stays     *)
(* deprecated; and that a restart keeps the authored tools.                *)
(*                                                                         *)
(* What a call in flight knows of its entry carries them: a call holds a   *)
(* gen, and while it waits between its locked sections and its repository  *)
(* call the row and the registered entry relate to that gen.               *)
(***************************************************************************)
EXTENDS ToolRegistry, SequenceTheorems, FiniteSetTheorems, WellFoundedInduction, TLAPS

(* A call about to register holds its own entry; any call holds one.        *)
CallShape ==
  \A c \in Caller :
    /\ call[c].pc # "idle" => call[c].gen \in Gen /\ Started
    /\ call[c].pc \in {"upsert", "insert"} => call[c].path \in Binary
    /\ call[c].pc \in {"upsert", "flag", "delete"} => durable

(* A row is that of an entry.                                               *)
RowShape == \A n \in Name : repo[n] # NoRow => repo[n].gen \in Gen /\ repo[n].path \in Binary

(* A listed entry's name is one of the names.                               *)
ListedNames == \A a \in Anchor : \A x \in Range(byAnchor[a]) : <<a, x.v>> \in Name

(* A builtin stays registered, has no row, and nobody registers or removes it. *)
BuiltinName(n) == n[1] \in Builtin /\ n[2] = 1

BuiltinsKept ==
  \A n \in Name : BuiltinName(n) =>
    /\ Started => /\ byQualified[n] = 2
                  /\ \E x \in Listed(n) : x.gen = 2
                  /\ \A x \in Listed(n) : x.origin = "builtin"
    /\ repo[n] = NoRow
    /\ \A c \in Caller : call[c].qn = n => call[c].pc \in {"idle", "flag", "mark"}

(* The versions descend strictly.                                           *)
Strict(l) == \A i, j \in DOMAIN l : i < j => l[i].v > l[j].v

Sorted == ~raced => \A a \in Anchor : Strict(byAnchor[a])

(* A name's listed entries are the one the name stands for.                 *)
Once ==
  ~raced => \A n \in Name :
    /\ \A x \in Listed(n) : x.gen = byQualified[n]
    /\ byQualified[n] # 0 => Listed(n) # {}

(* Acknowledged deprecations are in the table as well.                      *)
FlaggedRows ==
  durable => \A n \in flagged : (repo[n] = NoRow \/ repo[n].dep) /\ ~BuiltinName(n)

(* A deprecated name's registered entries carry the flag.                   *)
FlaggedListed == ~raced => \A n \in flagged : \A x \in Listed(n) : x.dep

(* An entry still to be inserted is nobody else's.                          *)
OwnGen ==
  ~raced => \A c \in Caller : call[c].pc \in {"upsert", "insert"} =>
    /\ \A x \in Listed(call[c].qn) : x.gen # call[c].gen
    /\ \A d \in Caller \ {c} :
         call[d].qn = call[c].qn /\ call[d].pc # "idle" => call[d].gen # call[c].gen

(* What a name's row, its registered entry and the calls on it say of each  *)
(* other when the table is in use.                                          *)
At(n, pc, gen) == \E c \in Caller : call[c].pc = pc /\ call[c].qn = n /\ call[c].gen = gen

(* The registered entry is the row's, but perhaps for a flag that a call is *)
(* about to set.                                                            *)
SameEntry(n) ==
  /\ byQualified[n] = repo[n].gen
  /\ \A x \in Listed(n) :
       /\ x.path = repo[n].path
       /\ x.dep = repo[n].dep \/ (repo[n].dep /\ At(n, "mark", repo[n].gen))

(* The row's entry is about to be inserted, another perhaps to be removed.  *)
Arriving(n) ==
  /\ At(n, "insert", repo[n].gen)
  /\ byQualified[n] = 0 \/ At(n, "remove", byQualified[n])

(* Without a row the name is free, a builtin's, or about to be free.        *)
Leaving(n) == byQualified[n] = 0 \/ BuiltinName(n) \/ At(n, "remove", byQualified[n])

RowFollows(n) == IF repo[n] = NoRow THEN Leaving(n) ELSE SameEntry(n) \/ Arriving(n)

(* What the row of a call's name says of its gen.                           *)
CallFollows(c) ==
  LET row == repo[call[c].qn] IN
  /\ call[c].pc = "insert" => row = [gen |-> call[c].gen, path |-> call[c].path, dep |-> FALSE]
  /\ call[c].pc = "mark" /\ row.gen = call[c].gen => row.dep
  /\ call[c].pc = "remove" => row.gen # call[c].gen

TableFollows ==
  Started /\ durable /\ ~raced /\ ~doubt =>
    (\A n \in Name : RowFollows(n)) /\ (\A c \in Caller : CallFollows(c))

-----------------------------------------------------------------------------
(* Lists                                                                    *)

(* A set of subsets of a finite set has a minimal element, so there is no   *)
(* smallest subset for which a claim fails.                                 *)
LEMMA MinimalSubset ==
  ASSUME NEW S, IsFiniteSet(S), NEW T \in SUBSET (SUBSET S), T # {}
  PROVE  \E x \in T : \A y \in T : ~ (y \subseteq x /\ y # x)
<1>1. SUBSET S = FiniteSubsetsOf(S)
  BY FS_FiniteSubsetsOfFinite
<1>2. \E x \in T : \A y \in T : ~ (<<y, x>> \in StrictSubsetOrdering(S))
  BY <1>1, WFMin, FS_StrictSubsetOrderingWellFounded
<1> QED
  BY <1>2 DEF StrictSubsetOrdering

(* Of some numbers up to n one is the least: the intervals below them are   *)
(* subsets of 1..n.                                                         *)
LEMMA Least ==
  ASSUME NEW n \in Nat, NEW I \in SUBSET (1..n), I # {}
  PROVE  \E x \in I : \A y \in I : x <= y
<1>1. PICK S : S = 1..n
  OBVIOUS
<1>2. IsFiniteSet(S)
  BY <1>1, FS_Interval
<1>3. PICK T : T = {1..k : k \in I}
  OBVIOUS
<1>4. T \in SUBSET (SUBSET S) /\ T # {}
  <2>1. ASSUME NEW k \in I PROVE 1..k \in SUBSET S
    <3>1. k \in 1..n
      OBVIOUS
    <3> QED
      BY <3>1, <1>1
  <2> QED
    BY <2>1, <1>3
<1>5. PICK s \in T : \A y \in T : ~ (y \subseteq s /\ y # s)
  BY <1>2, <1>4, MinimalSubset
<1>6. PICK x \in I : s = 1..x
  BY <1>3
<1>7. ASSUME NEW y \in I, y < x PROVE FALSE
  <2>1. 1..y \in T /\ 1..y \subseteq 1..x /\ x \in 1..x /\ x \notin 1..y
    BY <1>3, <1>7
  <2> QED
    BY <2>1, <1>5, <1>6
<1> QED
  BY <1>7

LEMMA MinLeast ==
  ASSUME NEW n \in Nat, NEW I \in SUBSET (1..n), I # {}
  PROVE  Min(I) \in I /\ \A y \in I : Min(I) <= y
BY Least DEF Min

(* What inserting and removing at a position does.                          *)
LEMMA InsertShape ==
  ASSUME NEW S, NEW l \in Seq(S), NEW e \in S, NEW i \in 1..(Len(l) + 1)
  PROVE  /\ InsertAt(l, i, e) \in Seq(S)
         /\ Len(InsertAt(l, i, e)) = Len(l) + 1
         /\ \A k \in 1..(Len(l) + 1) :
              InsertAt(l, i, e)[k] = IF k < i THEN l[k] ELSE IF k = i THEN e ELSE l[k - 1]
<1> DEFINE a == SubSeq(l, 1, i - 1)
           b == SubSeq(l, i, Len(l))
<1>1. Len(l) \in Nat /\ \A k \in 1..Len(l) : l[k] \in S
  OBVIOUS
<1>2. /\ a \in Seq(S) /\ Len(a) = i - 1
      /\ \A k \in 1..(i - 1) : a[k] = l[k]
  BY <1>1, SubSeqProperties
<1>3. /\ b \in Seq(S) /\ Len(b) = Len(l) - i + 1
      /\ \A k \in 1..(Len(l) - i + 1) : b[k] = l[i + k - 1]
  <2>1. \A k \in i..Len(l) : l[k] \in S
    BY <1>1
  <2> QED
    BY <1>1, <2>1, SubSeqProperties
<1>4. <<e>> \in Seq(S) /\ Len(<<e>>) = 1 /\ <<e>>[1] = e
  OBVIOUS
<1> HIDE DEF a, b
<1>5. /\ a \o <<e>> \in Seq(S) /\ Len(a \o <<e>>) = i
      /\ \A k \in 1..i : (a \o <<e>>)[k] = IF k < i THEN l[k] ELSE e
  <2>1. /\ a \o <<e>> \in Seq(S) /\ Len(a \o <<e>>) = Len(a) + 1
        /\ \A k \in 1..(Len(a) + 1) : (a \o <<e>>)[k] = IF k <= Len(a) THEN a[k] ELSE <<e>>[k - Len(a)]
    BY <1>2, <1>4, ConcatProperties
  <2>2. Len(a) = i - 1 /\ Len(a) + 1 = i /\ i \in Int
    BY <1>2, <1>1
  <2>3. ASSUME NEW k \in 1..i PROVE (a \o <<e>>)[k] = IF k < i THEN l[k] ELSE e
    <3>1. CASE k < i
      BY <3>1, <2>1, <2>2, <1>2
    <3>2. CASE k = i
      <4>1. (a \o <<e>>)[i] = <<e>>[i - (i - 1)] /\ i - (i - 1) = 1
        BY <2>1, <2>2
      <4>2. (a \o <<e>>)[i] = e
        BY <4>1, <1>4, Zenon
      <4> QED
        BY <4>2, <3>2, <2>2
    <3> QED
      BY <3>1, <3>2, <2>2
  <2> QED
    BY <2>1, <2>2, <2>3
<1>6. /\ (a \o <<e>>) \o b \in Seq(S) /\ Len((a \o <<e>>) \o b) = Len(l) + 1
      /\ \A k \in 1..(Len(l) + 1) :
           ((a \o <<e>>) \o b)[k] = IF k <= i THEN (a \o <<e>>)[k] ELSE b[k - i]
  <2> DEFINE u == a \o <<e>>
  <2>1. u \in Seq(S) /\ Len(u) = i
    BY <1>5
  <2> HIDE DEF u
  <2>2. /\ u \o b \in Seq(S) /\ Len(u \o b) = Len(u) + Len(b)
        /\ \A k \in 1..(Len(u) + Len(b)) : (u \o b)[k] = IF k <= Len(u) THEN u[k] ELSE b[k - Len(u)]
    BY <2>1, <1>3, ConcatProperties
  <2>3. Len(u) + Len(b) = Len(l) + 1
    BY <2>1, <1>1, <1>3
  <2> QED
    BY <2>1, <2>2, <2>3 DEF u
<1>7. InsertAt(l, i, e) = (a \o <<e>>) \o b
  BY DEF InsertAt, a, b
<1>8. ASSUME NEW k \in 1..(Len(l) + 1)
      PROVE  ((a \o <<e>>) \o b)[k] = IF k < i THEN l[k] ELSE IF k = i THEN e ELSE l[k - 1]
  <2>1. CASE k <= i
    BY <2>1, <1>5, <1>6
  <2>2. CASE k > i
    <3>1. k - i \in 1..(Len(l) - i + 1) /\ i + (k - i) - 1 = k - 1
      BY <2>2, <1>1
    <3> QED
      BY <2>2, <3>1, <1>3, <1>6
  <2>3. k <= i \/ k > i
    BY <1>1
  <2> QED
    BY <2>1, <2>2, <2>3, Zenon
<1> QED
  BY <1>6, <1>7, <1>8

LEMMA RemoveShape ==
  ASSUME NEW S, NEW l \in Seq(S), NEW i \in 1..Len(l)
  PROVE  /\ RemoveAt(l, i) \in Seq(S)
         /\ Len(RemoveAt(l, i)) = Len(l) - 1
         /\ \A k \in 1..(Len(l) - 1) : RemoveAt(l, i)[k] = IF k < i THEN l[k] ELSE l[k + 1]
<1> DEFINE a == SubSeq(l, 1, i - 1)
           b == SubSeq(l, i + 1, Len(l))
<1>1. Len(l) \in Nat /\ \A k \in 1..Len(l) : l[k] \in S
  OBVIOUS
<1>2. /\ a \in Seq(S) /\ Len(a) = i - 1
      /\ \A k \in 1..(i - 1) : a[k] = l[k]
  BY <1>1, SubSeqProperties
<1>3. /\ b \in Seq(S) /\ Len(b) = Len(l) - i
      /\ \A k \in 1..(Len(l) - i) : b[k] = l[i + k]
  <2>1. \A k \in (i + 1)..Len(l) : l[k] \in S
    BY <1>1
  <2>2. /\ SubSeq(l, i + 1, Len(l)) \in Seq(S)
        /\ Len(SubSeq(l, i + 1, Len(l))) = IF i + 1 <= Len(l) THEN Len(l) - (i + 1) + 1 ELSE 0
        /\ \A k \in 1..(Len(l) - (i + 1) + 1) : SubSeq(l, i + 1, Len(l))[k] = l[(i + 1) + k - 1]
    BY <1>1, <2>1, SubSeqProperties
  <2> QED
    BY <1>1, <2>2
<1> HIDE DEF a, b
<1>4. /\ a \o b \in Seq(S) /\ Len(a \o b) = Len(l) - 1
      /\ \A k \in 1..(Len(l) - 1) : (a \o b)[k] = IF k <= i - 1 THEN a[k] ELSE b[k - (i - 1)]
  <2>1. /\ a \o b \in Seq(S) /\ Len(a \o b) = Len(a) + Len(b)
        /\ \A k \in 1..(Len(a) + Len(b)) : (a \o b)[k] = IF k <= Len(a) THEN a[k] ELSE b[k - Len(a)]
    BY <1>2, <1>3, ConcatProperties
  <2>2. Len(a) + Len(b) = Len(l) - 1
    BY <1>1, <1>2, <1>3
  <2> QED
    BY <2>1, <2>2, <1>2
<1>5. RemoveAt(l, i) = a \o b
  BY DEF RemoveAt, a, b
<1>6. ASSUME NEW k \in 1..(Len(l) - 1)
      PROVE  (a \o b)[k] = IF k < i THEN l[k] ELSE l[k + 1]
  <2>1. CASE k < i
    BY <2>1, <1>2, <1>4, <1>1
  <2>2. CASE k >= i
    <3>1. k - (i - 1) \in 1..(Len(l) - i) /\ i + (k - (i - 1)) = k + 1
      BY <2>2, <1>1
    <3> QED
      BY <2>2, <3>1, <1>3, <1>4
  <2>3. k < i \/ k >= i
    BY <1>1
  <2> QED
    BY <2>1, <2>2, <2>3, Zenon
<1> QED
  BY <1>4, <1>5, <1>6

LEMMA EntryVersion == \A x \in Entry : x.v \in Nat /\ x.gen \in Nat \ {0}
<1>1. Cardinality(Caller) \in Nat
  BY RegistryAssumption, FS_CardinalityType
<1>2. Gen \subseteq Nat \ {0} /\ Version \subseteq Nat
  BY <1>1, RegistryAssumption DEF Gen
<1> QED
  BY <1>2 DEF Entry

LEMMA AppendedAt ==
  ASSUME NEW l \in Seq(Entry), NEW e \in Entry
  PROVE  \E i \in 1..(Len(l) + 1) :
           /\ appendSortedDesc(l, e) = InsertAt(l, i, e)
           /\ \A k \in 1..Len(l) : k < i => l[k].v >= e.v
           /\ i <= Len(l) => l[i].v < e.v
<1> DEFINE I == {i \in 1..Len(l) : l[i].v < e.v}
           s == IF I # {} THEN Min(I) ELSE 0
<1>1. /\ Len(l) \in Nat /\ e.v \in Nat
      /\ \A k \in 1..Len(l) : l[k].v \in Nat
  BY EntryVersion
<1>2. appendSortedDesc(l, e) = InsertAt(l, IF s = 0 THEN Len(l) + 1 ELSE s, e)
  BY DEF appendSortedDesc, SelectInSeq
<1>3. CASE I = {}
  BY <1>1, <1>2, <1>3
<1>4. CASE I # {}
  <2>1. Min(I) \in I /\ \A y \in I : Min(I) <= y
    <3>1. I \in SUBSET (1..Len(l))
      OBVIOUS
    <3> HIDE DEF I
    <3> QED
      BY <1>1, <1>4, <3>1, MinLeast
  <2>2. PICK i \in 1..Len(l) : i = Min(I) /\ l[i].v < e.v
    BY <2>1
  <2>3. \A k \in 1..Len(l) : k < i => l[k].v >= e.v
    BY <1>1, <2>1, <2>2
  <2>4. appendSortedDesc(l, e) = InsertAt(l, i, e)
    BY <1>1, <1>2, <1>4, <2>2
  <2>5. i \in 1..(Len(l) + 1)
    BY <1>1
  <2> HIDE DEF I, s
  <2> QED
    BY <2>2, <2>3, <2>4, <2>5
<1> QED
  BY <1>3, <1>4

LEMMA AppendSorted ==
  ASSUME NEW l \in Seq(Entry), NEW e \in Entry
  PROVE  /\ appendSortedDesc(l, e) \in Seq(Entry)
         /\ Range(appendSortedDesc(l, e)) = Range(l) \union {e}
         /\ Strict(l) /\ (\A x \in Range(l) : x.v # e.v) => Strict(appendSortedDesc(l, e))
<1>1. PICK i \in 1..(Len(l) + 1) :
        /\ appendSortedDesc(l, e) = InsertAt(l, i, e)
        /\ \A k \in 1..Len(l) : k < i => l[k].v >= e.v
        /\ i <= Len(l) => l[i].v < e.v
  BY AppendedAt
<1>2. PICK r \in Seq(Entry) :
        /\ r = appendSortedDesc(l, e)
        /\ Len(r) = Len(l) + 1
        /\ \A k \in 1..(Len(l) + 1) : r[k] = IF k < i THEN l[k] ELSE IF k = i THEN e ELSE l[k - 1]
  <2>1. /\ InsertAt(l, i, e) \in Seq(Entry)
        /\ Len(InsertAt(l, i, e)) = Len(l) + 1
        /\ \A k \in 1..(Len(l) + 1) :
             InsertAt(l, i, e)[k] = IF k < i THEN l[k] ELSE IF k = i THEN e ELSE l[k - 1]
    <3>1. PICK S : S = Entry
      OBVIOUS
    <3>2. l \in Seq(S) /\ e \in S
      BY <3>1
    <3>3. /\ InsertAt(l, i, e) \in Seq(S)
          /\ Len(InsertAt(l, i, e)) = Len(l) + 1
          /\ \A k \in 1..(Len(l) + 1) :
               InsertAt(l, i, e)[k] = IF k < i THEN l[k] ELSE IF k = i THEN e ELSE l[k - 1]
      BY <3>2, InsertShape
    <3> QED
      BY <3>1, <3>3
  <2> QED
    BY <1>1, <2>1
<1>3. Len(l) \in Nat /\ DOMAIN l = 1..Len(l) /\ DOMAIN r = 1..(Len(l) + 1)
  BY <1>2
<1>4. Range(r) \subseteq Range(l) \union {e}
  <2>1. ASSUME NEW k \in DOMAIN r PROVE r[k] = e \/ \E j \in DOMAIN l : r[k] = l[j]
    <3>1. CASE k < i
      BY <1>2, <1>3, <3>1
    <3>2. CASE k = i
      BY <1>2, <1>3, <3>2
    <3>3. CASE k > i
      <4>1. r[k] = l[k - 1] /\ k - 1 \in DOMAIN l
        BY <1>2, <1>3, <3>3
      <4> QED
        BY <4>1
    <3> QED
      BY <1>3, <3>1, <3>2, <3>3
  <2> QED
    BY <2>1 DEF Range
<1>5. Range(l) \union {e} \subseteq Range(r)
  <2>1. e = r[i] /\ i \in DOMAIN r
    BY <1>2, <1>3
  <2>2. ASSUME NEW j \in DOMAIN l PROVE \E k \in DOMAIN r : r[k] = l[j]
    <3>1. CASE j < i
      BY <1>2, <1>3, <3>1
    <3>2. CASE j >= i
      <4>1. j + 1 \in DOMAIN r /\ r[j + 1] = l[j]
        BY <1>2, <1>3, <3>2
      <4> QED
        BY <4>1
    <3> QED
      BY <1>3, <3>1, <3>2
  <2> QED
    BY <2>1, <2>2 DEF Range
<1>6. ASSUME Strict(l), \A x \in Range(l) : x.v # e.v PROVE Strict(r)
  <2>1. /\ e.v \in Nat
        /\ \A k \in 1..Len(l) : l[k].v \in Nat /\ l[k].v # e.v
    <3>1. \A k \in 1..Len(l) : l[k] \in Entry /\ l[k] \in Range(l)
      BY <1>3 DEF Range
    <3> QED
      BY <3>1, <1>6, EntryVersion
  <2>2. \A k \in 1..Len(l) : k < i => l[k].v > e.v
    BY <1>1, <2>1
  <2>3. \A k \in 1..Len(l) : i <= k => l[k].v < e.v
    <3> SUFFICES ASSUME NEW k \in 1..Len(l), i <= k PROVE l[k].v < e.v
      OBVIOUS
    <3>1. i \in 1..Len(l) /\ l[i].v < e.v
      BY <1>1, <1>3
    <3>2. i < k => l[i].v > l[k].v
      BY <1>3, <1>6, <3>1 DEF Strict
    <3> QED
      BY <2>1, <3>1, <3>2
  <2>4. ASSUME NEW p \in DOMAIN r, NEW q \in DOMAIN r, p < q PROVE r[p].v > r[q].v
    <3>1. p \in 1..(Len(l) + 1) /\ q \in 1..(Len(l) + 1) /\ i \in Nat
      BY <1>3
    <3>2. \A x, y \in 1..Len(l) : x < y => l[x].v > l[y].v
      BY <1>3, <1>6 DEF Strict
    <3>3. CASE q < i
      <4>1. r[p] = l[p] /\ r[q] = l[q] /\ p \in 1..Len(l) /\ q \in 1..Len(l)
        BY <1>2, <1>3, <2>4, <3>1, <3>3
      <4> QED
        BY <4>1, <3>2, <2>4
    <3>4. CASE q = i
      <4>1. r[p] = l[p] /\ r[q] = e /\ p \in 1..Len(l) /\ p < i
        BY <1>2, <1>3, <2>4, <3>1, <3>4
      <4> QED
        BY <4>1, <2>2
    <3>5. CASE q > i /\ p < i
      <4>1. r[p] = l[p] /\ r[q] = l[q - 1] /\ p \in 1..Len(l) /\ q - 1 \in 1..Len(l) /\ p < q - 1
        BY <1>2, <1>3, <2>4, <3>1, <3>5
      <4> QED
        BY <4>1, <3>2
    <3>6. CASE q > i /\ p = i
      <4>1. r[p] = e /\ r[q] = l[q - 1] /\ q - 1 \in 1..Len(l) /\ i <= q - 1
        BY <1>2, <1>3, <2>4, <3>1, <3>6
      <4> QED
        BY <4>1, <2>1, <2>3
    <3>7. CASE q > i /\ p > i
      <4>1. r[p] = l[p - 1] /\ r[q] = l[q - 1] /\ p - 1 \in 1..Len(l) /\ q - 1 \in 1..Len(l) /\ p - 1 < q - 1
        BY <1>2, <1>3, <2>4, <3>1, <3>7
      <4> QED
        BY <4>1, <3>2
    <3> QED
      BY <3>1, <3>3, <3>4, <3>5, <3>6, <3>7
  <2> QED
    BY <2>4 DEF Strict
<1> QED
  BY <1>2, <1>4, <1>5, <1>6

(* Removing an entry: the first of its gen and version, and in a list that  *)
(* descends strictly the only one.                                          *)
LEMMA WithoutShape ==
  ASSUME NEW l \in Seq(Entry), NEW v, NEW g
  PROVE  /\ Without(l, v, g) \in Seq(Entry)
         /\ Range(Without(l, v, g)) \subseteq Range(l)
         /\ \A x \in Range(l) : x.v # v \/ x.gen # g => x \in Range(Without(l, v, g))
         /\ Strict(l) => /\ Strict(Without(l, v, g))
                         /\ \A x \in Range(Without(l, v, g)) : x.v # v \/ x.gen # g
<1> DEFINE I == {i \in 1..Len(l) : l[i].v = v /\ l[i].gen = g}
           s == IF I # {} THEN Min(I) ELSE 0
<1>1. /\ Len(l) \in Nat /\ DOMAIN l = 1..Len(l)
      /\ \A k \in 1..Len(l) : l[k] \in Entry /\ l[k].v \in Nat
  BY EntryVersion
<1>2. Without(l, v, g) = IF s = 0 THEN l ELSE RemoveAt(l, s)
  BY DEF Without, SelectInSeq
<1>3. CASE I = {}
  <2>1. Without(l, v, g) = l
    BY <1>2, <1>3
  <2>2. \A x \in Range(l) : x.v # v \/ x.gen # g
    BY <1>1, <1>3 DEF Range
  <2> QED
    BY <2>1, <2>2
<1>4. CASE I # {}
  <2>1. Min(I) \in I
    <3>1. I \in SUBSET (1..Len(l))
      OBVIOUS
    <3> HIDE DEF I
    <3> QED
      BY <1>1, <1>4, <3>1, MinLeast
  <2>2. PICK i \in 1..Len(l) : i = Min(I) /\ l[i].v = v /\ l[i].gen = g
    BY <2>1
  <2>3. Without(l, v, g) = RemoveAt(l, i)
    BY <1>1, <1>2, <1>4, <2>2
  <2>4. PICK r \in Seq(Entry) :
          /\ r = Without(l, v, g)
          /\ Len(r) = Len(l) - 1
          /\ \A k \in 1..(Len(l) - 1) : r[k] = IF k < i THEN l[k] ELSE l[k + 1]
    BY <2>3, RemoveShape
  <2>5. DOMAIN r = 1..(Len(l) - 1)
    BY <2>4
  <2>6. \A k \in DOMAIN r : \E j \in DOMAIN l : r[k] = l[j] /\ j # i
    <3> SUFFICES ASSUME NEW k \in DOMAIN r PROVE \E j \in DOMAIN l : r[k] = l[j] /\ j # i
      OBVIOUS
    <3>1. CASE k < i
      BY <1>1, <2>4, <2>5, <3>1
    <3>2. CASE k >= i
      <4>1. k + 1 \in DOMAIN l /\ r[k] = l[k + 1] /\ k + 1 # i
        BY <1>1, <2>4, <2>5, <3>2
      <4> QED
        BY <4>1
    <3> QED
      BY <1>1, <2>5, <3>1, <3>2
  <2>7. \A j \in DOMAIN l : j # i => \E k \in DOMAIN r : r[k] = l[j]
    <3> SUFFICES ASSUME NEW j \in DOMAIN l, j # i PROVE \E k \in DOMAIN r : r[k] = l[j]
      OBVIOUS
    <3>1. CASE j < i
      BY <1>1, <2>4, <2>5, <3>1
    <3>2. CASE j > i
      <4>1. j - 1 \in DOMAIN r /\ r[j - 1] = l[j]
        BY <1>1, <2>4, <2>5, <3>2
      <4> QED
        BY <4>1
    <3> QED
      BY <1>1, <3>1, <3>2
  <2>8. ASSUME Strict(l) PROVE Strict(r)
    <3>1. ASSUME NEW p \in DOMAIN r, NEW q \in DOMAIN r, p < q PROVE r[p].v > r[q].v
      <4>1. \A x, y \in 1..Len(l) : x < y => l[x].v > l[y].v
        BY <1>1, <2>8 DEF Strict
      <4>2. CASE q < i
        BY <4>1, <4>2, <3>1, <1>1, <2>4, <2>5
      <4>3. CASE q >= i /\ p < i
        BY <4>1, <4>3, <3>1, <1>1, <2>4, <2>5
      <4>4. CASE q >= i /\ p >= i
        BY <4>1, <4>4, <3>1, <1>1, <2>4, <2>5
      <4> QED
        BY <4>2, <4>3, <4>4, <2>5, <1>1
    <3> QED
      BY <3>1 DEF Strict
  <2>9. ASSUME Strict(l), NEW x \in Range(r) PROVE x.v # v \/ x.gen # g
    <3>1. PICK j \in DOMAIN l : x = l[j] /\ j # i
      BY <2>6 DEF Range
    <3>2. j < i \/ i < j
      BY <3>1, <1>1
    <3>3. x.v \in Nat /\ l[i].v \in Nat /\ (x.v > l[i].v \/ l[i].v > x.v)
      BY <3>1, <3>2, <1>1, <2>9 DEF Strict
    <3> QED
      BY <3>3, <2>2
  <2>10. Range(r) \subseteq Range(l) /\ \A x \in Range(l) : x.v # v \/ x.gen # g => x \in Range(r)
    <3>1. ASSUME NEW x \in Range(l), x.v # v \/ x.gen # g PROVE x \in Range(r)
      <4>1. PICK j \in DOMAIN l : x = l[j]
        BY DEF Range
      <4>2. j # i
        BY <4>1, <3>1, <2>2
      <4> QED
        BY <4>1, <4>2, <2>7 DEF Range
    <3>2. Range(r) \subseteq Range(l)
      BY <2>6 DEF Range
    <3> QED
      BY <3>1, <3>2
  <2> QED
    BY <2>4, <2>8, <2>9, <2>10
<1> QED
  BY <1>3, <1>4

Flag(x, g) == IF x.gen = g THEN [x EXCEPT !.dep = TRUE] ELSE x

LEMMA FlagFacts ==
  \A x \in Entry : \A g : /\ Flag(x, g) \in Entry /\ Flag(x, g).v = x.v /\ Flag(x, g).gen = x.gen
                          /\ Flag(x, g).path = x.path /\ Flag(x, g).origin = x.origin
                          /\ Flag(x, g).dep = (x.dep \/ x.gen = g)
BY DEF Entry, Flag

LEMMA MarkedShape ==
  ASSUME NEW l \in Seq(Entry), NEW v, NEW g
  PROVE  /\ Marked(l, v, g) \in Seq(Entry)
         /\ Strict(l) => Strict(Marked(l, v, g))
         /\ \A x \in Range(l) : (IF x.v = v THEN Flag(x, g) ELSE x) \in Range(Marked(l, v, g))
         /\ \A y \in Range(Marked(l, v, g)) : \E x \in Range(l) : y = IF x.v = v THEN Flag(x, g) ELSE x
<1>1. DOMAIN l = 1..Len(l) /\ Len(l) \in Nat /\ \A i \in DOMAIN l : l[i] \in Entry
  OBVIOUS
<1>2. PICK m : m = Marked(l, v, g)
  OBVIOUS
<1>3. /\ DOMAIN m = DOMAIN l
      /\ \A i \in DOMAIN l : m[i] = IF l[i].v = v THEN Flag(l[i], g) ELSE l[i]
  BY <1>1, <1>2 DEF Marked, Flag
<1>4. \A i \in DOMAIN l : m[i] \in Entry /\ m[i].v = l[i].v
  BY <1>1, <1>3, FlagFacts
<1>5. m \in Seq(Entry)
  <2>1. m = [i \in 1..Len(l) |-> m[i]]
    BY <1>1, <1>2 DEF Marked
  <2>2. m \in [1..Len(l) -> Entry]
    BY <1>1, <1>4, <2>1
  <2> QED
    BY <2>2, <1>1, SeqDef
<1>6. Strict(l) => Strict(m)
  BY <1>3, <1>4 DEF Strict
<1>7. /\ \A x \in Range(l) : (IF x.v = v THEN Flag(x, g) ELSE x) \in Range(m)
      /\ \A y \in Range(m) : \E x \in Range(l) : y = IF x.v = v THEN Flag(x, g) ELSE x
  BY <1>3 DEF Range
<1> QED
  BY <1>2, <1>5, <1>6, <1>7

(* Entries of different names or gens can be put in order: there is no      *)
(* smallest set of them that cannot.                                        *)
Apart(S) == \A x, y \in S : x # y => x.v # y.v \/ x.gen # y.gen

LEMMA BeforeOrder ==
  /\ \A x, y, z \in Entry : Before(x, y) /\ Before(y, z) => Before(x, z)
  /\ \A x, y \in Entry : x.v # y.v \/ x.gen # y.gen => Before(x, y) \/ Before(y, x)
BY EntryVersion DEF Before

LEMMA OneMore ==
  ASSUME NEW U \in SUBSET Entry, IsFiniteSet(U), Apart(U), NEW x \in U,
         NEW l, IsInOrder(l, U \ {x})
  PROVE  \E m : IsInOrder(m, U)
<1> DEFINE n == Cardinality(U \ {x})
<1>1. n \in Nat /\ Cardinality(U) = n + 1
  <2>1. IsFiniteSet(U \ {x}) /\ Cardinality(U \ {x}) = Cardinality(U) - 1
    BY FS_RemoveElement
  <2>2. Cardinality(U) \in Nat /\ Cardinality(U \ {x}) \in Nat
    BY <2>1, FS_CardinalityType
  <2> QED
    BY <2>1, <2>2
<1>2. /\ l \in [1..n -> U \ {x}] /\ Range(l) = U \ {x}
      /\ \A i, j \in 1..n : i < j => Before(l[i], l[j])
  BY DEF IsInOrder
<1>3. PICK N : N = n
  OBVIOUS
<1> HIDE DEF n
<1>4. N \in Nat /\ DOMAIN l = 1..N /\ \A k \in 1..N : l[k] \in Entry /\ l[k] \in U /\ l[k] # x
  BY <1>1, <1>2, <1>3
<1>5. PICK i \in 1..(N + 1) :
        /\ \A k \in 1..N : k < i => ~Before(x, l[k])
        /\ i <= N => Before(x, l[i])
  <2>1. CASE \E k \in 1..N : Before(x, l[k])
    <3>1. PICK I \in SUBSET (1..N) : I = {k \in 1..N : Before(x, l[k])}
      OBVIOUS
    <3>2. PICK k \in I : \A j \in I : k <= j
      BY <2>1, <3>1, <1>4, Least
    <3>3. \A j \in 1..N : j < k => ~Before(x, l[j])
      BY <3>1, <3>2, <1>4
    <3> QED
      BY <3>1, <3>2, <3>3, <1>4
  <2>2. CASE ~ \E k \in 1..N : Before(x, l[k])
    <3>1. N + 1 \in 1..(N + 1) /\ ~(N + 1 <= N)
      BY <1>4
    <3> QED
      BY <2>2, <3>1
  <2> QED
    BY <2>1, <2>2
<1>6. \A k \in 1..N : k < i => Before(l[k], x)
  BY <1>4, <1>5, BeforeOrder DEF Apart
<1>7. \A k \in 1..N : i <= k => Before(x, l[k])
  <2> SUFFICES ASSUME NEW k \in 1..N, i <= k, i # k PROVE Before(x, l[k])
    BY <1>4, <1>5
  <2>1. i \in 1..N /\ i < k
    BY <1>4
  <2>2. Before(x, l[i]) /\ Before(l[i], l[k])
    BY <1>2, <1>3, <1>4, <1>5, <2>1
  <2> QED
    BY <2>1, <2>2, <1>4, BeforeOrder
<1>8. PICK m : m = [k \in 1..(N + 1) |-> IF k < i THEN l[k] ELSE IF k = i THEN x ELSE l[k - 1]]
  OBVIOUS
<1>9. ASSUME NEW k \in 1..(N + 1)
      PROVE  \/ k < i /\ k \in 1..N /\ m[k] = l[k]
             \/ k = i /\ m[k] = x
             \/ k > i /\ k - 1 \in 1..N /\ i <= k - 1 /\ m[k] = l[k - 1]
  <2>1. CASE k < i
    BY <1>4, <1>8, <2>1
  <2>2. CASE k = i
    BY <1>4, <1>8, <2>2
  <2>3. CASE k > i
    BY <1>4, <1>8, <2>3
  <2> QED
    BY <1>4, <2>1, <2>2, <2>3
<1>10. m \in [1..(N + 1) -> U]
  <2>1. \A k \in 1..(N + 1) : m[k] \in U
    BY <1>4, <1>9
  <2> QED
    BY <1>8, <2>1
<1>11. Range(m) = U
  <2>1. m[i] = x /\ i \in 1..(N + 1)
    BY <1>8, <1>4
  <2>2. ASSUME NEW y \in U, y # x PROVE \E k \in 1..(N + 1) : m[k] = y
    <3>1. PICK k \in 1..N : l[k] = y
      BY <1>2, <1>4, <2>2 DEF Range
    <3>2. CASE k < i
      BY <3>1, <3>2, <1>4, <1>8
    <3>3. CASE k >= i
      <4>1. k + 1 \in 1..(N + 1) /\ ~(k + 1 < i) /\ k + 1 # i /\ (k + 1) - 1 = k
        BY <3>3, <1>4
      <4> QED
        BY <3>1, <4>1, <1>8
    <3> QED
      BY <3>2, <3>3, <1>4
  <2>3. DOMAIN m = 1..(N + 1)
    BY <1>8
  <2> QED
    BY <1>10, <2>1, <2>2, <2>3 DEF Range
<1>12. ASSUME NEW p \in 1..(N + 1), NEW q \in 1..(N + 1), p < q PROVE Before(m[p], m[q])
  <2>1. \A a, b \in 1..N : a < b => Before(l[a], l[b])
    BY <1>2, <1>3
  <2>2. CASE q < i
    <3>1. m[p] = l[p] /\ m[q] = l[q] /\ p \in 1..N /\ q \in 1..N
      BY <2>2, <1>12, <1>4, <1>9
    <3> QED
      BY <2>1, <3>1, <1>12
  <2>3. CASE q = i
    <3>1. m[p] = l[p] /\ m[q] = x /\ p \in 1..N /\ p < i
      BY <2>3, <1>12, <1>4, <1>9
    <3> QED
      BY <3>1, <1>6
  <2>4. CASE q > i /\ p < i
    <3>1. m[p] = l[p] /\ m[q] = l[q - 1] /\ p \in 1..N /\ q - 1 \in 1..N /\ p < q - 1
      BY <2>4, <1>12, <1>4, <1>9
    <3> QED
      BY <2>1, <3>1
  <2>5. CASE q > i /\ p = i
    <3>1. m[p] = x /\ m[q] = l[q - 1] /\ q - 1 \in 1..N /\ i <= q - 1
      BY <2>5, <1>12, <1>4, <1>9
    <3> QED
      BY <3>1, <1>7
  <2>6. CASE q > i /\ p > i
    <3>1. m[p] = l[p - 1] /\ m[q] = l[q - 1] /\ p - 1 \in 1..N /\ q - 1 \in 1..N /\ p - 1 < q - 1
      BY <2>6, <1>12, <1>4, <1>9
    <3> QED
      BY <2>1, <3>1
  <2> QED
    BY <2>2, <2>3, <2>4, <2>5, <2>6, <1>4
<1>13. Cardinality(U) = N + 1
  BY <1>1, <1>3
<1> QED
  BY <1>10, <1>11, <1>12, <1>13 DEF IsInOrder

LEMMA InOrderExists ==
  ASSUME NEW S \in SUBSET Entry, IsFiniteSet(S), Apart(S)
  PROVE  IsInOrder(InOrder(S), S)
<1>1. PICK T : T = {U \in SUBSET S : ~ \E l : IsInOrder(l, U)}
  OBVIOUS
<1>2. SUFFICES ASSUME T # {} PROVE FALSE
  <2>1. T = {} => \E l : IsInOrder(l, S)
    BY <1>1
  <2>2. \A l : IsInOrder(l, S) => l \in [1..Cardinality(S) -> S]
    BY DEF IsInOrder
  <2> QED
    BY <2>1, <2>2 DEF InOrder
<1>3. PICK U \in T : \A y \in T : ~ (y \subseteq U /\ y # U)
  <2>1. T \in SUBSET (SUBSET S)
    BY <1>1
  <2> QED
    BY <1>2, <2>1, MinimalSubset
<1>4. U \in SUBSET S /\ IsFiniteSet(U) /\ Apart(U) /\ U \in SUBSET Entry
  BY <1>1, FS_Subset DEF Apart
<1>5. CASE U = {}
  <2>1. Cardinality(U) = 0
    BY <1>5, FS_EmptySet
  <2>2. PICK l : l = [k \in 1..0 |-> 0]
    OBVIOUS
  <2>3. l \in [1..0 -> {}] /\ Range(l) = {}
    BY <2>2 DEF Range
  <2>4. IsInOrder(l, U)
    BY <1>5, <2>1, <2>3 DEF IsInOrder
  <2> QED
    BY <1>1, <2>4
<1>6. CASE U # {}
  <2>1. PICK x \in U : TRUE
    BY <1>6
  <2>2. U \ {x} \subseteq U /\ U \ {x} # U /\ U \ {x} \in SUBSET S
    BY <2>1, <1>4
  <2>3. PICK l : IsInOrder(l, U \ {x})
    BY <1>1, <1>3, <2>2
  <2>4. \E m : IsInOrder(m, U)
    BY <1>4, <2>1, <2>3, OneMore
  <2> QED
    BY <1>1, <2>4
<1> QED
  BY <1>5, <1>6

LEMMA InOrderShape ==
  ASSUME NEW S \in SUBSET Entry, IsFiniteSet(S), Apart(S)
  PROVE  /\ InOrder(S) \in Seq(Entry)
         /\ Range(InOrder(S)) = S
         /\ (\A x, y \in S : x # y => x.v # y.v) => Strict(InOrder(S))
<1>1. PICK l : l = InOrder(S)
  OBVIOUS
<1>2. PICK n : n = Cardinality(S)
  OBVIOUS
<1>3. n \in Nat
  BY <1>2, FS_CardinalityType
<1>4. /\ l \in [1..n -> S] /\ Range(l) = S
      /\ \A i, j \in 1..n : i < j => Before(l[i], l[j])
  BY <1>1, <1>2, InOrderExists DEF IsInOrder
<1>5. l \in Seq(Entry) /\ DOMAIN l = 1..n
  <2>1. l \in [1..n -> Entry]
    BY <1>4
  <2> QED
    BY <1>3, <1>4, <2>1, SeqDef
<1>6. ASSUME \A x, y \in S : x # y => x.v # y.v, NEW i \in 1..n, NEW j \in 1..n, i < j
      PROVE  l[i].v > l[j].v
  <2>1. Before(l[i], l[j]) /\ l[i] \in S /\ l[j] \in S
    BY <1>4, <1>6
  <2>2. /\ l[i].v \in Nat /\ l[j].v \in Nat
        /\ l[i].gen \in Nat /\ l[j].gen \in Nat
    BY <2>1, EntryVersion
  <2>3. l[i].gen < l[j].gen => l[i] # l[j]
    BY <2>2
  <2> QED
    BY <2>1, <2>2, <2>3, <1>6 DEF Before
<1> QED
  BY <1>1, <1>4, <1>5, <1>6 DEF Strict
-----------------------------------------------------------------------------
(* Types                                                                    *)

Typed == TypeOK /\ CallShape /\ RowShape

CallType == [pc : Pc, qn : Name, gen : Gen \union {0}, path : Binary \union {"none"}]

RowType == [gen : Gen \union {0}, path : Binary \union {"none"}, dep : BOOLEAN]

LEMMA GenFacts == Gen \subseteq Nat \ {0} /\ 1 \in Gen /\ 2 \in Gen
<1>1. Cardinality(Caller) \in Nat /\ Cardinality(Caller) # 0
  BY RegistryAssumption, FS_CardinalityType, FS_EmptySet
<1> QED
  BY <1>1 DEF Gen

LEMMA NameFacts == \A n \in Name : n[1] \in Anchor /\ n[2] \in Version /\ n = <<n[1], n[2]>>
BY RegistryAssumption

LEMMA IdleFacts ==
  IdleCall \in CallType /\ IdleCall.pc = "idle" /\ NoRow \in RowType /\ NoRow.gen = 0 /\ NoRow.dep = FALSE
BY RegistryAssumption DEF IdleCall, CallType, NoRow, RowType, Pc

(* What the server starts with: the rows' entries, and the builtins.        *)
LEMMA AtStartShape ==
  ASSUME Typed, NEW a \in Anchor
  PROVE  AtStart(repo, a) \in SUBSET Entry /\ IsFiniteSet(AtStart(repo, a)) /\ Apart(AtStart(repo, a))
<1> DEFINE N == {m \in Name : m[1] = a /\ durable /\ repo[m] # NoRow}
           B == IF a \in Builtin THEN {Register} ELSE {}
<1>1. ASSUME NEW n \in N
      PROVE  /\ fromPersistEntry(n, repo[n]) \in Entry
             /\ fromPersistEntry(n, repo[n]).v = n[2] /\ fromPersistEntry(n, repo[n]).gen = 1
             /\ n = <<a, n[2]>>
  <2>1. repo[n] \in RowType /\ repo[n].path \in Binary /\ n[2] \in Version /\ n = <<a, n[2]>>
    BY NameFacts DEF Typed, TypeOK, RowType, RowShape
  <2> QED
    BY <2>1, GenFacts DEF fromPersistEntry, Entry, RowType
<1>2. Register \in Entry /\ Register.gen = 2
  BY RegistryAssumption, GenFacts DEF Register, Entry
<1>3. AtStart(repo, a) = {fromPersistEntry(n, repo[n]) : n \in N} \union B
  BY DEF AtStart, Stored
<1>4. AtStart(repo, a) \in SUBSET Entry
  BY <1>1, <1>2, <1>3
<1>5. IsFiniteSet(AtStart(repo, a))
  <2>1. PICK M : M = N
    OBVIOUS
  <2>2. IsFiniteSet(M)
    BY <2>1, RegistryAssumption, FS_Subset
  <2>3. PICK f : f = [n \in M |-> fromPersistEntry(n, repo[n])]
    OBVIOUS
  <2>4. IsFiniteSet({f[n] : n \in M})
    <3>1. PICK T : T = {f[n] : n \in M}
      OBVIOUS
    <3>2. f \in Surjection(M, T)
      BY <2>3, <3>1 DEF Surjection
    <3> QED
      BY <2>2, <3>1, <3>2, FS_Surjection
  <2>5. {f[n] : n \in M} = {fromPersistEntry(n, repo[n]) : n \in N}
    BY <2>1, <2>3
  <2>6. IsFiniteSet(B)
    BY FS_Singleton, FS_EmptySet
  <2>7. IsFiniteSet({fromPersistEntry(n, repo[n]) : n \in N})
    BY <2>4, <2>5
  <2> HIDE DEF B, N
  <2>8. IsFiniteSet({fromPersistEntry(n, repo[n]) : n \in N} \union B)
    BY <2>6, <2>7, FS_Union
  <2> QED
    BY <2>8, <1>3
<1>6. Apart(AtStart(repo, a))
  BY <1>1, <1>2, <1>3 DEF Apart
<1> QED
  BY <1>4, <1>5, <1>6

LEMMA FreshShape ==
  ASSUME Typed, NEW n \in Name, FreeGens(n) # {}
  PROVE  FreshGen(n) \in FreeGens(n) /\ FreshGen(n) \in Gen
<1>1. PICK N \in Nat : Gen = 1..N
  <2>1. Cardinality(Caller) + 1 \in Nat
    BY RegistryAssumption, FS_CardinalityType
  <2> QED
    BY <2>1 DEF Gen
<1>2. FreeGens(n) \in SUBSET (1..N)
  BY <1>1 DEF FreeGens
<1>3. \E g \in FreeGens(n) : \A h \in FreeGens(n) : g <= h
  BY <1>2, Least
<1> QED
  BY <1>1, <1>2, <1>3 DEF FreshGen

(* A step changes its own call only.                                        *)
Others(c) ==
  /\ call' \in [Caller -> CallType]
  /\ \A d \in Caller \ {c} : call'[d] = call[d]

LEMMA StepOthers ==
  ASSUME Typed, NEW c \in Caller, Step(c)
  PROVE  /\ Others(c)
         /\ UNCHANGED <<durable, restarts>>
         /\ call'[c].pc # "idle" => call'[c].gen \in Gen /\ Started
         /\ call'[c].pc \in {"upsert", "insert"} => call'[c].path \in Binary
         /\ call'[c].pc \in {"upsert", "flag", "delete"} => durable
<1> USE IdleFacts
<1>1. /\ call \in [Caller -> CallType]
      /\ call[c].pc # "idle" => call[c].gen \in Gen /\ Started
      /\ call[c].pc \in {"upsert", "insert"} => call[c].path \in Binary
  BY DEF Typed, TypeOK, CallType, CallShape
<1>2. byQualified \in [Name -> Gen \union {0}]
  BY DEF Typed, TypeOK
<1>3. ASSUME call[c].pc # "idle", UNCHANGED <<durable, restarts>>,
             \/ Return(c)
             \/ Goto(c, "insert") /\ call[c].pc = "upsert"
             \/ Goto(c, "mark") \/ Goto(c, "remove")
      PROVE  /\ Others(c)
             /\ call'[c].pc # "idle" => call'[c].gen \in Gen /\ Started
             /\ call'[c].pc \in {"upsert", "insert"} => call'[c].path \in Binary
             /\ call'[c].pc \in {"upsert", "flag", "delete"} => durable
  BY <1>1, <1>3 DEF Return, Goto, Others, CallType, Pc, Started
<1>4. ASSUME NEW n \in Name, NEW p \in Binary, RegisterEntry(c, n, p)
      PROVE  /\ Others(c)
             /\ call'[c].pc # "idle" => call'[c].gen \in Gen /\ Started
             /\ call'[c].pc \in {"upsert", "insert"} => call'[c].path \in Binary
             /\ call'[c].pc \in {"upsert", "flag", "delete"} => durable
  <2>1. FreshGen(n) \in Gen
    BY <1>4, FreshShape DEF RegisterEntry
  <2> QED
    BY <1>1, <1>4, <2>1 DEF RegisterEntry, Others, CallType, Pc
<1>5. ASSUME NEW n \in Name, DeprecateOf(c, n) \/ Unregister(c, n)
      PROVE  /\ Others(c)
             /\ call'[c].pc # "idle" => call'[c].gen \in Gen /\ Started
             /\ call'[c].pc \in {"upsert", "insert"} => call'[c].path \in Binary
             /\ call'[c].pc \in {"upsert", "flag", "delete"} => durable
  BY <1>1, <1>2, <1>5 DEF DeprecateOf, Unregister, Others, CallType, Pc
<1>6. ASSUME NEW p \in Binary, deprecateTools(c, p)
      PROVE  \E n \in Name : DeprecateOf(c, n)
  BY <1>6 DEF deprecateTools, LookupByBinaryPath
<1>10. UNCHANGED <<durable, restarts>>
  BY <1>6 DEF Step, RegisterEntry, Upsert, Insert, Deprecate, DeprecateOf, RepoDeprecate,
       MarkDeprecated, Unregister, RepoDelete, RemoveEntry
<1>7. CASE Upsert(c)
  BY <1>3, <1>7, <1>10 DEF Upsert
<1>8. CASE Insert(c) \/ MarkDeprecated(c) \/ RemoveEntry(c)
  BY <1>3, <1>8, <1>10 DEF Insert, MarkDeprecated, RemoveEntry
<1>9. CASE RepoDeprecate(c) \/ RepoDelete(c)
  BY <1>3, <1>9, <1>10 DEF RepoDeprecate, RepoDelete
<1> QED
  BY <1>4, <1>5, <1>6, <1>7, <1>8, <1>9, <1>10 DEF Step, Deprecate

(* The steps that begin a call, and those that leave the table or memory.   *)
Begins(c) ==
  \/ \E n \in Name, p \in Binary : RegisterEntry(c, n, p)
  \/ \E n \in Name : DeprecateOf(c, n) \/ Unregister(c, n)

LEMMA StepCases ==
  ASSUME NEW c \in Caller, Step(c)
  PROVE  \/ Begins(c) \/ Upsert(c) \/ Insert(c) \/ RepoDeprecate(c) \/ MarkDeprecated(c)
         \/ RepoDelete(c) \/ RemoveEntry(c)
<1>1. \A p \in Binary : deprecateTools(c, p) => \E n \in Name : DeprecateOf(c, n)
  BY DEF deprecateTools, LookupByBinaryPath
<1> QED
  BY <1>1 DEF Step, Deprecate, Begins

LEMMA BeginsFrame ==
  ASSUME NEW c \in Caller, Begins(c)
  PROVE  /\ UNCHANGED <<durable, byQualified, byAnchor, repo, faults, restarts, raced, doubt, flagged>>
         /\ call[c].pc = "idle"
BY DEF Begins, RegisterEntry, DeprecateOf, Unregister

(* Memory changes by inserting, marking and removing.                       *)
LEMMA AuthoredType ==
  ASSUME Typed, NEW c \in Caller, call[c].pc = "insert"
  PROVE  Authored(c) \in Entry /\ call[c].qn \in Name
<1>1. call[c] \in CallType /\ call[c].gen \in Gen /\ call[c].path \in Binary
  BY DEF Typed, TypeOK, CallType, CallShape
<1>2. call[c].qn \in Name /\ call[c].qn[2] \in Version
  BY <1>1, NameFacts DEF CallType
<1> QED
  BY <1>1, <1>2 DEF Authored, Entry

LEMMA RowFlag ==
  \A r \in RowType : /\ [r EXCEPT !.dep = TRUE] \in RowType
                     /\ [r EXCEPT !.dep = TRUE].gen = r.gen /\ [r EXCEPT !.dep = TRUE].path = r.path
                     /\ [r EXCEPT !.dep = TRUE].dep
BY DEF RowType

LEMMA StepTypes ==
  ASSUME Typed, NEW c \in Caller, Step(c)
  PROVE  TypeOK' /\ RowShape'
<1>1. /\ call \in [Caller -> CallType] /\ repo \in [Name -> RowType]
      /\ byQualified \in [Name -> Gen \union {0}] /\ byAnchor \in [Anchor -> Seq(Entry)]
      /\ durable \in BOOLEAN /\ raced \in BOOLEAN /\ doubt \in BOOLEAN
      /\ faults \in 0..MaxFaults /\ restarts \in 0..MaxRestarts /\ flagged \subseteq Name
  BY DEF Typed, TypeOK, CallType, RowType
<1>2. /\ call[c].qn \in Name /\ call[c].qn[1] \in Anchor
      /\ call[c].pc # "idle" => call[c].gen \in Gen
      /\ call[c].pc \in {"upsert", "insert"} => call[c].path \in Binary
  BY <1>1, NameFacts DEF Typed, CallShape, CallType
<1>3. call' \in [Caller -> CallType] /\ UNCHANGED <<durable, restarts>>
  BY StepOthers DEF Others
<1>4. MaxFaults \in Nat
  BY RegistryAssumption
<1>5. CASE Begins(c)
  <2>1. UNCHANGED <<durable, byQualified, byAnchor, repo, faults, restarts, raced, doubt, flagged>>
    BY <1>5, BeginsFrame
  <2> QED
    BY <1>1, <1>3, <2>1 DEF TypeOK, CallType, RowType, Typed, RowShape
<1>6. CASE Upsert(c)
  <2>1. PICK row : row = [gen |-> call[c].gen, path |-> call[c].path, dep |-> FALSE]
    OBVIOUS
  <2>2. row \in RowType /\ row.gen \in Gen /\ row.path \in Binary
    <3>1. call[c].pc = "upsert"
      BY <1>6 DEF Upsert
    <3>2. call[c].gen \in Gen /\ call[c].path \in Binary
      BY <1>2, <3>1
    <3> QED
      BY <2>1, <3>2 DEF RowType
  <2>3. repo' = repo \/ repo' = [repo EXCEPT ![call[c].qn] = row]
    BY <1>6, <2>1 DEF Upsert, RepoFails
  <2>4. faults' \in 0..MaxFaults
    BY <1>1, <1>4, <1>6 DEF Upsert, RepoFails
  <2>5. doubt' \in BOOLEAN
    BY <1>1, <1>6, Zenon DEF Upsert, RepoFails
  <2>6. flagged' \subseteq Name /\ UNCHANGED <<byQualified, byAnchor, raced>>
    BY <1>1, <1>6 DEF Upsert
  <2>7. repo' \in [Name -> RowType] /\ RowShape'
    BY <1>1, <1>2, <2>2, <2>3 DEF RowShape, Typed
  <2> QED
    BY <1>1, <1>3, <2>4, <2>5, <2>6, <2>7 DEF TypeOK, CallType, RowType
<1>7. CASE RepoDeprecate(c)
  <2>1. repo' = repo \/ (repo[call[c].qn] # NoRow /\ repo' = [repo EXCEPT ![call[c].qn].dep = TRUE])
    BY <1>7 DEF RepoDeprecate, RepoFails
  <2>2. faults' \in 0..MaxFaults
    BY <1>1, <1>4, <1>7 DEF RepoDeprecate, RepoFails
  <2>3. doubt' \in BOOLEAN /\ raced' \in BOOLEAN
    BY <1>1, <1>7, Zenon DEF RepoDeprecate, RepoFails, NotOwn
  <2>4. UNCHANGED <<byQualified, byAnchor, flagged>>
    BY <1>7 DEF RepoDeprecate
  <2>5. repo' \in [Name -> RowType] /\ RowShape'
    <3>1. CASE repo' = repo
      BY <1>1, <3>1 DEF RowShape, Typed
    <3>2. CASE repo[call[c].qn] # NoRow /\ repo' = [repo EXCEPT ![call[c].qn].dep = TRUE]
      <4>1. PICK r \in RowType : r = [repo[call[c].qn] EXCEPT !.dep = TRUE]
                                  /\ r.gen \in Gen /\ r.path \in Binary
        BY <1>1, <1>2, <3>2, RowFlag DEF RowShape, Typed
      <4>2. repo' = [repo EXCEPT ![call[c].qn] = r]
        BY <3>2, <4>1
      <4> QED
        BY <1>1, <1>2, <4>1, <4>2 DEF RowShape, Typed
    <3> QED
      BY <2>1, <3>1, <3>2
  <2> QED
    BY <1>1, <1>3, <2>2, <2>3, <2>4, <2>5 DEF TypeOK, CallType, RowType
<1>8. CASE RepoDelete(c)
  <2>1. repo' = repo \/ (repo' = [repo EXCEPT ![call[c].qn] = NoRow])
    BY <1>8 DEF RepoDelete, RepoFails
  <2>2. faults' \in 0..MaxFaults
    BY <1>1, <1>4, <1>8 DEF RepoDelete, RepoFails
  <2>3. doubt' \in BOOLEAN /\ raced' \in BOOLEAN
    BY <1>1, <1>8, Zenon DEF RepoDelete, RepoFails, NotOwn
  <2>4. UNCHANGED <<byQualified, byAnchor, flagged>>
    BY <1>8 DEF RepoDelete
  <2>5. repo' \in [Name -> RowType] /\ RowShape'
    BY <1>1, <1>2, <2>1, IdleFacts DEF RowShape, Typed
  <2> QED
    BY <1>1, <1>3, <2>2, <2>3, <2>4, <2>5 DEF TypeOK, CallType, RowType
<1>9. CASE Insert(c)
  <2>1. Authored(c) \in Entry /\ Authored(c).gen \in Gen
    BY <1>9, AuthoredType DEF Insert, Entry
  <2>2. appendSortedDesc(byAnchor[call[c].qn[1]], Authored(c)) \in Seq(Entry)
    BY <1>1, <1>2, <2>1, AppendSorted
  <2>3. byQualified' \in [Name -> Gen \union {0}]
    BY <1>1, <1>2, <1>9, <2>1 DEF Insert, insertLocked
  <2>4. byAnchor' \in [Anchor -> Seq(Entry)]
    BY <1>1, <1>2, <1>9, <2>2 DEF Insert, insertLocked
  <2>5. raced' \in BOOLEAN
    BY <1>1, <1>9, Zenon DEF Insert
  <2>6. flagged' \subseteq Name /\ UNCHANGED <<repo, faults, doubt>>
    BY <1>1, <1>9 DEF Insert
  <2> QED
    BY <1>1, <1>3, <2>3, <2>4, <2>5, <2>6 DEF TypeOK, CallType, RowType, RowShape, Typed
<1>10. CASE MarkDeprecated(c)
  <2>1. Marked(byAnchor[call[c].qn[1]], call[c].qn[2], call[c].gen) \in Seq(Entry)
    BY <1>1, <1>2, MarkedShape
  <2>2. /\ byAnchor' \in [Anchor -> Seq(Entry)]
        /\ raced' \in BOOLEAN /\ flagged' \subseteq Name /\ UNCHANGED <<byQualified, repo, faults, doubt>>
    BY <1>1, <1>2, <1>10, <2>1 DEF MarkDeprecated
  <2> QED
    BY <1>1, <1>3, <2>2 DEF TypeOK, CallType, RowType, RowShape, Typed
<1>11. CASE RemoveEntry(c)
  <2>1. Without(byAnchor[call[c].qn[1]], call[c].qn[2], call[c].gen) \in Seq(Entry)
    BY <1>1, <1>2, WithoutShape
  <2>2. /\ byQualified' \in [Name -> Gen \union {0}] /\ byAnchor' \in [Anchor -> Seq(Entry)]
        /\ raced' \in BOOLEAN /\ flagged' \subseteq Name /\ UNCHANGED <<repo, faults, doubt>>
    BY <1>1, <1>2, <1>11, <2>1 DEF RemoveEntry, removeLocked
  <2> QED
    BY <1>1, <1>3, <2>2 DEF TypeOK, CallType, RowType, RowShape, Typed
<1> QED
  BY <1>5, <1>6, <1>7, <1>8, <1>9, <1>10, <1>11, StepCases

LEMMA RestartTypes == Typed /\ Restart => Typed'
<1> SUFFICES ASSUME Typed, Restart PROVE Typed'
  OBVIOUS
<1>1. /\ repo \in [Name -> RowType] /\ durable \in BOOLEAN /\ raced \in BOOLEAN /\ doubt \in BOOLEAN
      /\ faults \in 0..MaxFaults /\ restarts \in 0..MaxRestarts /\ flagged \subseteq Name
  BY DEF Typed, TypeOK, RowType
<1>2. byAnchor' \in [Anchor -> Seq(Entry)]
  <2>1. \A a \in Anchor : InOrder(AtStart(repo, a)) \in Seq(Entry)
    BY AtStartShape, InOrderShape
  <2> QED
    BY <2>1 DEF Restart, Bootstrap
<1>3. byQualified' \in [Name -> Gen \union {0}]
  BY GenFacts DEF Restart, Bootstrap
<1>4. /\ repo' \in [Name -> RowType]
      /\ \A n \in Name : repo'[n] # NoRow => repo'[n].gen \in Gen /\ repo'[n].path \in Binary
  <2>1. \A n \in Name : repo'[n] = IF repo[n] = NoRow THEN NoRow ELSE [repo[n] EXCEPT !.gen = 1]
    BY DEF Restart
  <2>2. \A n \in Name : repo[n] # NoRow => repo[n].path \in Binary
    BY DEF Typed, RowShape
  <2>3. \A n \in Name : repo'[n] \in RowType /\ (repo'[n] # NoRow => repo'[n].gen \in Gen /\ repo'[n].path \in Binary)
    <3> SUFFICES ASSUME NEW n \in Name
                 PROVE  repo'[n] \in RowType /\ (repo'[n] # NoRow => repo'[n].gen \in Gen /\ repo'[n].path \in Binary)
      OBVIOUS
    <3>1. CASE repo[n] = NoRow
      BY <2>1, <3>1, IdleFacts
    <3>2. CASE repo[n] # NoRow
      <4>1. repo'[n] = [repo[n] EXCEPT !.gen = 1] /\ repo[n].path \in Binary /\ repo[n] \in RowType
        BY <1>1, <2>1, <2>2, <3>2
      <4> QED
        BY <4>1, GenFacts DEF RowType
    <3> QED
      BY <3>1, <3>2
  <2> QED
    BY <2>3 DEF Restart
<1>5. call' \in [Caller -> CallType] /\ \A c \in Caller : call'[c].pc = "idle"
  BY IdleFacts DEF Restart
<1>6. restarts' \in 0..MaxRestarts /\ flagged' \subseteq Name /\ UNCHANGED <<durable, faults, raced, doubt>>
  BY <1>1, RegistryAssumption DEF Restart
<1> QED
  BY <1>1, <1>2, <1>3, <1>4, <1>5, <1>6 DEF Typed, TypeOK, RowType, CallType, CallShape, RowShape

LEMMA TypedStep == Typed /\ [Next]_vars => Typed'
<1> SUFFICES ASSUME Typed, [Next]_vars PROVE Typed'
  OBVIOUS
<1>1. CASE UNCHANGED vars
  BY <1>1 DEF vars, Typed, TypeOK, CallShape, RowShape, Started
<1>2. ASSUME NEW c \in Caller, Step(c) PROVE Typed'
  <2>1. TypeOK' /\ RowShape'
    BY <1>2, StepTypes
  <2>2. CallShape'
    BY <1>2, StepOthers DEF Others, Typed, CallShape, Started
  <2> QED
    BY <2>1, <2>2 DEF Typed
<1> QED
  BY <1>1, <1>2, RestartTypes DEF Next

LEMMA TypedInit == Init => Typed
<1> SUFFICES ASSUME Init PROVE Typed
  OBVIOUS
<1>1. byAnchor \in [Anchor -> Seq(Entry)] /\ byQualified \in [Name -> Gen \union {0}]
  BY EmptySeq DEF Init
<1>2. call \in [Caller -> CallType] /\ repo \in [Name -> RowType] /\ \A c \in Caller : call[c].pc = "idle"
  BY IdleFacts DEF Init
<1>3. faults \in 0..MaxFaults /\ restarts \in 0..MaxRestarts
  BY RegistryAssumption DEF Init
<1> QED
  BY <1>1, <1>2, <1>3 DEF Init, Typed, TypeOK, RowType, CallType, CallShape, RowShape

(* Whatever callers, repository faults and restarts do, the registry, the   *)
(* table and the calls keep their types.                                    *)
THEOREM TypeCorrect == Spec => []TypeOK
<1>1. Spec => []Typed
  BY TypedInit, TypedStep, PTL DEF Spec
<1> QED
  BY <1>1, PTL DEF Typed
-----------------------------------------------------------------------------
(* What the steps do to the entries listed under a name                     *)

LEMMA NamesDiffer == \A m, n \in Name : m[1] = n[1] /\ m[2] = n[2] => m = n
BY NameFacts

LEMMA InsertEffect ==
  ASSUME Typed, NEW c \in Caller, call[c].pc = "insert", insertLocked(call[c].qn, Authored(c)),
         NEW m \in Name
  PROVE  Listed(m)' = IF m = call[c].qn THEN Listed(m) \union {Authored(c)} ELSE Listed(m)
<1>1. PICK n \in Name : n = call[c].qn
  BY AuthoredType
<1>2. PICK e \in Entry : e = Authored(c) /\ e.v = n[2]
  BY <1>1, AuthoredType DEF Authored
<1>3. /\ byAnchor \in [Anchor -> Seq(Entry)]
      /\ n[1] \in Anchor /\ m[1] \in Anchor
      /\ byAnchor' = [byAnchor EXCEPT ![n[1]] = appendSortedDesc(byAnchor[n[1]], e)]
  BY <1>1, <1>2, NameFacts DEF Typed, TypeOK, insertLocked
<1>4. Range(appendSortedDesc(byAnchor[n[1]], e)) = Range(byAnchor[n[1]]) \union {e}
  BY <1>3, AppendSorted
<1>5. Listed(m)' = {x \in Range(byAnchor'[m[1]]) : x.v = m[2]}
  BY DEF Listed
<1>6. CASE m[1] # n[1]
  BY <1>1, <1>3, <1>5, <1>6 DEF Listed
<1>7. CASE m[1] = n[1]
  <2>1. Listed(m)' = {x \in Range(byAnchor[m[1]]) \union {e} : x.v = m[2]}
    BY <1>3, <1>4, <1>5, <1>7
  <2>2. e.v = m[2] <=> m = n
    BY <1>2, <1>7, NamesDiffer
  <2> QED
    BY <1>1, <1>2, <2>1, <2>2 DEF Listed
<1> QED
  BY <1>6, <1>7

LEMMA RemoveEffect ==
  ASSUME Typed, NEW c \in Caller, removeLocked(call[c].qn, call[c].gen), NEW m \in Name
  PROVE  /\ Listed(m)' \subseteq Listed(m)
         /\ m # call[c].qn => Listed(m)' = Listed(m)
         /\ \A x \in Listed(m) : x.gen # call[c].gen => x \in Listed(m)'
         /\ m = call[c].qn /\ Strict(byAnchor[m[1]]) => \A x \in Listed(m)' : x.gen # call[c].gen
<1>1. PICK n \in Name : n = call[c].qn
  BY DEF Typed, TypeOK
<1>2. PICK g : g = call[c].gen
  OBVIOUS
<1>3. /\ byAnchor \in [Anchor -> Seq(Entry)]
      /\ n[1] \in Anchor /\ m[1] \in Anchor
      /\ byAnchor' = [byAnchor EXCEPT ![n[1]] = Without(byAnchor[n[1]], n[2], g)]
  BY <1>1, <1>2, NameFacts DEF Typed, TypeOK, removeLocked
<1>4. PICK l \in Seq(Entry) : l = byAnchor[n[1]]
  BY <1>3
<1>5. PICK r : r = Without(l, n[2], g)
  OBVIOUS
<1>6. /\ Range(r) \subseteq Range(l)
      /\ \A x \in Range(l) : x.v # n[2] \/ x.gen # g => x \in Range(r)
      /\ Strict(l) => \A x \in Range(r) : x.v # n[2] \/ x.gen # g
  BY <1>4, <1>5, WithoutShape
<1>7. byAnchor' = [byAnchor EXCEPT ![n[1]] = r]
  BY <1>3, <1>4, <1>5
<1>8. /\ Listed(m)' = {x \in Range(byAnchor'[m[1]]) : x.v = m[2]}
      /\ Listed(m) = {x \in Range(byAnchor[m[1]]) : x.v = m[2]}
  BY DEF Listed
<1>9. CASE m[1] # n[1]
  <2>1. Listed(m)' = Listed(m) /\ m # n
    BY <1>3, <1>7, <1>8, <1>9
  <2> QED
    BY <1>1, <2>1
<1>10. CASE m[1] = n[1]
  <2>1. /\ Listed(m)' = {x \in Range(r) : x.v = m[2]}
        /\ Listed(m) = {x \in Range(l) : x.v = m[2]}
    BY <1>3, <1>4, <1>7, <1>8, <1>10
  <2>2. m # n => m[2] # n[2]
    BY <1>10, NamesDiffer
  <2>3. m # n => Listed(m)' = Listed(m)
    BY <2>1, <2>2, <1>6
  <2>4. \A x \in Listed(m) : x.gen # g => x \in Listed(m)'
    BY <2>1, <1>6
  <2>5. m = n /\ Strict(l) => \A x \in Listed(m)' : x.gen # g
    BY <2>1, <1>6
  <2> QED
    BY <2>1, <2>3, <2>4, <2>5, <1>1, <1>2, <1>4, <1>6, <1>10
<1> QED
  BY <1>9, <1>10

LEMMA MarkEffect ==
  ASSUME Typed, NEW c \in Caller, MarkDeprecated(c), NEW m \in Name
  PROVE  Listed(m)' = IF m = call[c].qn THEN {Flag(x, call[c].gen) : x \in Listed(m)} ELSE Listed(m)
<1>1. PICK n \in Name : n = call[c].qn
  BY DEF Typed, TypeOK
<1>2. PICK g : g = call[c].gen
  OBVIOUS
<1>3. /\ byAnchor \in [Anchor -> Seq(Entry)]
      /\ n[1] \in Anchor /\ m[1] \in Anchor
      /\ byAnchor' = [byAnchor EXCEPT ![n[1]] = Marked(byAnchor[n[1]], n[2], g)]
  BY <1>1, <1>2, NameFacts DEF Typed, TypeOK, MarkDeprecated
<1>4. PICK l \in Seq(Entry) : l = byAnchor[n[1]]
  BY <1>3
<1>5. PICK v : v = n[2]
  OBVIOUS
<1>6. PICK r : r = Marked(l, v, g)
  OBVIOUS
<1>7. /\ \A x \in Range(l) : (IF x.v = v THEN Flag(x, g) ELSE x) \in Range(r)
      /\ \A y \in Range(r) : \E x \in Range(l) : y = IF x.v = v THEN Flag(x, g) ELSE x
  BY <1>6, MarkedShape
<1>8. byAnchor' = [byAnchor EXCEPT ![n[1]] = r]
  BY <1>3, <1>4, <1>5, <1>6
<1>9. \A x \in Range(l) : Flag(x, g).v = x.v
  BY FlagFacts, RangeOfSeq
<1>10. /\ Listed(m)' = {x \in Range(byAnchor'[m[1]]) : x.v = m[2]}
       /\ Listed(m) = {x \in Range(byAnchor[m[1]]) : x.v = m[2]}
  BY DEF Listed
<1>11. CASE m[1] # n[1]
  <2>1. Listed(m)' = Listed(m) /\ m # n
    BY <1>3, <1>8, <1>10, <1>11
  <2> QED
    BY <1>1, <2>1
<1>12. CASE m[1] = n[1]
  <2>1. /\ Listed(m)' = {x \in Range(r) : x.v = m[2]}
        /\ Listed(m) = {x \in Range(l) : x.v = m[2]}
    BY <1>3, <1>4, <1>8, <1>10, <1>12
  <2>2. CASE m = n
    <3>1. \A y : y \in Listed(m)' <=> \E x \in Listed(m) : y = Flag(x, g)
      BY <1>5, <1>7, <1>9, <2>1, <2>2
    <3>2. Listed(m)' = {Flag(x, g) : x \in Listed(m)}
      BY <3>1
    <3> QED
      BY <1>1, <1>2, <2>2, <3>2, Zenon
  <2>3. CASE m # n
    <3>1. m[2] # v
      BY <1>5, <1>12, <2>3, NamesDiffer
    <3>2. \A y : y \in Listed(m)' <=> y \in Listed(m)
      BY <1>7, <1>9, <2>1, <3>1
    <3> QED
      BY <1>1, <2>3, <3>2
  <2> QED
    BY <2>2, <2>3
<1> QED
  BY <1>11, <1>12

LEMMA RestartEffect ==
  ASSUME Typed, Restart, NEW m \in Name
  PROVE  Listed(m)' = (IF durable /\ repo[m] # NoRow THEN {fromPersistEntry(m, repo[m])} ELSE {})
                      \union (IF BuiltinName(m) THEN {Register} ELSE {})
<1>1. m[1] \in Anchor
  BY NameFacts
<1>2. Range(byAnchor'[m[1]]) = AtStart(repo, m[1])
  <2>1. byAnchor'[m[1]] = InOrder(AtStart(repo, m[1]))
    BY <1>1 DEF Restart, Bootstrap
  <2> QED
    BY <1>1, <2>1, AtStartShape, InOrderShape
<1>3. Listed(m)' = {x \in AtStart(repo, m[1]) : x.v = m[2]}
  BY <1>2 DEF Listed
<1>4. {x \in Stored(repo, m[1]) : x.v = m[2]} =
         IF durable /\ repo[m] # NoRow THEN {fromPersistEntry(m, repo[m])} ELSE {}
  <2>1. \A n \in Name : fromPersistEntry(n, repo[n]).v = n[2]
    BY DEF fromPersistEntry
  <2>2. \A n \in Name : n[1] = m[1] /\ n[2] = m[2] => n = m
    BY NamesDiffer
  <2>3. \A x : x \in Stored(repo, m[1]) <=>
            \E n \in Name : n[1] = m[1] /\ durable /\ repo[n] # NoRow /\ x = fromPersistEntry(n, repo[n])
    BY DEF Stored
  <2> QED
    BY <2>1, <2>2, <2>3
<1>5. {x \in (IF m[1] \in Builtin THEN {Register} ELSE {}) : x.v = m[2]} =
         IF BuiltinName(m) THEN {Register} ELSE {}
  BY DEF BuiltinName, Register
<1> QED
  BY <1>3, <1>4, <1>5 DEF AtStart
-----------------------------------------------------------------------------
(* The two indexes                                                          *)

LEMMA ListedTypes ==
  ASSUME Typed, NEW n \in Name
  PROVE  /\ Listed(n) \subseteq Entry
         /\ \A x \in Listed(n) : x.gen \in Nat \ {0} /\ x \in Range(byAnchor[n[1]]) /\ x.v = n[2]
<1>1. byAnchor[n[1]] \in Seq(Entry)
  BY NameFacts DEF Typed, TypeOK
<1>2. Range(byAnchor[n[1]]) \subseteq Entry
  BY <1>1, RangeOfSeq
<1> QED
  BY <1>2, EntryVersion DEF Listed

LEMMA RacedStays ==
  ASSUME Next, ~raced'
  PROVE  ~raced
<1>1. ASSUME NEW c \in Caller, Step(c) PROVE ~raced
  BY <1>1, StepCases, BeginsFrame DEF Upsert, Insert, RepoDeprecate, MarkDeprecated, RepoDelete, RemoveEntry
<1> QED
  BY <1>1 DEF Next, Restart

(* Which steps change the lists.                                            *)
LEMMA ListSteps ==
  ASSUME Typed, NEW c \in Caller, Step(c)
  PROVE  \/ UNCHANGED <<byAnchor, byQualified>>
         \/ Insert(c) /\ call[c].pc = "insert" /\ byQualified[call[c].qn] = 0
            /\ insertLocked(call[c].qn, Authored(c)) /\ UNCHANGED <<repo, raced, doubt>>
         \/ MarkDeprecated(c) /\ UNCHANGED <<byQualified, repo, doubt>>
         \/ RemoveEntry(c) /\ removeLocked(call[c].qn, call[c].gen) /\ UNCHANGED <<repo, doubt>>
BY StepCases, BeginsFrame DEF Upsert, Insert, RepoDeprecate, MarkDeprecated, RepoDelete, RemoveEntry

LEMMA OwnName ==
  ASSUME Typed, NEW c \in Caller
  PROVE  call[c].qn \in Name /\ call[c].qn[1] \in Anchor /\ byAnchor[call[c].qn[1]] \in Seq(Entry)
BY NameFacts DEF Typed, TypeOK

LEMMA NamesStep == Typed /\ ListedNames /\ Next => ListedNames'
<1> SUFFICES ASSUME Typed, ListedNames, Next, NEW a \in Anchor, NEW x \in Range(byAnchor'[a])
             PROVE  <<a, x.v>> \in Name
  BY DEF ListedNames
<1>1. byAnchor \in [Anchor -> Seq(Entry)]
  BY DEF Typed, TypeOK
<1>2. CASE Restart
  <2>1. x \in AtStart(repo, a)
    <3>1. byAnchor'[a] = InOrder(AtStart(repo, a))
      BY <1>2 DEF Restart, Bootstrap
    <3> QED
      BY <3>1, AtStartShape, InOrderShape
  <2>2. CASE x \in Stored(repo, a)
    <3>1. PICK n \in Name : n[1] = a /\ x = fromPersistEntry(n, repo[n])
      BY <2>2 DEF Stored
    <3> QED
      BY <3>1, NameFacts DEF fromPersistEntry
  <2>3. CASE a \in Builtin /\ x = Register
    BY <2>3, RegistryAssumption DEF Register
  <2> QED
    BY <2>1, <2>2, <2>3 DEF AtStart
<1>3. ASSUME NEW c \in Caller, Step(c) PROVE <<a, x.v>> \in Name
  <2>1. PICK n \in Name : n = call[c].qn /\ n[1] \in Anchor /\ byAnchor[n[1]] \in Seq(Entry)
                          /\ n = <<n[1], n[2]>>
    BY OwnName, NameFacts
  <2>2. CASE UNCHANGED byAnchor \/ a # n[1]
    <3>1. byAnchor'[a] = byAnchor[a]
      BY <1>1, <1>3, <2>1, <2>2, ListSteps DEF insertLocked, removeLocked, MarkDeprecated
    <3> QED
      BY <3>1 DEF ListedNames
  <2>3. CASE call[c].pc = "insert" /\ insertLocked(call[c].qn, Authored(c)) /\ a = n[1]
    <3>1. Range(byAnchor'[a]) = Range(byAnchor[a]) \union {Authored(c)}
      <4>1. byAnchor'[a] = appendSortedDesc(byAnchor[a], Authored(c))
        BY <1>1, <2>1, <2>3 DEF insertLocked
      <4> QED
        BY <2>1, <2>3, <4>1, AppendSorted, AuthoredType
    <3> QED
      BY <2>1, <2>3, <3>1 DEF ListedNames, Authored
  <2>4. CASE MarkDeprecated(c) /\ a = n[1]
    <3>1. byAnchor'[a] = Marked(byAnchor[a], n[2], call[c].gen)
      BY <1>1, <2>1, <2>4 DEF MarkDeprecated
    <3>2. PICK y \in Range(byAnchor[a]) : x = IF y.v = n[2] THEN Flag(y, call[c].gen) ELSE y
      BY <2>1, <2>4, <3>1, MarkedShape
    <3>3. y \in Entry
      BY <2>1, <2>4, RangeOfSeq
    <3>4. x.v = y.v
      BY <3>2, <3>3, FlagFacts
    <3> QED
      BY <3>4 DEF ListedNames
  <2>5. CASE removeLocked(call[c].qn, call[c].gen) /\ a = n[1]
    <3>1. byAnchor'[a] = Without(byAnchor[a], n[2], call[c].gen)
      BY <1>1, <2>1, <2>5 DEF removeLocked
    <3>2. x \in Range(byAnchor[a])
      BY <2>1, <2>5, <3>1, WithoutShape
    <3> QED
      BY <3>2 DEF ListedNames
  <2> QED
    BY <1>3, <2>2, <2>3, <2>4, <2>5, ListSteps
<1> QED
  BY <1>2, <1>3 DEF Next

LEMMA SortedStep == Typed /\ Sorted /\ Once /\ BuiltinsKept /\ Next => Sorted'
<1> SUFFICES ASSUME Typed, Sorted, Once, BuiltinsKept, Next, ~raced', NEW a \in Anchor
             PROVE  Strict(byAnchor'[a])
  BY DEF Sorted, Strict
<1>1. byAnchor \in [Anchor -> Seq(Entry)] /\ Strict(byAnchor[a]) /\ ~raced
  BY RacedStays DEF Typed, TypeOK, Sorted
<1>2. CASE Restart
  <2>1. byAnchor'[a] = InOrder(AtStart(repo, a))
    BY <1>2 DEF Restart, Bootstrap
  <2>2. ASSUME NEW x \in AtStart(repo, a), NEW y \in AtStart(repo, a), x.v = y.v
        PROVE  x = y
    <3>1. ASSUME NEW z \in Stored(repo, a)
          PROVE  \E n \in Name : n[1] = a /\ repo[n] # NoRow /\ z = fromPersistEntry(n, repo[n])
                                 /\ z.v = n[2] /\ ~BuiltinName(n)
      BY <3>1 DEF Stored, fromPersistEntry, BuiltinsKept
    <3>2. CASE x \in Stored(repo, a) /\ y \in Stored(repo, a)
      <4>1. PICK m \in Name : m[1] = a /\ x = fromPersistEntry(m, repo[m]) /\ x.v = m[2]
        BY <3>1, <3>2
      <4>2. PICK n \in Name : n[1] = a /\ y = fromPersistEntry(n, repo[n]) /\ y.v = n[2]
        BY <3>1, <3>2
      <4> QED
        BY <2>2, <4>1, <4>2, NamesDiffer
    <3>3. ASSUME NEW z \in Stored(repo, a), a \in Builtin PROVE z.v # 1
      BY <3>1, <3>3 DEF BuiltinName
    <3>4. \A z \in AtStart(repo, a) : z \in Stored(repo, a) \/ (a \in Builtin /\ z = Register /\ z.v = 1)
      BY DEF AtStart, Register
    <3> QED
      BY <2>2, <3>2, <3>3, <3>4
  <2> QED
    BY <2>1, <2>2, AtStartShape, InOrderShape
<1>3. ASSUME NEW c \in Caller, Step(c) PROVE Strict(byAnchor'[a])
  <2>1. PICK n \in Name : n = call[c].qn /\ n[1] \in Anchor /\ byAnchor[n[1]] \in Seq(Entry)
    BY OwnName
  <2>2. CASE UNCHANGED byAnchor \/ a # n[1]
    <3>1. byAnchor'[a] = byAnchor[a]
      BY <1>1, <1>3, <2>1, <2>2, ListSteps DEF insertLocked, removeLocked, MarkDeprecated
    <3> QED
      BY <1>1, <3>1
  <2>3. CASE call[c].pc = "insert" /\ byQualified[call[c].qn] = 0 /\ insertLocked(call[c].qn, Authored(c)) /\ a = n[1]
    <3>1. byAnchor'[a] = appendSortedDesc(byAnchor[a], Authored(c))
      BY <1>1, <2>1, <2>3 DEF insertLocked
    <3>2. Listed(n) = {}
      BY <1>1, <2>1, <2>3, ListedTypes DEF Once
    <3>3. \A x \in Range(byAnchor[a]) : x.v # Authored(c).v
      BY <2>1, <2>3, <3>2 DEF Listed, Authored
    <3> QED
      BY <1>1, <2>1, <2>3, <3>1, <3>3, AppendSorted, AuthoredType
  <2>4. CASE MarkDeprecated(c) /\ a = n[1]
    <3>1. byAnchor'[a] = Marked(byAnchor[a], n[2], call[c].gen)
      BY <1>1, <2>1, <2>4 DEF MarkDeprecated
    <3> QED
      BY <1>1, <2>1, <2>4, <3>1, MarkedShape
  <2>5. CASE removeLocked(call[c].qn, call[c].gen) /\ a = n[1]
    <3>1. byAnchor'[a] = Without(byAnchor[a], n[2], call[c].gen)
      BY <1>1, <2>1, <2>5 DEF removeLocked
    <3> QED
      BY <1>1, <2>1, <2>5, <3>1, WithoutShape
  <2> QED
    BY <1>3, <2>2, <2>3, <2>4, <2>5, ListSteps
<1> QED
  BY <1>2, <1>3 DEF Next

LEMMA OnceStep == Typed /\ Sorted /\ Once /\ BuiltinsKept /\ Next => Once'
<1> SUFFICES ASSUME Typed, Sorted, Once, BuiltinsKept, Next, ~raced', NEW m \in Name
             PROVE  /\ \A x \in Listed(m)' : x.gen = byQualified'[m]
                    /\ byQualified'[m] # 0 => Listed(m)' # {}
  BY DEF Once
<1>1. ~raced
  BY RacedStays
<1>2. /\ \A x \in Listed(m) : x.gen = byQualified[m]
      /\ byQualified[m] # 0 => Listed(m) # {}
      /\ byQualified \in [Name -> Gen \union {0}]
  BY <1>1 DEF Once, Typed, TypeOK
<1>3. CASE Restart
  <2>1. byQualified'[m] = IF BuiltinName(m) THEN 2 ELSE IF durable /\ repo[m] # NoRow THEN 1 ELSE 0
    BY <1>3 DEF Restart, Bootstrap, BuiltinName
  <2>2. BuiltinName(m) => repo[m] = NoRow
    BY DEF BuiltinsKept
  <2>3. Register.gen = 2 /\ fromPersistEntry(m, repo[m]).gen = 1
    BY DEF Register, fromPersistEntry
  <2>4. Listed(m)' = (IF durable /\ repo[m] # NoRow THEN {fromPersistEntry(m, repo[m])} ELSE {})
                      \union (IF BuiltinName(m) THEN {Register} ELSE {})
    BY <1>3, RestartEffect
  <2> QED
    BY <2>1, <2>2, <2>3, <2>4
<1>4. ASSUME NEW c \in Caller, Step(c)
      PROVE  /\ \A x \in Listed(m)' : x.gen = byQualified'[m]
             /\ byQualified'[m] # 0 => Listed(m)' # {}
  <2>1. PICK n \in Name : n = call[c].qn /\ n[1] \in Anchor
    BY OwnName
  <2>2. CASE UNCHANGED <<byAnchor, byQualified>>
    BY <1>2, <2>2 DEF Listed
  <2>3. CASE call[c].pc = "insert" /\ byQualified[call[c].qn] = 0 /\ insertLocked(call[c].qn, Authored(c))
    <3>1. Listed(m)' = IF m = n THEN Listed(m) \union {Authored(c)} ELSE Listed(m)
      BY <2>1, <2>3, InsertEffect
    <3>2. byQualified'[m] = IF m = n THEN Authored(c).gen ELSE byQualified[m]
      BY <1>2, <2>1, <2>3 DEF insertLocked
    <3>3. m = n => Listed(m) = {}
      BY <1>2, <2>1, <2>3, ListedTypes
    <3> QED
      BY <1>2, <3>1, <3>2, <3>3
  <2>4. CASE MarkDeprecated(c) /\ UNCHANGED byQualified
    <3>1. Listed(m)' = IF m = call[c].qn THEN {Flag(x, call[c].gen) : x \in Listed(m)} ELSE Listed(m)
      BY <2>4, MarkEffect
    <3>2. \A x \in Listed(m) : Flag(x, call[c].gen).gen = x.gen
      BY ListedTypes, FlagFacts
    <3> QED
      BY <1>2, <2>4, <3>1, <3>2
  <2>5. CASE RemoveEntry(c) /\ removeLocked(call[c].qn, call[c].gen)
    <3>1. Strict(byAnchor[n[1]]) /\ byQualified[n] = call[c].gen
      BY <1>1, <2>1, <2>5 DEF Sorted, RemoveEntry
    <3>2. byQualified'[m] = IF m = n THEN 0 ELSE byQualified[m]
      BY <1>2, <2>1, <2>5 DEF removeLocked
    <3>3. m = n => Listed(m)' = {}
      BY <1>2, <2>1, <2>5, <3>1, RemoveEffect
    <3>4. m # n => Listed(m)' = Listed(m)
      BY <2>1, <2>5, RemoveEffect
    <3> QED
      BY <1>2, <3>2, <3>3, <3>4
  <2> QED
    BY <1>4, <2>2, <2>3, <2>4, <2>5, ListSteps
<1> QED
  BY <1>3, <1>4 DEF Next

LEMMA BuiltinsStep == Typed /\ BuiltinsKept /\ Next => BuiltinsKept'
<1> SUFFICES ASSUME Typed, BuiltinsKept, Next, NEW n \in Name, BuiltinName(n)
             PROVE  /\ Started' => /\ byQualified'[n] = 2
                                   /\ \E x \in Listed(n)' : x.gen = 2
                                   /\ \A x \in Listed(n)' : x.origin = "builtin"
                    /\ repo'[n] = NoRow
                    /\ \A d \in Caller : call'[d].qn = n => call'[d].pc \in {"idle", "flag", "mark"}
  BY DEF BuiltinsKept, BuiltinName
<1>1. /\ Started => /\ byQualified[n] = 2
                    /\ \E x \in Listed(n) : x.gen = 2
                    /\ \A x \in Listed(n) : x.origin = "builtin"
      /\ repo[n] = NoRow
      /\ \A d \in Caller : call[d].qn = n => call[d].pc \in {"idle", "flag", "mark"}
  BY DEF BuiltinsKept
<1>2. CASE Restart
  <2>1. Listed(n)' = {Register}
    BY <1>1, <1>2, RestartEffect
  <2> QED
    BY <1>1, <1>2, <2>1, IdleFacts DEF Restart, Bootstrap, BuiltinName, Register
<1>3. ASSUME NEW c \in Caller, Step(c)
      PROVE  /\ Started' => /\ byQualified'[n] = 2
                            /\ \E x \in Listed(n)' : x.gen = 2
                            /\ \A x \in Listed(n)' : x.origin = "builtin"
             /\ repo'[n] = NoRow
             /\ \A d \in Caller : call'[d].qn = n => call'[d].pc \in {"idle", "flag", "mark"}
  <2>1. /\ Others(c) /\ Started' = Started
        /\ call'[c].pc # "idle" => Started
    BY <1>3, StepOthers DEF Started
  <2>2. /\ byQualified \in [Name -> Gen \union {0}] /\ repo \in [Name -> RowType]
        /\ call[c].pc # "idle" => Started
        /\ call[c].qn \in Name /\ call \in [Caller -> CallType]
    BY DEF Typed, TypeOK, CallShape, CallType, RowType
  <2>3. call'[c].qn = n => call'[c].pc \in {"idle", "flag", "mark"}
    <3>1. CASE Return(c)
      BY <2>2, <3>1, IdleFacts DEF Return
    <3>2. ASSUME Goto(c, "insert") \/ Goto(c, "remove"), call[c].pc \in {"upsert", "delete"}
          PROVE  call'[c].qn # n
      BY <1>1, <2>2, <3>2 DEF Goto, CallType
    <3>3. ASSUME Goto(c, "mark") PROVE call'[c].pc = "mark"
      BY <2>2, <3>3 DEF Goto, CallType
    <3>4. ASSUME NEW m \in Name, NEW p \in Binary, RegisterEntry(c, m, p) PROVE call'[c].qn # n
      BY <1>1, <2>2, <3>4 DEF RegisterEntry
    <3>5. ASSUME NEW m \in Name, Unregister(c, m) PROVE call'[c].qn # n
      <4>1. SUFFICES ASSUME m = n PROVE FALSE
        BY <2>2, <3>5 DEF Unregister
      <4>2. EntryOf(n).origin = "agent-authored" /\ Started
        BY <3>5, <4>1 DEF Unregister
      <4>3. EntryOf(n) \in Listed(n)
        BY <1>1, <4>2 DEF EntryOf
      <4> QED
        BY <1>1, <4>2, <4>3
    <3>6. ASSUME NEW m \in Name, DeprecateOf(c, m) PROVE call'[c].pc \in {"flag", "mark"}
      BY <2>2, <3>6 DEF DeprecateOf
    <3>7. CASE Begins(c)
      BY <3>4, <3>5, <3>6, <3>7 DEF Begins
    <3>8. CASE Upsert(c)
      BY <3>1, <3>2, <3>8 DEF Upsert
    <3>9. CASE RepoDelete(c)
      BY <3>1, <3>2, <3>9 DEF RepoDelete
    <3>10. CASE RepoDeprecate(c)
      BY <3>1, <3>3, <3>10 DEF RepoDeprecate
    <3>11. CASE Insert(c) \/ MarkDeprecated(c) \/ RemoveEntry(c)
      BY <3>1, <3>11 DEF Insert, MarkDeprecated, RemoveEntry
    <3> QED
      BY <1>3, <3>7, <3>8, <3>9, <3>10, <3>11, StepCases
  <2>4. \A d \in Caller : call'[d].qn = n => call'[d].pc \in {"idle", "flag", "mark"}
    BY <1>1, <2>1, <2>3 DEF Others
  <2>5. repo'[n] = NoRow
    <3>1. CASE call[c].qn # n
      BY <1>1, <1>3, <2>2, <3>1, StepCases, BeginsFrame
         DEF Upsert, Insert, RepoDeprecate, MarkDeprecated, RepoDelete, RemoveEntry, RepoFails
    <3>2. CASE call[c].qn = n
      BY <1>1, <1>3, <2>2, <3>2, StepCases, BeginsFrame
         DEF Upsert, Insert, RepoDeprecate, MarkDeprecated, RepoDelete, RemoveEntry
    <3> QED
      BY <3>1, <3>2
  <2>6. ASSUME Started
        PROVE  /\ byQualified'[n] = 2
               /\ \E x \in Listed(n)' : x.gen = 2
               /\ \A x \in Listed(n)' : x.origin = "builtin"
    <3>1. CASE UNCHANGED <<byAnchor, byQualified>>
      BY <1>1, <2>6, <3>1 DEF Listed
    <3>2. CASE call[c].pc = "insert" /\ insertLocked(call[c].qn, Authored(c))
      <4>1. call[c].qn # n
        BY <1>1, <3>2
      <4>2. Listed(n)' = Listed(n)
        BY <3>2, <4>1, InsertEffect
      <4>3. byQualified'[n] = byQualified[n]
        BY <2>2, <3>2, <4>1 DEF insertLocked
      <4> QED
        BY <1>1, <2>6, <4>2, <4>3
    <3>3. CASE MarkDeprecated(c) /\ UNCHANGED byQualified
      <4>1. Listed(n)' = IF n = call[c].qn THEN {Flag(x, call[c].gen) : x \in Listed(n)} ELSE Listed(n)
        BY <3>3, MarkEffect
      <4>2. \A x \in Listed(n) : Flag(x, call[c].gen).gen = x.gen /\ Flag(x, call[c].gen).origin = x.origin
        BY ListedTypes, FlagFacts
      <4> QED
        BY <1>1, <2>6, <3>3, <4>1, <4>2
    <3>4. CASE RemoveEntry(c) /\ removeLocked(call[c].qn, call[c].gen)
      <4>1. call[c].qn # n
        BY <1>1, <3>4 DEF RemoveEntry
      <4>2. Listed(n)' = Listed(n)
        BY <3>4, <4>1, RemoveEffect
      <4>3. byQualified'[n] = byQualified[n]
        BY <2>2, <3>4, <4>1 DEF removeLocked
      <4> QED
        BY <1>1, <2>6, <4>2, <4>3
    <3> QED
      BY <1>3, <3>1, <3>2, <3>3, <3>4, ListSteps
  <2> QED
    BY <2>1, <2>4, <2>5, <2>6
<1> QED
  BY <1>2, <1>3 DEF Next

Index == ListedNames /\ BuiltinsKept /\ Sorted /\ Once

LEMMA IndexInit == Init => Index
<1> SUFFICES ASSUME Init PROVE Index
  OBVIOUS
<1>1. \A a \in Anchor : Range(byAnchor[a]) = {} /\ DOMAIN byAnchor[a] = {}
  BY DEF Init, Range
<1>2. \A n \in Name : Listed(n) = {}
  BY <1>1, NameFacts DEF Listed
<1> QED
  BY <1>1, <1>2, IdleFacts DEF Init, Index, ListedNames, BuiltinsKept, Sorted, Strict, Once, Started

LEMMA IndexStep == Typed /\ Index /\ [Next]_vars => Index'
<1>1. Index /\ UNCHANGED vars => Index'
  <2> SUFFICES ASSUME Index, UNCHANGED vars PROVE Index'
    OBVIOUS
  <2>1. UNCHANGED <<byQualified, byAnchor, repo, call, restarts, raced>>
    BY DEF vars
  <2>2. ListedNames' /\ Sorted'
    BY <2>1 DEF Index, ListedNames, Sorted
  <2>3. Once'
    BY <2>1 DEF Index, Once, Listed
  <2>4. BuiltinsKept'
    BY <2>1 DEF Index, BuiltinsKept, BuiltinName, Listed, Started
  <2> QED
    BY <2>2, <2>3, <2>4 DEF Index
<1> QED
  BY <1>1, NamesStep, BuiltinsStep, SortedStep, OnceStep DEF Index

LEMMA IndexInvariant == Spec => [](Typed /\ Index)
BY TypedInit, TypedStep, IndexInit, IndexStep, PTL DEF Spec

(* The two indexes never disagree, for any number of callers, names and     *)
(* restarts, as long as no call came back to find its entry replaced.       *)
THEOREM IndexesAgreeHolds == Spec => []IndexesAgree
<1>1. Typed /\ Index => IndexesAgree
  <2> SUFFICES ASSUME Typed, Index, ~raced, NEW a \in Anchor
               PROVE  /\ \A n \in Name : n[1] = a /\ byQualified[n] # 0 =>
                           \E i \in DOMAIN byAnchor[a] :
                              byAnchor[a][i].v = n[2] /\ byAnchor[a][i].gen = byQualified[n]
                      /\ \A i \in DOMAIN byAnchor[a] :
                           byQualified[<<a, byAnchor[a][i].v>>] = byAnchor[a][i].gen
                      /\ \A i, j \in DOMAIN byAnchor[a] : i < j => byAnchor[a][i].v > byAnchor[a][j].v
    BY DEF IndexesAgree
  <2>1. ASSUME NEW n \in Name, n[1] = a, byQualified[n] # 0
        PROVE  \E i \in DOMAIN byAnchor[a] :
                 byAnchor[a][i].v = n[2] /\ byAnchor[a][i].gen = byQualified[n]
    <3>1. PICK x \in Listed(n) : x.gen = byQualified[n]
      BY <2>1 DEF Index, Once
    <3> QED
      BY <2>1, <3>1 DEF Listed, Range
  <2>2. ASSUME NEW i \in DOMAIN byAnchor[a]
        PROVE  byQualified[<<a, byAnchor[a][i].v>>] = byAnchor[a][i].gen
    <3>1. PICK x : x = byAnchor[a][i]
      OBVIOUS
    <3>2. x \in Range(byAnchor[a])
      BY <3>1 DEF Range
    <3>3. PICK n \in Name : n = <<a, x.v>>
      BY <3>2 DEF Index, ListedNames
    <3>4. x \in Listed(n)
      BY <3>2, <3>3 DEF Listed
    <3> QED
      BY <3>1, <3>3, <3>4 DEF Index, Once
  <2>3. \A i, j \in DOMAIN byAnchor[a] : i < j => byAnchor[a][i].v > byAnchor[a][j].v
    BY DEF Index, Sorted, Strict
  <2> QED
    BY <2>1, <2>2, <2>3
<1> QED
  BY <1>1, IndexInvariant, PTL
-----------------------------------------------------------------------------
(* Deprecated tools                                                         *)

Flags == FlaggedRows /\ FlaggedListed

LEMMA FlaggedRowsStep == Typed /\ Index /\ FlaggedRows /\ Next => FlaggedRows'
<1> SUFFICES ASSUME Typed, Index, FlaggedRows, Next, durable', NEW n \in flagged'
             PROVE  (repo'[n] = NoRow \/ repo'[n].dep) /\ ~BuiltinName(n)
  BY DEF FlaggedRows, BuiltinName
<1>1. repo \in [Name -> RowType] /\ flagged \subseteq Name
  BY DEF Typed, TypeOK, RowType
<1>2. CASE Restart
  <2>1. durable /\ n \in flagged /\ n \in Name
    BY <1>1, <1>2 DEF Restart
  <2>2. (repo[n] = NoRow \/ repo[n].dep) /\ ~BuiltinName(n)
    BY <2>1 DEF FlaggedRows
  <2>3. repo'[n] = IF repo[n] = NoRow THEN NoRow ELSE [repo[n] EXCEPT !.gen = 1]
    BY <1>2, <2>1 DEF Restart
  <2>4. \A r \in RowType : [r EXCEPT !.gen = 1].dep = r.dep
    BY DEF RowType
  <2> QED
    BY <1>1, <2>1, <2>2, <2>3, <2>4
<1>3. ASSUME NEW c \in Caller, Step(c)
      PROVE  (repo'[n] = NoRow \/ repo'[n].dep) /\ ~BuiltinName(n)
  <2>1. durable /\ call[c].qn \in Name
    BY <1>3, StepOthers, OwnName
  <2>2. n \in flagged => (repo[n] = NoRow \/ repo[n].dep) /\ ~BuiltinName(n) /\ n \in Name
    BY <1>1, <2>1 DEF FlaggedRows
  <2>3. CASE Begins(c)
    BY <2>2, <2>3, BeginsFrame
  <2>4. CASE Upsert(c)
    <3>1. n \in flagged /\ (n = call[c].qn => repo'[n] = repo[n])
      BY <2>4 DEF Upsert
    <3>2. n # call[c].qn => repo'[n] = repo[n]
      BY <1>1, <2>1, <2>4 DEF Upsert, RepoFails
    <3> QED
      BY <2>2, <3>1, <3>2
  <2>5. CASE Insert(c) \/ RemoveEntry(c)
    BY <2>2, <2>5 DEF Insert, RemoveEntry
  <2>6. CASE RepoDeprecate(c)
    <3>1. n \in flagged /\ (repo' = repo \/ repo' = [repo EXCEPT ![call[c].qn].dep = TRUE])
      BY <2>6 DEF RepoDeprecate, RepoFails
    <3>2. repo'[n] = repo[n] \/ repo'[n].dep
      BY <1>1, <2>1, <2>2, <3>1 DEF RowType
    <3> QED
      BY <2>2, <3>1, <3>2
  <2>7. CASE RepoDelete(c)
    <3>1. n \in flagged /\ (repo' = repo \/ repo' = [repo EXCEPT ![call[c].qn] = NoRow])
      BY <2>7 DEF RepoDelete, RepoFails
    <3>2. repo'[n] = repo[n] \/ repo'[n] = NoRow
      BY <1>1, <2>1, <2>2, <3>1
    <3> QED
      BY <2>2, <3>1, <3>2
  <2>8. CASE MarkDeprecated(c)
    <3>1. repo' = repo /\ (n \in flagged \/ (n = call[c].qn /\ repo[n].dep))
      BY <2>1, <2>8 DEF MarkDeprecated
    <3>2. n = call[c].qn /\ repo[n].dep => ~BuiltinName(n)
      BY <2>1, IdleFacts DEF Index, BuiltinsKept
    <3> QED
      BY <2>2, <3>1, <3>2
  <2> QED
    BY <1>3, <2>3, <2>4, <2>5, <2>6, <2>7, <2>8, StepCases
<1> QED
  BY <1>2, <1>3 DEF Next

LEMMA FlaggedListedStep == Typed /\ Index /\ Flags /\ Next => FlaggedListed'
<1> SUFFICES ASSUME Typed, Index, Flags, Next, ~raced', NEW n \in flagged', NEW x \in Listed(n)'
             PROVE  x.dep
  BY DEF FlaggedListed
<1>1. ~raced /\ flagged \subseteq Name
  BY RacedStays DEF Typed, TypeOK
<1>2. n \in flagged => \A y \in Listed(n) : y.dep
  BY <1>1 DEF Flags, FlaggedListed
<1>3. CASE Restart
  <2>1. durable /\ n \in flagged /\ n \in Name
    BY <1>1, <1>3 DEF Restart
  <2>2. (repo[n] = NoRow \/ repo[n].dep) /\ ~BuiltinName(n)
    BY <2>1 DEF Flags, FlaggedRows
  <2>3. x = fromPersistEntry(n, repo[n]) /\ repo[n] # NoRow
    BY <1>3, <2>1, <2>2, RestartEffect
  <2> QED
    BY <2>2, <2>3 DEF fromPersistEntry
<1>4. ASSUME NEW c \in Caller, Step(c) PROVE x.dep
  <2>1. PICK q \in Name : q = call[c].qn
    BY OwnName
  <2>2. CASE Begins(c) \/ Upsert(c) \/ RepoDeprecate(c) \/ RepoDelete(c)
    <3>1. n \in flagged /\ UNCHANGED byAnchor
      BY <2>2, BeginsFrame DEF Upsert, RepoDeprecate, RepoDelete
    <3> QED
      BY <1>2, <3>1 DEF Listed
  <2>3. CASE Insert(c)
    <3>1. CASE UNCHANGED <<byAnchor, flagged>>
      BY <1>2, <3>1 DEF Listed
    <3>2. CASE insertLocked(q, Authored(c)) /\ flagged' = flagged \ {q}
      <4>1. n \in Name /\ n # q /\ n \in flagged /\ call[c].pc = "insert"
        BY <1>1, <2>3, <3>2 DEF Insert
      <4>2. Listed(n)' = Listed(n)
        BY <2>1, <3>2, <4>1, InsertEffect
      <4> QED
        BY <1>2, <4>1, <4>2
    <3> QED
      BY <2>1, <2>3, <3>1, <3>2 DEF Insert
  <2>4. CASE RemoveEntry(c)
    <3>1. removeLocked(q, call[c].gen) /\ flagged' = flagged \ {q}
      BY <2>1, <2>4 DEF RemoveEntry
    <3>2. n \in Name /\ n # q /\ n \in flagged
      BY <1>1, <3>1
    <3>3. Listed(n)' = Listed(n)
      BY <2>1, <3>1, <3>2, RemoveEffect
    <3> QED
      BY <1>2, <3>2, <3>3
  <2>5. CASE MarkDeprecated(c)
    <3>1. n \in Name /\ (n \in flagged \/ n = q) /\ byQualified[q] = call[c].gen
      BY <1>1, <2>1, <2>5 DEF MarkDeprecated
    <3>2. Listed(n)' = IF n = q THEN {Flag(y, call[c].gen) : y \in Listed(n)} ELSE Listed(n)
      BY <2>1, <2>5, <3>1, MarkEffect
    <3>3. CASE n # q
      BY <1>2, <3>1, <3>2, <3>3
    <3>4. CASE n = q
      <4>1. PICK y \in Listed(n) : x = Flag(y, call[c].gen)
        BY <3>2, <3>4
      <4>2. y.gen = call[c].gen /\ y \in Entry
        BY <1>1, <3>1, <3>4, ListedTypes DEF Index, Once
      <4> QED
        BY <4>1, <4>2, FlagFacts
    <3> QED
      BY <3>3, <3>4
  <2> QED
    BY <1>4, <2>2, <2>3, <2>4, <2>5, StepCases
<1> QED
  BY <1>3, <1>4 DEF Next

LEMMA FlagsStep == Typed /\ Index /\ Flags /\ [Next]_vars => Flags'
<1>1. Flags /\ UNCHANGED vars => Flags'
  BY DEF Flags, FlaggedRows, FlaggedListed, Listed, vars, BuiltinName
<1> QED
  BY <1>1, FlaggedRowsStep, FlaggedListedStep DEF Flags

LEMMA FlagsInvariant == Spec => []Flags
<1>1. Init => Flags
  BY DEF Init, Flags, FlaggedRows, FlaggedListed
<1> QED
  BY <1>1, FlagsStep, IndexInvariant, PTL DEF Spec

(* A tool whose deprecation was acknowledged is not offered to the model    *)
(* again until it is registered anew, for any number of callers, repository *)
(* faults and restarts.                                                     *)
THEOREM DeprecatedStaysHolds == Spec => []DeprecatedStays
<1>1. Flags => DeprecatedStays
  BY DEF Flags, FlaggedListed, DeprecatedStays, AsLLMTools
<1> QED
  BY <1>1, FlagsInvariant, PTL
-----------------------------------------------------------------------------
(* The table and memory                                                     *)

(* How a call moves.                                                        *)
Registers(c) ==
  /\ call[c].pc = "idle" /\ call'[c].pc \in {"upsert", "insert"}
  /\ call'[c].gen \in FreeGens(call'[c].qn)

LooksUp(c) ==
  /\ call[c].pc = "idle" /\ call'[c].pc \in {"flag", "mark", "delete", "remove"}
  /\ call'[c].gen = byQualified[call'[c].qn] /\ call'[c].gen # 0

Same(c) == call'[c].qn = call[c].qn /\ call'[c].gen = call[c].gen /\ call'[c].path = call[c].path

MovesOn(c) ==
  /\ Same(c)
  /\ \/ call[c].pc = "upsert" /\ call'[c].pc = "insert"
     \/ call[c].pc = "flag" /\ call'[c].pc = "mark"
     \/ call[c].pc = "delete" /\ call'[c].pc = "remove"

LEMMA Moves ==
  ASSUME Typed, NEW c \in Caller
  PROVE  /\ Return(c) => call'[c].pc = "idle"
         /\ \A p : Goto(c, p) => Same(c) /\ call'[c].pc = p
BY IdleFacts DEF Typed, TypeOK, Return, Goto, Same

LEMMA CallMoves ==
  ASSUME Typed, NEW c \in Caller, Step(c)
  PROVE  call'[c].pc = "idle" \/ MovesOn(c) \/ Registers(c) \/ LooksUp(c)
<1>1. call \in [Caller -> CallType]
  BY DEF Typed, TypeOK, CallType
<1>2. ASSUME NEW n \in Name, NEW p \in Binary, RegisterEntry(c, n, p) PROVE Registers(c)
  <2>1. FreshGen(n) \in FreeGens(n)
    BY <1>2, FreshShape DEF RegisterEntry
  <2>2. call'[c].qn = n /\ call'[c].gen = FreshGen(n) /\ call'[c].pc \in {"upsert", "insert"}
    BY <1>1, <1>2 DEF RegisterEntry
  <2> QED
    BY <1>2, <2>1, <2>2 DEF Registers, RegisterEntry
<1>3. ASSUME NEW n \in Name, DeprecateOf(c, n) \/ Unregister(c, n) PROVE LooksUp(c)
  BY <1>1, <1>3 DEF DeprecateOf, Unregister, LooksUp
<1>4. CASE Begins(c)
  BY <1>2, <1>3, <1>4 DEF Begins
<1>5. CASE ~Begins(c)
  BY <1>5, StepCases, Moves
     DEF Upsert, Insert, RepoDeprecate, MarkDeprecated, RepoDelete, RemoveEntry, MovesOn
<1> QED
  BY <1>4, <1>5

(* Entries are listed under fewer gens, but for the one inserted.           *)
LEMMA ListedGens ==
  ASSUME Typed, NEW c \in Caller, Step(c), NEW m \in Name, NEW x \in Listed(m)'
  PROVE  \/ \E y \in Listed(m) : y.gen = x.gen
         \/ call[c].pc = "insert" /\ m = call[c].qn /\ x.gen = call[c].gen /\ call'[c].pc = "idle"
<1>1. CASE UNCHANGED <<byAnchor, byQualified>>
  BY <1>1 DEF Listed
<1>2. CASE Insert(c) /\ call[c].pc = "insert" /\ insertLocked(call[c].qn, Authored(c))
  <2>1. x \in Listed(m) \/ (m = call[c].qn /\ x = Authored(c))
    BY <1>2, InsertEffect
  <2> QED
    BY <1>2, <2>1, Moves DEF Authored, Insert
<1>3. CASE MarkDeprecated(c)
  <2>1. Listed(m)' = IF m = call[c].qn THEN {Flag(y, call[c].gen) : y \in Listed(m)} ELSE Listed(m)
    BY <1>3, MarkEffect
  <2>2. \A y \in Listed(m) : Flag(y, call[c].gen).gen = y.gen
    BY ListedTypes, FlagFacts
  <2> QED
    BY <2>1, <2>2
<1>4. CASE removeLocked(call[c].qn, call[c].gen)
  BY <1>4, RemoveEffect
<1> QED
  BY <1>1, <1>2, <1>3, <1>4, ListSteps

LEMMA OwnGenStep == Typed /\ Index /\ OwnGen /\ Next => OwnGen'
<1> SUFFICES ASSUME Typed, Index, OwnGen, Next, ~raced', NEW d \in Caller, call'[d].pc \in {"upsert", "insert"}
             PROVE  /\ \A x \in Range(byAnchor'[call'[d].qn[1]]) : x.v = call'[d].qn[2] => x.gen # call'[d].gen
                    /\ \A e \in Caller \ {d} :
                         call'[e].qn = call'[d].qn /\ call'[e].pc # "idle" => call'[e].gen # call'[d].gen
  BY DEF OwnGen, Listed
<1> SUFFICES /\ \A m \in Name : m = call'[d].qn => \A x \in Listed(m)' : x.gen # call'[d].gen
             /\ \A e \in Caller \ {d} :
                  call'[e].qn = call'[d].qn /\ call'[e].pc # "idle" => call'[e].gen # call'[d].gen
  <2>1. call'[d].qn \in Name
    BY TypedStep DEF Typed, TypeOK
  <2> QED
    BY <2>1 DEF Listed
<1>1. ~raced
  BY RacedStays
<1>2. PICK c \in Caller : Step(c)
  BY IdleFacts DEF Next, Restart
<1>3. Others(c)
  BY <1>2, StepOthers
<1>4. \A f \in Caller : call[f].pc \in {"upsert", "insert"} =>
        /\ \A x \in Listed(call[f].qn) : x.gen # call[f].gen
        /\ \A e \in Caller \ {f} : call[e].qn = call[f].qn /\ call[e].pc # "idle" => call[e].gen # call[f].gen
  BY <1>1 DEF OwnGen
<1>5. call'[d].qn \in Name /\ call'[d].gen \in Gen
  BY TypedStep DEF Typed, TypeOK, CallShape
<1>6. CASE d = c /\ Registers(c)
  <2>1. call'[c].gen \in FreeGens(call'[c].qn)
    BY <1>6 DEF Registers
  <2>2. /\ \A x \in Listed(call'[c].qn) : x.gen # call'[c].gen
        /\ \A e \in Caller : call[e].qn = call'[c].qn => call[e].gen # call'[c].gen
    BY <2>1 DEF FreeGens
  <2>3. ASSUME NEW m \in Name, m = call'[d].qn, NEW x \in Listed(m)' PROVE x.gen # call'[d].gen
    <3>1. \E y \in Listed(m) : y.gen = x.gen
      BY <1>2, <1>6, <2>3, ListedGens DEF Registers
    <3> QED
      BY <1>6, <2>2, <2>3, <3>1
  <2> QED
    BY <1>3, <1>6, <2>2, <2>3 DEF Others
<1>7. CASE d = c /\ MovesOn(c)
  <2>1. call[c].pc = "upsert" /\ call'[c].qn = call[c].qn /\ call'[c].gen = call[c].gen
    BY <1>7 DEF MovesOn, Same
  <2>2. ASSUME NEW m \in Name, m = call'[d].qn, NEW x \in Listed(m)' PROVE x.gen # call'[d].gen
    <3>1. \E y \in Listed(m) : y.gen = x.gen
      BY <1>2, <1>7, <2>1, <2>2, ListedGens
    <3> QED
      BY <1>4, <1>7, <2>1, <2>2, <3>1
  <2> QED
    BY <1>3, <1>4, <1>7, <2>1, <2>2 DEF Others
<1>8. CASE d # c
  <2>1. call'[d] = call[d]
    BY <1>3, <1>8 DEF Others
  <2>2. ASSUME NEW m \in Name, m = call'[d].qn, NEW x \in Listed(m)' PROVE x.gen # call'[d].gen
    <3>1. CASE \E y \in Listed(m) : y.gen = x.gen
      BY <1>4, <2>1, <2>2, <3>1
    <3>2. CASE call[c].pc = "insert" /\ m = call[c].qn /\ x.gen = call[c].gen
      BY <1>4, <1>8, <2>1, <2>2, <3>2
    <3> QED
      BY <1>2, <2>2, <3>1, <3>2, ListedGens
  <2>3. ASSUME NEW e \in Caller \ {d}, call'[e].qn = call'[d].qn, call'[e].pc # "idle"
        PROVE  call'[e].gen # call'[d].gen
    <3>1. CASE e # c
      BY <1>3, <1>4, <2>1, <2>3, <3>1 DEF Others
    <3>2. CASE e = c /\ MovesOn(c)
      BY <1>4, <2>1, <2>3, <3>2 DEF MovesOn, Same
    <3>3. CASE e = c /\ Registers(c)
      BY <2>1, <2>3, <3>3 DEF Registers, FreeGens
    <3>4. CASE e = c /\ LooksUp(c)
      <4>1. call'[c].gen = byQualified[call'[d].qn] /\ call'[c].gen # 0
        BY <2>3, <3>4 DEF LooksUp
      <4>2. PICK x \in Listed(call'[d].qn) : x.gen = byQualified[call'[d].qn]
        BY <1>1, <1>5, <4>1 DEF Index, Once
      <4> QED
        BY <1>4, <2>1, <3>4, <4>1, <4>2
    <3> QED
      BY <1>2, <2>3, <3>1, <3>2, <3>3, <3>4, CallMoves
  <2> QED
    BY <2>2, <2>3
<1> QED
  BY <1>2, <1>6, <1>7, <1>8, CallMoves DEF LooksUp

(* A call that is not moved keeps what a row says.                          *)
LEMMA AtStays ==
  ASSUME NEW c \in Caller, Others(c), NEW n, NEW p, NEW g, At(n, p, g),
         call[c].qn # n \/ call[c].pc # p
  PROVE  At(n, p, g)'
<1>1. PICK d \in Caller : call[d].pc = p /\ call[d].qn = n /\ call[d].gen = g
  BY DEF At
<1>2. d # c /\ call'[d] = call[d]
  BY <1>1 DEF Others
<1> QED
  BY <1>1, <1>2 DEF At

LEMMA RowStays ==
  ASSUME NEW c \in Caller, Others(c), NEW n \in Name, RowFollows(n),
         repo'[n] = repo[n], byQualified'[n] = byQualified[n], Listed(n)' = Listed(n),
         call[c].qn # n \/ call[c].pc \notin {"insert", "mark", "remove"}
  PROVE  RowFollows(n)'
<1>1. PICK r : r = repo[n]
  OBVIOUS
<1>2. PICK b : b = byQualified[n]
  OBVIOUS
<1>3. \A p \in {"insert", "mark", "remove"} : \A g : At(n, p, g) => At(n, p, g)'
  BY AtStays
<1>4. CASE r = NoRow
  <2>1. b = 0 \/ BuiltinName(n) \/ At(n, "remove", b)
    BY <1>1, <1>2, <1>4 DEF RowFollows, Leaving
  <2>2. b = 0 \/ BuiltinName(n) \/ At(n, "remove", b)'
    BY <1>3, <2>1
  <2>3. Leaving(n)'
    BY <1>2, <2>2 DEF Leaving, BuiltinName, At
  <2> QED
    BY <1>1, <1>4, <2>3 DEF RowFollows
<1>5. CASE r # NoRow /\ SameEntry(n)
  <2>1. /\ b = r.gen
        /\ \A x \in Listed(n) : x.path = r.path /\ (x.dep = r.dep \/ (r.dep /\ At(n, "mark", r.gen)))
    BY <1>1, <1>2, <1>5 DEF SameEntry
  <2>2. \A x \in Listed(n)' : x.path = r.path /\ (x.dep = r.dep \/ (r.dep /\ At(n, "mark", r.gen)'))
    BY <1>3, <2>1
  <2>3. SameEntry(n)'
    BY <1>1, <1>2, <2>1, <2>2 DEF SameEntry, At
  <2> QED
    BY <1>1, <1>5, <2>3 DEF RowFollows
<1>6. CASE r # NoRow /\ Arriving(n)
  <2>1. At(n, "insert", r.gen) /\ (b = 0 \/ At(n, "remove", b))
    BY <1>1, <1>2, <1>6 DEF Arriving
  <2>2. At(n, "insert", r.gen)' /\ (b = 0 \/ At(n, "remove", b)')
    BY <1>3, <2>1
  <2>3. Arriving(n)'
    BY <1>1, <1>2, <2>2 DEF Arriving, At
  <2> QED
    BY <1>1, <1>6, <2>3 DEF RowFollows
<1> QED
  BY <1>1, <1>4, <1>5, <1>6 DEF RowFollows

(* The state in which the table is in use and nothing has raced or failed.  *)
Clear == Started /\ durable /\ ~raced /\ ~doubt

LEMMA ClearStays ==
  ASSUME Typed, NEW c \in Caller, Step(c), Clear'
  PROVE  Clear
<1>1. ~raced
  BY RacedStays DEF Next, Clear
<1>2. ~doubt
  BY StepCases, BeginsFrame DEF Clear, Upsert, Insert, RepoDeprecate, MarkDeprecated, RepoDelete,
       RemoveEntry, RepoFails
<1> QED
  BY <1>1, <1>2, StepOthers DEF Clear, Started

(* A name without a call of its own step keeps its row, entry and calls.    *)
LEMMA ElsewhereSame ==
  ASSUME Typed, NEW c \in Caller, Step(c), NEW n \in Name, call[c].qn # n
  PROVE  repo'[n] = repo[n] /\ byQualified'[n] = byQualified[n] /\ Listed(n)' = Listed(n)
<1>1. /\ repo \in [Name -> RowType] /\ byQualified \in [Name -> Gen \union {0}]
      /\ call[c].qn \in Name
  BY DEF Typed, TypeOK, RowType
<1>2. repo'[n] = repo[n]
  BY <1>1, StepCases, BeginsFrame
     DEF Upsert, Insert, RepoDeprecate, MarkDeprecated, RepoDelete, RemoveEntry, RepoFails
<1>3. byQualified'[n] = byQualified[n]
  BY <1>1, ListSteps DEF insertLocked, removeLocked
<1>4. Listed(n)' = Listed(n)
  <2>1. CASE UNCHANGED <<byAnchor, byQualified>>
    BY <2>1 DEF Listed
  <2>2. CASE call[c].pc = "insert" /\ insertLocked(call[c].qn, Authored(c))
    BY <2>2, InsertEffect
  <2>3. CASE MarkDeprecated(c)
    BY <2>3, MarkEffect
  <2>4. CASE removeLocked(call[c].qn, call[c].gen)
    BY <2>4, RemoveEffect
  <2> QED
    BY <2>1, <2>2, <2>3, <2>4, ListSteps
<1> QED
  BY <1>2, <1>3, <1>4

(* While the row is the caller's own, nobody is about to insert its entry.  *)
LEMMA NotArriving ==
  ASSUME Typed, OwnGen, ~raced, NEW c \in Caller, call[c].pc \notin {"idle", "insert"},
         repo[call[c].qn].gen = call[c].gen
  PROVE  ~Arriving(call[c].qn)
BY DEF OwnGen, Arriving, At

LEMMA RowStep ==
  ASSUME Typed, Index, OwnGen, TableFollows, NEW c \in Caller, Step(c), Clear', NEW n \in Name
  PROVE  RowFollows(n)'
<1>1. Clear /\ Others(c)
  BY ClearStays, StepOthers
<1>2. RowFollows(n) /\ CallFollows(c)
  BY <1>1 DEF TableFollows, Clear
<1>3. CASE call[c].qn # n
  BY <1>1, <1>2, <1>3, ElsewhereSame, RowStays
<1>4. CASE call[c].qn = n
  <2>1. PICK g : g = call[c].gen
    OBVIOUS
  <2>2. /\ repo \in [Name -> RowType] /\ byQualified \in [Name -> Gen \union {0}]
        /\ call[c].pc # "idle" => g \in Gen /\ g # 0
    BY <2>1, GenFacts DEF Typed, TypeOK, CallShape, RowType
  <2>3. ASSUME UNCHANGED <<repo, byQualified, byAnchor>>, call[c].pc \notin {"insert", "mark", "remove"}
        PROVE  RowFollows(n)'
    <3>1. repo'[n] = repo[n] /\ byQualified'[n] = byQualified[n] /\ Listed(n)' = Listed(n)
      BY <2>3 DEF Listed
    <3> QED
      BY <1>1, <1>2, <2>3, <3>1, RowStays
  <2>4. CASE Begins(c)
    BY <2>3, <2>4, BeginsFrame
  <2>5. CASE Upsert(c)
    <3>1. UNCHANGED <<byQualified, byAnchor>> /\ call[c].pc = "upsert" /\ ~doubt'
      BY <1>1, <2>5 DEF Upsert, Clear
    <3>2. CASE repo' = repo
      BY <2>3, <3>1, <3>2
    <3>3. CASE repo' # repo
      <4>1. PICK row : row = [gen |-> g, path |-> call[c].path, dep |-> FALSE]
        OBVIOUS
      <4>2. repo[n] = NoRow /\ repo' = [repo EXCEPT ![n] = row] /\ Goto(c, "insert")
        BY <1>4, <2>1, <2>5, <3>1, <3>3, <4>1 DEF Upsert, RepoFails
      <4>3. repo'[n] = row /\ row.gen = g /\ row # NoRow
        BY <2>2, <3>1, <4>1, <4>2 DEF NoRow
      <4>4. call'[c].pc = "insert" /\ call'[c].qn = n /\ call'[c].gen = g
        BY <1>4, <2>1, <4>2, Moves DEF Same
      <4>5. PICK b : b = byQualified[n]
        OBVIOUS
      <4>6. b = 0 \/ At(n, "remove", b)
        BY <1>2, <1>4, <3>1, <4>2, <4>5 DEF RowFollows, Leaving, Index, BuiltinsKept
      <4>7. b = 0 \/ At(n, "remove", b)'
        BY <1>1, <3>1, <4>6, AtStays
      <4>8. Arriving(n)'
        BY <3>1, <4>3, <4>4, <4>5, <4>7 DEF Arriving, At
      <4> QED
        BY <4>3, <4>8 DEF RowFollows
    <3> QED
      BY <3>2, <3>3
  <2>6. CASE Insert(c)
    <3>1. call[c].pc = "insert" /\ byQualified[n] = 0 /\ insertLocked(n, Authored(c)) /\ UNCHANGED repo
      BY <1>1, <1>4, <2>6 DEF Insert, Clear
    <3>2. repo'[n] = [gen |-> g, path |-> call[c].path, dep |-> FALSE] /\ repo'[n] # NoRow
      BY <1>2, <1>4, <2>1, <2>2, <3>1 DEF CallFollows, NoRow
    <3>3. byQualified'[n] = g
      BY <2>1, <2>2, <3>1 DEF insertLocked, Authored
    <3>4. Listed(n) = {}
      BY <1>1, <3>1, ListedTypes DEF Clear, Index, Once
    <3>5. Listed(n)' = {Authored(c)}
      BY <1>4, <3>1, <3>4, InsertEffect
    <3>6. SameEntry(n)'
      BY <3>2, <3>3, <3>5 DEF SameEntry, Authored
    <3> QED
      BY <3>2, <3>6 DEF RowFollows
  <2>7. CASE RepoDeprecate(c)
    <3>1. UNCHANGED <<byQualified, byAnchor>> /\ call[c].pc = "flag" /\ ~doubt' /\ ~NotOwn(c)
      BY <1>1, <2>7 DEF RepoDeprecate, Clear
    <3>2. CASE repo' = repo
      BY <2>3, <3>1, <3>2
    <3>3. CASE repo' # repo
      <4>1. PICK row \in RowType : row = repo[n]
        BY <2>2
      <4>2. row # NoRow /\ repo' = [repo EXCEPT ![n].dep = TRUE] /\ Goto(c, "mark")
        BY <1>4, <2>7, <3>1, <3>3, <4>1 DEF RepoDeprecate, RepoFails
      <4>3. row.gen = g
        BY <1>4, <2>1, <3>1, <4>1, <4>2 DEF NotOwn
      <4>4. PICK new : new = [row EXCEPT !.dep = TRUE]
        OBVIOUS
      <4>5. repo'[n] = new /\ new.gen = g /\ new.path = row.path /\ new.dep /\ new # NoRow
        BY <2>2, <4>1, <4>2, <4>3, <4>4, <3>1, RowFlag, IdleFacts
      <4>6. call'[c].pc = "mark" /\ call'[c].qn = n /\ call'[c].gen = g
        BY <1>4, <2>1, <4>2, Moves DEF Same
      <4>7. SameEntry(n)
        BY <1>1, <1>2, <1>4, <2>1, <3>1, <4>1, <4>2, <4>3, NotArriving DEF RowFollows, Clear
      <4>8. byQualified'[n] = g /\ Listed(n)' = Listed(n) /\ \A x \in Listed(n)' : x.path = new.path
        BY <3>1, <4>1, <4>3, <4>5, <4>7 DEF SameEntry, Listed
      <4>9. SameEntry(n)'
        BY <4>5, <4>6, <4>8 DEF SameEntry, At
      <4> QED
        BY <4>5, <4>9 DEF RowFollows
    <3> QED
      BY <3>2, <3>3
  <2>8. CASE RepoDelete(c)
    <3>1. UNCHANGED <<byQualified, byAnchor>> /\ call[c].pc = "delete" /\ ~doubt' /\ ~NotOwn(c)
      BY <1>1, <2>8 DEF RepoDelete, Clear
    <3>2. CASE repo' = repo
      BY <2>3, <3>1, <3>2
    <3>3. CASE repo' # repo
      <4>1. repo[n] # NoRow /\ repo' = [repo EXCEPT ![n] = NoRow] /\ Goto(c, "remove")
        BY <1>4, <2>8, <3>1, <3>3 DEF RepoDelete, RepoFails
      <4>2. repo[n].gen = g
        BY <1>4, <2>1, <3>1, <4>1 DEF NotOwn
      <4>3. repo'[n] = NoRow
        BY <2>2, <4>1
      <4>4. call'[c].pc = "remove" /\ call'[c].qn = n /\ call'[c].gen = g
        BY <1>4, <2>1, <4>1, Moves DEF Same
      <4>5. SameEntry(n)
        BY <1>1, <1>2, <1>4, <2>1, <3>1, <4>1, <4>2, NotArriving DEF RowFollows, Clear
      <4>6. byQualified'[n] = g
        BY <3>1, <4>2, <4>5 DEF SameEntry
      <4>7. Leaving(n)'
        BY <4>4, <4>6 DEF Leaving, At
      <4> QED
        BY <4>3, <4>7 DEF RowFollows
    <3> QED
      BY <3>2, <3>3
  <2>9. CASE MarkDeprecated(c)
    <3>1. UNCHANGED <<byQualified, repo>> /\ call[c].pc = "mark" /\ byQualified[n] = g
      BY <1>1, <1>4, <2>1, <2>9 DEF MarkDeprecated, Clear
    <3>2. Listed(n)' = {Flag(x, g) : x \in Listed(n)}
      BY <1>4, <2>1, <2>9, MarkEffect
    <3>3. \A p \in {"insert", "remove"} : \A h : At(n, p, h) => At(n, p, h)'
      BY <1>1, <3>1, AtStays
    <3>4. PICK r : r = repo[n]
      OBVIOUS
    <3>5. CASE r = NoRow
      <4>1. BuiltinName(n) \/ At(n, "remove", g)
        BY <1>2, <2>2, <3>1, <3>4, <3>5 DEF RowFollows, Leaving
      <4>2. BuiltinName(n) \/ At(n, "remove", g)'
        BY <3>3, <4>1
      <4>3. Leaving(n)'
        BY <3>1, <4>2 DEF Leaving, At, BuiltinName
      <4> QED
        BY <3>1, <3>4, <3>5, <4>3 DEF RowFollows
    <3>6. CASE r # NoRow /\ SameEntry(n)
      <4>1. r.gen = g /\ r.dep
        BY <1>2, <1>4, <2>1, <3>1, <3>4, <3>6 DEF SameEntry, CallFollows
      <4>2. \A x \in Listed(n) : x \in Entry /\ x.gen = g /\ x.path = r.path /\ r.dep = TRUE
        <5>1. \A x \in Listed(n) : x.gen = g
          BY <1>1, <3>1 DEF Clear, Index, Once
        <5>2. \A x \in Listed(n) : x.path = r.path
          BY <3>4, <3>6 DEF SameEntry
        <5>3. r.dep = TRUE
          BY <2>2, <3>4, <4>1 DEF RowType
        <5> QED
          BY <5>1, <5>2, <5>3, ListedTypes
      <4>3. \A x \in Listed(n) : Flag(x, g).path = r.path /\ Flag(x, g).dep = r.dep
        BY <4>2 DEF Flag, Entry
      <4>4. SameEntry(n)'
        BY <3>1, <3>2, <3>4, <4>1, <4>3 DEF SameEntry
      <4> QED
        BY <3>1, <3>4, <3>6, <4>4 DEF RowFollows
    <3>7. CASE r # NoRow /\ Arriving(n)
      <4>1. At(n, "insert", r.gen) /\ At(n, "remove", g)
        BY <2>2, <3>1, <3>4, <3>7 DEF Arriving
      <4>2. At(n, "insert", r.gen)' /\ At(n, "remove", g)'
        BY <3>3, <4>1
      <4>3. Arriving(n)'
        BY <3>1, <3>4, <4>2 DEF Arriving, At
      <4> QED
        BY <3>1, <3>4, <3>7, <4>3 DEF RowFollows
    <3> QED
      BY <1>2, <3>4, <3>5, <3>6, <3>7 DEF RowFollows
  <2>10. CASE RemoveEntry(c)
    <3>1. UNCHANGED repo /\ call[c].pc = "remove" /\ byQualified[n] = g /\ byQualified'[n] = 0
      BY <1>1, <1>4, <2>1, <2>2, <2>10 DEF RemoveEntry, removeLocked, Clear
    <3>2. CASE repo[n] = NoRow
      BY <3>1, <3>2 DEF RowFollows, Leaving
    <3>3. CASE repo[n] # NoRow
      <4>1. ~SameEntry(n)
        BY <1>2, <1>4, <2>1, <3>1 DEF SameEntry, CallFollows
      <4>2. PICK r : r = repo[n]
        OBVIOUS
      <4>3. At(n, "insert", r.gen)
        BY <1>2, <3>3, <4>1, <4>2 DEF RowFollows, Arriving
      <4>4. At(n, "insert", r.gen)'
        BY <1>1, <3>1, <4>3, AtStays
      <4>5. Arriving(n)'
        BY <3>1, <4>2, <4>4 DEF Arriving, At
      <4> QED
        BY <3>1, <3>3, <4>5 DEF RowFollows
    <3> QED
      BY <3>2, <3>3
  <2> QED
    BY <2>4, <2>5, <2>6, <2>7, <2>8, <2>9, <2>10, StepCases
<1> QED
  BY <1>3, <1>4

(* A row that a step changed, and how.                                      *)
LEMMA RowChanges ==
  ASSUME Typed, NEW c \in Caller, Step(c), Clear', repo'[call[c].qn] # repo[call[c].qn]
  PROVE  \/ /\ call[c].pc = "upsert" /\ repo[call[c].qn] = NoRow
            /\ repo'[call[c].qn] = [gen |-> call[c].gen, path |-> call[c].path, dep |-> FALSE]
         \/ /\ call[c].pc = "flag" /\ repo[call[c].qn].gen = call[c].gen
            /\ repo'[call[c].qn].gen = call[c].gen /\ repo'[call[c].qn].dep
         \/ /\ call[c].pc = "delete" /\ repo[call[c].qn].gen = call[c].gen
            /\ repo'[call[c].qn] = NoRow
<1>1. PICK n \in Name : n = call[c].qn
  BY OwnName
<1>2. repo \in [Name -> RowType] /\ ~doubt' /\ ~raced'
  BY DEF Typed, TypeOK, RowType, Clear
<1>3. CASE Upsert(c)
  <2>1. call[c].pc = "upsert" /\ repo[n] = NoRow
        /\ repo' = [repo EXCEPT ![n] = [gen |-> call[c].gen, path |-> call[c].path, dep |-> FALSE]]
    BY <1>1, <1>2, <1>3 DEF Upsert, RepoFails
  <2> QED
    BY <1>1, <1>2, <2>1
<1>4. CASE RepoDeprecate(c)
  <2>1. /\ call[c].pc = "flag" /\ repo[n] # NoRow /\ ~NotOwn(c)
        /\ repo' = [repo EXCEPT ![n].dep = TRUE]
    BY <1>1, <1>2, <1>4 DEF RepoDeprecate, RepoFails
  <2>2. repo'[n] = [repo[n] EXCEPT !.dep = TRUE] /\ repo[n].gen = call[c].gen
    BY <1>1, <1>2, <2>1 DEF NotOwn
  <2> QED
    BY <1>1, <1>2, <2>1, <2>2, RowFlag
<1>5. CASE RepoDelete(c)
  <2>1. /\ call[c].pc = "delete" /\ repo[n] # NoRow /\ ~NotOwn(c)
        /\ repo' = [repo EXCEPT ![n] = NoRow]
    BY <1>1, <1>2, <1>5 DEF RepoDelete, RepoFails
  <2> QED
    BY <1>1, <1>2, <2>1 DEF NotOwn
<1>6. CASE Begins(c) \/ Insert(c) \/ MarkDeprecated(c) \/ RemoveEntry(c)
  BY <1>6, BeginsFrame DEF Insert, MarkDeprecated, RemoveEntry
<1> QED
  BY <1>3, <1>4, <1>5, <1>6, StepCases

LEMMA CallStep ==
  ASSUME Typed, Index, OwnGen, TableFollows, NEW c \in Caller, Step(c), Clear', NEW d \in Caller
  PROVE  CallFollows(d)'
<1>1. Clear /\ Others(c)
  BY ClearStays, StepOthers
<1>2. CallFollows(d) /\ CallFollows(c)
  BY <1>1 DEF TableFollows, Clear
<1>3. PICK k \in CallType : k = call[d]
  BY DEF Typed, TypeOK, CallType
<1>4. PICK n \in Name : n = k.qn
  BY <1>3 DEF CallType
<1>5. /\ k.pc = "insert" => repo[n] = [gen |-> k.gen, path |-> k.path, dep |-> FALSE]
      /\ k.pc = "mark" /\ repo[n].gen = k.gen => repo[n].dep
      /\ k.pc = "remove" => repo[n].gen # k.gen
  BY <1>2, <1>3, <1>4 DEF CallFollows
<1>6. k.pc # "idle" => k.gen \in Nat \ {0}
  BY <1>3, GenFacts DEF Typed, CallShape
<1>7. CASE d # c
  <2>1. call'[d] = k
    BY <1>1, <1>3, <1>7 DEF Others
  <2>2. SUFFICES /\ k.pc = "insert" => repo'[n] = [gen |-> k.gen, path |-> k.path, dep |-> FALSE]
                 /\ k.pc = "mark" /\ repo'[n].gen = k.gen => repo'[n].dep
                 /\ k.pc = "remove" => repo'[n].gen # k.gen
    BY <1>4, <2>1 DEF CallFollows
  <2>3. CASE repo'[n] = repo[n]
    BY <1>5, <2>3
  <2>4. CASE repo'[n] # repo[n]
    <3>1. n = call[c].qn
      BY <2>4, ElsewhereSame
    <3>2. ASSUME k.pc = "insert", call[c].pc # "idle" PROVE call[c].gen # k.gen
      BY <1>1, <1>3, <1>4, <1>7, <3>1, <3>2 DEF OwnGen, Clear
    <3>3. ASSUME call[c].pc = "upsert", k.pc # "idle" PROVE call[c].gen # k.gen
      BY <1>1, <1>3, <1>4, <1>7, <3>1, <3>3 DEF OwnGen, Clear
    <3>4. CASE /\ call[c].pc = "upsert" /\ repo[n] = NoRow
               /\ repo'[n] = [gen |-> call[c].gen, path |-> call[c].path, dep |-> FALSE]
      <4>1. k.pc # "insert"
        BY <1>5, <1>6, <3>4, IdleFacts
      <4> QED
        BY <3>3, <3>4, <4>1
    <3>5. CASE /\ call[c].pc = "flag" /\ repo[n].gen = call[c].gen
               /\ repo'[n].gen = call[c].gen /\ repo'[n].dep
      <4>1. k.pc # "insert"
        BY <1>5, <3>2, <3>5
      <4> QED
        BY <1>5, <3>5, <4>1
    <3>6. CASE /\ call[c].pc = "delete" /\ repo[n].gen = call[c].gen
               /\ repo'[n] = NoRow
      <4>1. k.pc # "insert"
        BY <1>5, <3>2, <3>6
      <4> QED
        BY <1>6, <3>6, <4>1, IdleFacts
    <3> QED
      BY <2>4, <3>1, <3>4, <3>5, <3>6, RowChanges
  <2> QED
    BY <2>3, <2>4
<1>8. CASE d = c
  <2>1. CASE call'[c].pc \in {"idle", "upsert", "flag", "delete"}
    BY <1>8, <2>1 DEF CallFollows
  <2>2. CASE call'[c].pc \in {"insert", "mark", "remove"}
    <3>1. ~Begins(c)
      <4>1. SUFFICES ASSUME Begins(c) PROVE FALSE
        OBVIOUS
      <4>2. call'[c].pc \in {"upsert", "flag", "delete"}
        BY <1>1, <4>1 DEF Begins, RegisterEntry, DeprecateOf, Unregister, Clear, Typed, TypeOK
      <4> QED
        BY <2>2, <4>2
    <3>2. /\ repo \in [Name -> RowType] /\ ~doubt' /\ n = call[c].qn
      BY <1>3, <1>4, <1>8 DEF Typed, TypeOK, RowType, Clear
    <3>3. CASE Upsert(c)
      <4>1. Goto(c, "insert") /\ call[c].pc = "upsert"
            /\ repo' = [repo EXCEPT ![n] = [gen |-> call[c].gen, path |-> call[c].path, dep |-> FALSE]]
        BY <2>2, <3>2, <3>3, Moves DEF Upsert
      <4>2. call'[c].qn = n /\ call'[c].gen = call[c].gen /\ call'[c].path = call[c].path /\ call'[c].pc = "insert"
        BY <3>2, <4>1, Moves DEF Same
      <4>3. repo'[n] = [gen |-> call[c].gen, path |-> call[c].path, dep |-> FALSE]
        BY <3>2, <4>1
      <4> QED
        BY <1>8, <4>2, <4>3 DEF CallFollows
    <3>4. CASE RepoDeprecate(c)
      <4>1. Goto(c, "mark") /\ repo' = [repo EXCEPT ![n].dep = TRUE]
        BY <2>2, <3>2, <3>4, Moves DEF RepoDeprecate
      <4>2. call'[c].qn = n /\ call'[c].pc = "mark"
        BY <3>2, <4>1, Moves DEF Same
      <4>3. repo'[n].dep
        BY <3>2, <4>1, RowFlag
      <4> QED
        BY <1>8, <4>2, <4>3 DEF CallFollows
    <3>5. CASE RepoDelete(c)
      <4>1. Goto(c, "remove") /\ repo' = [repo EXCEPT ![n] = NoRow] /\ call[c].pc = "delete"
        BY <2>2, <3>2, <3>5, Moves DEF RepoDelete
      <4>2. call'[c].qn = n /\ call'[c].pc = "remove" /\ call'[c].gen = call[c].gen
        BY <3>2, <4>1, Moves DEF Same
      <4>3. repo'[n] = NoRow
        BY <3>2, <4>1
      <4>4. call[c].gen # 0
        BY <1>3, <1>6, <1>8, <4>1
      <4> QED
        BY <1>8, <4>2, <4>3, <4>4, IdleFacts DEF CallFollows
    <3>6. CASE Insert(c) \/ MarkDeprecated(c) \/ RemoveEntry(c)
      BY <2>2, <3>6, Moves DEF Insert, MarkDeprecated, RemoveEntry
    <3> QED
      BY <3>1, <3>3, <3>4, <3>5, <3>6, StepCases
  <2>3. call'[c].pc \in Pc
    BY <1>1 DEF Others, CallType
  <2> QED
    BY <2>1, <2>2, <2>3 DEF Pc
<1> QED
  BY <1>7, <1>8

LEMMA TableRestart ==
  ASSUME Typed, Index, Restart, durable, NEW n \in Name
  PROVE  RowFollows(n)'
<1>1. /\ byQualified'[n] = IF BuiltinName(n) THEN 2 ELSE IF repo[n] # NoRow THEN 1 ELSE 0
      /\ repo'[n] = IF repo[n] = NoRow THEN NoRow ELSE [repo[n] EXCEPT !.gen = 1]
  BY DEF Restart, Bootstrap, BuiltinName
<1>2. CASE repo[n] = NoRow
  <2>1. Leaving(n)'
    BY <1>1, <1>2 DEF Leaving, BuiltinName
  <2> QED
    BY <1>1, <1>2, <2>1 DEF RowFollows
<1>3. CASE repo[n] # NoRow
  <2>1. ~BuiltinName(n)
    BY <1>3 DEF Index, BuiltinsKept
  <2>2. PICK r \in RowType : r = repo[n]
    BY DEF Typed, TypeOK, RowType
  <2>3. PICK new : new = [r EXCEPT !.gen = 1]
    OBVIOUS
  <2>4. new.gen = 1 /\ new.path = r.path /\ new.dep = r.dep
    BY <2>2, <2>3 DEF RowType
  <2>5. repo'[n] = new /\ new # NoRow
    <3>1. repo'[n] = new
      BY <1>1, <1>3, <2>2, <2>3, Zenon
    <3>2. new # NoRow
      BY <2>4, IdleFacts
    <3> QED
      BY <3>1, <3>2
  <2>6. Listed(n)' = {fromPersistEntry(n, r)}
    BY <1>3, <2>1, <2>2, RestartEffect
  <2>7. SameEntry(n)'
    <3>1. byQualified'[n] = 1
      BY <1>1, <1>3, <2>1
    <3>2. \A x \in Listed(n)' : x.path = new.path /\ x.dep = new.dep
      BY <2>4, <2>6 DEF fromPersistEntry
    <3> QED
      BY <2>4, <2>5, <3>1, <3>2 DEF SameEntry
  <2> QED
    BY <2>5, <2>7 DEF RowFollows
<1> QED
  BY <1>2, <1>3

LEMMA TableStep == Typed /\ Index /\ OwnGen /\ TableFollows /\ Next => TableFollows'
<1> SUFFICES ASSUME Typed, Index, OwnGen, TableFollows, Next, Clear'
             PROVE  (\A n \in Name : RowFollows(n)') /\ (\A d \in Caller : CallFollows(d)')
  BY DEF TableFollows, Clear, RowFollows, SameEntry, Arriving, Leaving, At, CallFollows, BuiltinName, Listed
<1>1. CASE Restart
  <2>1. durable /\ \A d \in Caller : call'[d].pc = "idle"
    BY <1>1, IdleFacts DEF Restart, Clear
  <2>2. \A d \in Caller : CallFollows(d)'
    BY <2>1 DEF CallFollows
  <2> QED
    BY <1>1, <2>1, <2>2, TableRestart
<1>2. ASSUME NEW c \in Caller, Step(c)
      PROVE  (\A n \in Name : RowFollows(n)') /\ (\A d \in Caller : CallFollows(d)')
  BY <1>2, RowStep, CallStep
<1> QED
  BY <1>1, <1>2 DEF Next

Table == OwnGen /\ TableFollows

LEMMA TableInvariant == Spec => []Table
<1>1. Init => Table
  BY IdleFacts DEF Init, Table, OwnGen, TableFollows, Started
<1>2. Table /\ UNCHANGED vars => Table'
  <2> SUFFICES ASSUME Table, UNCHANGED vars PROVE Table'
    OBVIOUS
  <2>1. UNCHANGED <<durable, byQualified, byAnchor, repo, call, restarts, raced, doubt>>
    BY DEF vars
  <2>2. OwnGen'
    BY <2>1 DEF Table, OwnGen, Listed
  <2>3. TableFollows'
    BY <2>1 DEF Table, TableFollows, RowFollows, SameEntry, Arriving, Leaving, At, CallFollows,
         BuiltinName, Listed, Started
  <2> QED
    BY <2>2, <2>3 DEF Table
<1>3. Typed /\ Index /\ Table /\ [Next]_vars => Table'
  BY <1>2, OwnGenStep, TableStep DEF Table
<1> QED
  BY <1>1, <1>3, IndexInvariant, PTL DEF Spec

(* With no call in flight the table and memory hold the same authored tools *)
(* with the same flags, whatever calls interleaved and failed before, as    *)
(* long as none raced and no failed repository call had taken effect.       *)
THEOREM RestartKeepsHolds == Spec => []RestartKeeps
<1>1. Typed /\ Index /\ Table => RestartKeeps
  <2> SUFFICES ASSUME Typed, Index, Table, Started, durable, AtRest, ~raced, ~doubt, NEW n \in Name
               PROVE  IF repo[n] = NoRow
                      THEN byQualified[n] # 0 => EntryOf(n).origin = "builtin"
                      ELSE /\ byQualified[n] # 0
                           /\ EntryOf(n).path = repo[n].path
                           /\ EntryOf(n).dep = repo[n].dep
    BY DEF RestartKeeps
  <2>1. \A p, g : p # "idle" => ~At(n, p, g)
    BY DEF AtRest, At
  <2>2. RowFollows(n)
    BY DEF Table, TableFollows
  <2>3. byQualified[n] # 0 => EntryOf(n) \in Listed(n)
    BY DEF Index, Once, EntryOf
  <2>4. CASE repo[n] = NoRow
    <3>1. byQualified[n] # 0 => BuiltinName(n)
      BY <2>1, <2>2, <2>4 DEF RowFollows, Leaving
    <3> QED
      BY <2>3, <2>4, <3>1 DEF Index, BuiltinsKept
  <2>5. CASE repo[n] # NoRow
    <3>1. SameEntry(n)
      BY <2>1, <2>2, <2>5 DEF RowFollows, Arriving
    <3>2. repo[n].gen # 0
      BY <2>5, GenFacts DEF Typed, RowShape
    <3> QED
      BY <2>1, <2>3, <2>5, <3>1, <3>2 DEF SameEntry
  <2> QED
    BY <2>4, <2>5
<1> QED
  BY <1>1, IndexInvariant, TableInvariant, PTL
=============================================================================
