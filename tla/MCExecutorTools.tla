-------------------------- MODULE MCExecutorTools --------------------------
(***************************************************************************)
(* An instance of CPNExecutor without humans and children: a fork into two *)
(* branches, a choice between two guarded transitions, a join, a retried   *)
(* transition with an ErrorPlace and one whose second output is refused.   *)
(***************************************************************************)
EXTENDS CPNExecutor

MCPlace == {"in", "a", "b", "c", "rej", "out", "log"}
MCTransition == {"t1", "t2", "t3", "t4", "t5"}
MCRank == [t1 |-> 1, t2 |-> 2, t3 |-> 3, t4 |-> 4, t5 |-> 5]
MCKind == [t \in MCTransition |-> "tool"]
MCInputPlaces == [t1 |-> {"in"}, t2 |-> {"a"}, t3 |-> {"a"}, t4 |-> {"b", "c"}, t5 |-> {"rej"}]
MCOutputPlaces == [t1 |-> <<"a", "b">>, t2 |-> <<"c">>, t3 |-> <<"c">>, t4 |-> <<"out", "log">>,
                   t5 |-> <<"out">>]
MCErrorPlace == [t \in MCTransition |-> IF t = "t2" THEN "rej" ELSE NoPlace]
MCColor == [p \in MCPlace |-> IF p = "rej" THEN "error" ELSE "string"]
MCSpace == [p \in MCPlace |-> "surface"]
MCVal == {"x", "y"}

(* t2 takes the x branch, t3 whatever t2 may also take: the order of IDs     *)
(* decides who gets a token both can consume.                                *)
MCGuard(t, m) == t = "t2" => \E i \in DOMAIN m["a"] : m["a"][i].val = "x"

Good(v) == [color |-> "string", space |-> "surface", val |-> v]
Bad == [color |-> "json", space |-> "surface", val |-> "x"]

MCOutcome(t, v) ==
  CASE t = "t1" -> {<<Good(k), Good(k)>> : k \in MCVal} \cup {<<Good("x"), Bad>>}
    [] t = "t2" -> {<<Good("x")>>}
    [] t = "t3" -> {<<Good(v["a"])>>}
    [] t = "t4" -> {<<Good("x"), Good("x")>>}
    [] t = "t5" -> {<<Good("x")>>}

MCFaulty == {"t2", "t5"}
MCMaxAttempts == [t \in MCTransition |-> IF t \in {"t1", "t2"} THEN 2 ELSE 1]
MCChildOutcome == [t \in MCTransition |-> {}]
Item(v) == [val |-> v, hitl |-> FALSE]
MCSeeds == {[p \in MCPlace |-> IF p = "in" THEN [i \in 1..n |-> Item("x")] ELSE <<>>] : n \in 0..2}
=============================================================================
