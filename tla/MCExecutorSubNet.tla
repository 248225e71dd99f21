------------------------- MODULE MCExecutorSubNet --------------------------
(***************************************************************************)
(* An instance of CPNExecutor with children: two SubNet transitions are    *)
(* spawned in one round, one with an ErrorPlace and one without; their     *)
(* results are merged.  An observer turns child events into tokens, and a  *)
(* failure that was also observed is rescued.                              *)
(***************************************************************************)
EXTENDS CPNExecutor, TLC

MCPlace == {"x", "y", "ra", "rb", "err", "ev", "out"}
MCTransition == {"t_merge", "t_obs", "t_rescue", "t_subA", "t_subB"}
MCRank == [t_merge |-> 1, t_obs |-> 2, t_rescue |-> 3, t_subA |-> 4, t_subB |-> 5]
MCKind == [t \in MCTransition |-> CASE t \in {"t_subA", "t_subB"} -> "subnet"
                                   [] t = "t_obs" -> "observer"
                                   [] OTHER -> "tool"]
MCInputPlaces == [t_merge |-> {"ra", "rb"}, t_obs |-> {}, t_rescue |-> {"err", "ev"},
                  t_subA |-> {"x"}, t_subB |-> {"y"}]
MCOutputPlaces == [t_merge |-> <<"out">>, t_obs |-> <<"ev">>, t_rescue |-> <<"out">>,
                   t_subA |-> <<"ra">>, t_subB |-> <<"rb">>]
MCErrorPlace == [t \in MCTransition |-> IF t = "t_subB" THEN "err" ELSE NoPlace]
MCColor == [p \in MCPlace |-> IF p = "err" THEN "error" ELSE IF p = "ev" THEN "event" ELSE "string"]
MCSpace == [p \in MCPlace |-> IF p = "ev" THEN "observation" ELSE "surface"]
MCVal == {"x"}
MCGuard(t, m) == TRUE
Made(t, k) == [color |-> MCColor[MCOutputPlaces[t][k]], space |-> MCSpace[MCOutputPlaces[t][k]],
               val |-> "x"]
MCOutcome(t, v) == {[k \in 1..Len(MCOutputPlaces[t]) |-> Made(t, k)]}
MCMaxAttempts == [t \in MCTransition |-> 1]
Item == [val |-> "x", hitl |-> FALSE]
MCChildOutcome == [t \in MCTransition |-> CASE t = "t_subA" -> {<<Item>>}
                                           [] t = "t_subB" -> {<<Item, Item>>}
                                           [] OTHER -> {}]
MCSeeds == {[p \in MCPlace |-> IF p \in {"x", "y"} THEN <<Item>> ELSE <<>>]}

ChildSymmetry == Permutations(Child)
=============================================================================
