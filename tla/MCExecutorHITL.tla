-------------------------- MODULE MCExecutorHITL ---------------------------
(***************************************************************************)
(* An instance of CPNExecutor with human gates in the shape of             *)
(* hitlTopologyFactory (cmd/server/topologies.go).  t_review, with a       *)
(* RevisionLoop and an ErrorPlace, lets a human review a draft and bridges *)
(* it into the Computation space; a rejected draft ends in an apology.     *)
(* There work may start from the review and the facts an agent gathered.   *)
(* t_auto would use the facts alone and has the smaller ID: in Centaurian  *)
(* mode only t_work may run.  t_exec is a plain gate that signs work off.  *)
(***************************************************************************)
EXTENDS CPNExecutor

MCPlace == {"in", "draft", "obs", "facts", "reviewed", "work", "rej", "out"}
MCTransition == {"t_auto", "t_draft", "t_look", "t_review", "t_sorry", "t_work", "t_exec"}
MCRank == [t_auto |-> 1, t_draft |-> 2, t_exec |-> 3, t_look |-> 4, t_review |-> 5,
           t_sorry |-> 6, t_work |-> 7]
MCKind == [t \in MCTransition |-> IF t \in {"t_review", "t_exec"} THEN "hitl" ELSE "tool"]
MCInputPlaces == [t_auto |-> {"facts"}, t_draft |-> {"in"}, t_look |-> {"obs"},
                  t_review |-> {"draft"}, t_sorry |-> {"rej"}, t_work |-> {"facts", "reviewed"},
                  t_exec |-> {"work"}]
MCOutputPlaces == [t_auto |-> <<"work">>, t_draft |-> <<"draft">>, t_look |-> <<"facts">>,
                   t_review |-> <<"reviewed">>, t_sorry |-> <<"out">>, t_work |-> <<"work">>,
                   t_exec |-> <<"out">>]
MCErrorPlace == [t \in MCTransition |-> IF t = "t_review" THEN "rej" ELSE NoPlace]
MCColor == [p \in MCPlace |-> CASE p \in {"in", "out"} -> "string"
                               [] p = "reviewed" -> "human"
                               [] p = "rej" -> "error"
                               [] OTHER -> "artifact"]
MCSpace == [p \in MCPlace |-> IF p = "obs" THEN "observation"
                              ELSE IF p \in {"facts", "reviewed", "work"} THEN "computation"
                              ELSE "surface"]
MCVal == {"x"}

MCGuard(t, m) == TRUE

Made(t, k) == [color |-> MCColor[MCOutputPlaces[t][k]], space |-> MCSpace[MCOutputPlaces[t][k]],
               val |-> "x"]
MCOutcome(t, v) == {[k \in 1..Len(MCOutputPlaces[t]) |-> Made(t, k)]}

MCMaxAttempts == [t \in MCTransition |-> IF t = "t_review" THEN 2 ELSE 1]
MCChildOutcome == [t \in MCTransition |-> {}]
Item == [val |-> "x", hitl |-> FALSE]
Initially(n, m) == [p \in MCPlace |-> IF p = "in" THEN [i \in 1..n |-> Item]
                                      ELSE IF p = "obs" THEN [i \in 1..m |-> Item] ELSE <<>>]
MCSeeds == {Initially(1, 2), Initially(2, 1)}
=============================================================================
