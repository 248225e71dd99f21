------------------------------- MODULE MCLLM -------------------------------
(* An LLM transition with tools and approvals, one that answers in JSON, and *)
(* both of them at the same time with fewer tools.                           *)
EXTENDS LLMTransition, TLC

CONSTANTS agent, ask

Base == [stream |-> FALSE, format |-> FALSE, skip |-> FALSE, user |-> TRUE,
         budget |-> FALSE, tools |-> {}, wants |-> {}, channel |-> FALSE,
         fits |-> TRUE, attempts |-> 1, model |-> "fallback"]

Agent == [Base EXCEPT !.stream = TRUE, !.tools = Name \ {"other"}, !.wants = Name \ {"calc"}]
Ask == [Base EXCEPT !.format = TRUE, !.tools = {"gone", "calc"}, !.wants = {"gone", "calc"}]
Note == [Base EXCEPT !.tools = {"note"}, !.wants = {"note"}]

MCConfigs ==
  { agent :> [Agent EXCEPT !.channel = TRUE],
    agent :> [Note EXCEPT !.channel = TRUE, !.attempts = 2, !.budget = TRUE],
    ask :> [Ask EXCEPT !.skip = TRUE, !.model = "authored"],
    ask :> [Ask EXCEPT !.fits = FALSE, !.attempts = 2],
    agent :> Note @@ ask :> [Base EXCEPT !.format = TRUE, !.model = "authored"],
    agent :> Base @@ ask :> [Base EXCEPT !.fits = FALSE, !.attempts = 2] }
=============================================================================
