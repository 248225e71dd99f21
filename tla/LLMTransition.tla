--------------------------- MODULE LLMTransition ---------------------------
(***************************************************************************)
(* LLM transitions firing at the same time in one CPN (cpn/fire_llm.go),   *)
(* each under its retry policy (cpn/retry.go), through one OpenRouter      *)
(* client with its token ledger and call audit (infra/openrouter).  The    *)
(* provider, the tools' executors and the human are the environment; the   *)
(* host gate is module HostGate, here only its verdict.  Events and stream *)
(* chunks are observers' matter and are left out.                          *)
(***************************************************************************)
EXTENDS Integers, FiniteSets, FiniteSetsExt, Sequences, SequencesExt

CONSTANTS
  Configs,                \* firings under way at the same time, with their
                          \* configurations: functions to Conf
  Name,                   \* tool names a response may ask for
  Missing,                \* names with no transition in the CPN
  HostGated,              \* names DeriveHostGateOp recognises
  RequiresHITL,           \* ToolMeta.RequiresHITL
  MaxToolCallIterations,
  MaxCalls,               \* bound: tool calls in one response
  MaxAnswers              \* bound: answers of the human to one transition

(* What of LLMConfig, of the transition and of its retry policy decides:     *)
(* stream (StreamOutput), format (ResponseFmtRequired and RequireJSON),      *)
(* skip (SkipHistory or SkipOutputHistory), user (text tokens consumed),     *)
(* budget (Budget > 0), tools (LLMTools), channel (HITLConfig.Channel # nil),*)
(* fits (the output places take the token), attempts, model; and wants, the  *)
(* tools the model may ask for.                                              *)
Conf == [stream : BOOLEAN, format : BOOLEAN, skip : BOOLEAN, user : BOOLEAN,
         budget : BOOLEAN, tools : SUBSET Name, wants : SUBSET Name, channel : BOOLEAN,
         fits : BOOLEAN, attempts : Nat \ {0}, model : {"authored", "fallback"}]

ASSUME LLMAssumption ==
  /\ MaxToolCallIterations \in Nat \ {0} /\ MaxCalls \in Nat /\ MaxAnswers \in Nat
  /\ \A c \in Configs : IsFiniteSet(DOMAIN c) /\ c \in [DOMAIN c -> Conf]
  /\ Missing \subseteq Name /\ HostGated \subseteq Name /\ RequiresHITL \subseteq Name

VARIABLES
  conf,      \* the configuration
  pc,        \* where each firing is
  purpose,   \* what its current request is for: "first", "format", "loop"
  model,     \* model the current request goes to
  frames,    \* open Complete / CompleteStream calls, each with its deferred record
  resp,      \* the last response
  msgs,      \* tool calls and results appended to the conversation
  iter,      \* i of the tool-call loop
  k,         \* index of the tool call being worked on
  attempt,   \* attempt of doRetry
  chan,      \* HITLConfig.Channel, capacity 1
  granted,   \* approvals the human has put into it (history)
  ran,       \* executions of RequiresHITL tools (history)
  answered,  \* answers of the human so far (bounded)
  history,   \* CPN.History, rows <<firing, role>>
  state,     \* CPN.State
  ledger,    \* TokenLedger: calls on record for the session
  billed,    \* responses each firing was given (history)
  cost,      \* cost of the attempt: <<fireLLM's, the loop's>>
  reported,  \* totalCost of doRetry
  rows,      \* llm_calls rows the current invocation has written
  cancelled  \* ctx.Done()

vars == <<conf, pc, purpose, model, frames, resp, msgs, iter, k, attempt, chan,
          granted, ran, answered, history, state, ledger, billed, cost,
          reported, rows, cancelled>>

loopVars == <<msgs, iter, k>>
humanVars == <<chan, granted, answered>>
clientVars == <<purpose, model, frames, rows, ledger, billed>>

Firing == DOMAIN conf
AnyFiring == UNION {DOMAIN c : c \in Configs}

Ended(f) == pc[f] \in {"done", "failed"}

(* Set f's entry of a function variable.                                     *)
Put(v, f, x) == [v EXCEPT ![f] = x]

None == <<0, 0>>    \* no tool call, no tool result

NoResp == [calls |-> <<>>, json |-> TRUE]
-----------------------------------------------------------------------------
(* Errors: the context's, a client error (4xx but 408 and 429), any other.   *)
RetryOn(err) == err = "transient"

(* An attempt that fails reports c; an error RetryOn accepts starts the next *)
(* attempt after the wait.                                                   *)
Fail(f, c, err) ==
  /\ reported' = Put(reported, f, reported[f] + c)
  /\ cost' = Put(cost, f, <<0, 0>>)
  /\ IF RetryOn(err) /\ attempt[f] < conf[f].attempts
     THEN pc' = Put(pc, f, "sleep") ELSE pc' = Put(pc, f, "failed")

(* The wait ends, or the context does.                                       *)
Sleep(f) ==
  /\ pc[f] = "sleep"
  /\ \/ pc' = Put(pc, f, "start") /\ attempt' = Put(attempt, f, attempt[f] + 1)
     \/ cancelled /\ pc' = Put(pc, f, "failed") /\ UNCHANGED attempt
  /\ UNCHANGED <<conf, clientVars, resp, loopVars, humanVars, ran, history,
                 state, cost, reported, cancelled>>

(* The next invocation of the client.                                        *)
Request(f, why) ==
  /\ pc' = Put(pc, f, "send")
  /\ purpose' = Put(purpose, f, why)
  /\ model' = Put(model, f, conf[f].model)
  /\ frames' = Put(frames, f, 1)
  /\ rows' = Put(rows, f, 0)
  /\ UNCHANGED <<ledger, billed>>

(* fireLLM: the conversation is put together and the estimate held against   *)
(* the budget.                                                               *)
fireLLM(f) ==
  /\ pc[f] = "start"
  /\ msgs' = Put(msgs, f, <<>>) /\ iter' = Put(iter, f, 0) /\ k' = Put(k, f, 1)
  /\ resp' = Put(resp, f, NoResp)
  /\ \/ Request(f, "first") /\ UNCHANGED <<cost, reported>>
     \/ conf[f].budget /\ Fail(f, 0, "transient") /\ UNCHANGED clientVars
  /\ UNCHANGED <<conf, attempt, humanVars, ran, history, state, cancelled>>
-----------------------------------------------------------------------------
(* The client (openrouter.go)                                                *)

(* RecordCall: a goroutine for each record, which inserts its row (rows is   *)
(* what they come to when no insert fails).                                  *)
RecordCall(f, n) == rows' = Put(rows, f, n)

(* The deferred emitCallRecord of every open frame.                          *)
emitCallRecord(f) == RecordCall(f, frames[f])

(* Slip: every frame that returns the response records it.                   *)
Record_EveryFrame(f) == ledger' = ledger + frames[f]

(* TokenLedger.Record, by the frame that parsed the response.  It needs a    *)
(* SessionID, which the server gives to every net it builds.                 *)
Record(f) == ledger' = ledger + 1

(* Messages as they go over the wire: a message with a result is a tool      *)
(* message, one with a call carries just that call.                          *)
formatChatMessages(ms) ==
  [j \in DOMAIN ms |-> IF ms[j].result # None THEN [role |-> "tool", id |-> ms[j].result]
                       ELSE [role |-> "assistant", id |-> ms[j].call]]

(* The body is built and the request goes out.                               *)
Send(f) ==
  /\ pc[f] = "send"
  /\ pc' = Put(pc, f, "await")
  /\ UNCHANGED <<conf, clientVars, resp, loopVars, attempt, humanVars, ran, history,
                 state, cost, reported, cancelled>>

(* Slip: the format retry is made again until it succeeds.                   *)
CallFailed_Again(f, err) ==
  IF purpose[f] = "format"
  THEN pc' = Put(pc, f, "format") /\ UNCHANGED <<cost, reported>>
  ELSE Fail(f, IF purpose[f] = "loop" THEN cost[f][1] ELSE 0, err)

(* What is left to do when the invocation returns an error: the format retry *)
(* keeps the first response, the others fail the attempt; an error in the    *)
(* loop takes the loop's cost with it.                                       *)
CallFailed(f, err) ==
  IF purpose[f] = "format"
  THEN pc' = Put(pc, f, IF resp[f].calls # <<>> THEN "loop" ELSE "finish") /\ UNCHANGED <<cost, reported>>
  ELSE Fail(f, IF purpose[f] = "loop" THEN cost[f][1] ELSE 0, err)

(* A tool's schema that is no JSON cannot be encoded: nothing is sent.       *)
buildCompletionsBody(f) ==
  /\ pc[f] = "send" /\ conf[f].tools # {}
  /\ CallFailed(f, "transient")
  /\ emitCallRecord(f)
  /\ UNCHANGED <<conf, purpose, model, frames, ledger, billed, resp, loopVars, attempt,
                 humanVars, ran, history, state, cancelled>>

(* The statuses but 404, as errors.                                          *)
mapHTTPStatusToError == {"client", "transient"}

(* Any failure but 404: a status, a body that cannot be read, a stream that  *)
(* breaks (transient), the end of the context or the client's timeout.       *)
CallError(f) ==
  /\ pc[f] = "await"
  /\ \E err \in mapHTTPStatusToError \cup {"transient", "context"} : CallFailed(f, err)
  /\ emitCallRecord(f)
  /\ UNCHANGED <<conf, purpose, model, frames, ledger, billed, resp, loopVars, attempt,
                 humanVars, ran, history, state, cancelled>>

(* 404: the call is made again with FallbackModel, inside the first one.     *)
NotFound(f) ==
  /\ pc[f] = "await"
  /\ IF model[f] # "fallback"
     THEN /\ model' = Put(model, f, "fallback")
          /\ frames' = Put(frames, f, frames[f] + 1)
          /\ pc' = Put(pc, f, "send")
          /\ UNCHANGED <<rows, cost, reported>>
     ELSE CallFailed(f, "client") /\ emitCallRecord(f) /\ UNCHANGED <<model, frames>>
  /\ UNCHANGED <<conf, purpose, ledger, billed, resp, loopVars, attempt,
                 humanVars, ran, history, state, cancelled>>

(* What can be made of a body: tool calls in index order, and text in which  *)
(* there is a JSON object or not.  A stream that ends early is a response.   *)
parseLLMResponse(f) == [calls : BoundedSeq(conf[f].wants, MaxCalls), json : BOOLEAN]
parseChatSSE(f) == [calls : BoundedSeq(conf[f].wants, MaxCalls), json : {FALSE}]

Responses(f) == IF conf[f].stream THEN parseChatSSE(f) ELSE parseLLMResponse(f)

(* fireLLM's format check: one retry, of an answer that is not JSON.         *)
WantsFormatRetry(f, r) ==
  purpose[f] = "first" /\ conf[f].format /\ ~conf[f].stream /\ ~r.json

(* Where a response leads: the format retry, the tools, or the end.          *)
Dispatch(f, r) ==
  IF WantsFormatRetry(f, r) THEN "format"
  ELSE IF r.calls = <<>> THEN "finish"
  ELSE IF purpose[f] # "loop" THEN "loop"
  ELSE IF iter[f] < MaxToolCallIterations THEN "loop" ELSE "exceeded"

(* 200 and a body that parses.                                               *)
Answer(f) ==
  /\ pc[f] = "await"
  /\ \E r \in Responses(f) :
       /\ resp' = Put(resp, f, r)
       /\ pc' = Put(pc, f, Dispatch(f, r))
  /\ Record(f)
  /\ billed' = Put(billed, f, billed[f] + 1)
  /\ cost' = Put(cost, f, IF purpose[f] = "loop" THEN <<cost[f][1], cost[f][2] + 1>>
                          ELSE <<cost[f][1] + 1, cost[f][2]>>)
  /\ emitCallRecord(f)
  /\ UNCHANGED <<conf, purpose, model, frames, loopVars, attempt, humanVars, ran,
                 history, state, reported, cancelled>>

FormatRetry(f) ==
  /\ pc[f] = "format"
  /\ Request(f, "format")
  /\ UNCHANGED <<conf, resp, loopVars, attempt, humanVars, ran, history, state, cost,
                 reported, cancelled>>
-----------------------------------------------------------------------------
(* The tool-call loop (handleToolCalls)                                      *)
Id(f) == <<iter[f], k[f]>>
Tool(f) == resp[f].calls[k[f]]

(* DeriveHostGateOp knows the tool: the host gate decides, nobody else asks. *)
hostGated(f) == Tool(f) \in HostGated

(* The surface is emitted and the CPN waits; without a channel the tool runs.*)
AskApproval(f) ==
  /\ state' = "waiting"
  /\ pc' = Put(pc, f, IF conf[f].channel THEN "wait" ELSE "exec")

(* Top of the loop: the context is looked at, then one assistant message per *)
(* tool call is appended.                                                    *)
Iterate(f) ==
  /\ pc[f] = "loop"
  /\ IF cancelled
     THEN Fail(f, cost[f][1], "context") /\ UNCHANGED loopVars
     ELSE LET i == iter[f] + 1 IN
          /\ iter' = Put(iter, f, i) /\ k' = Put(k, f, 1)
          /\ msgs' = Put(msgs, f, msgs[f] \o
                 [j \in DOMAIN resp[f].calls |-> [call |-> <<i, j>>, result |-> None]])
          /\ pc' = Put(pc, f, "tool")
          /\ UNCHANGED <<cost, reported>>
  /\ UNCHANGED <<conf, clientVars, resp, attempt, humanVars, ran, history, state, cancelled>>

Exceeded(f) ==
  /\ pc[f] = "exceeded"
  /\ Fail(f, cost[f][1], "transient")
  /\ UNCHANGED <<conf, clientVars, resp, loopVars, attempt, humanVars, ran, history,
                 state, cancelled>>

(* Slip: a refused call is skipped without a result.                         *)
Result_OnlyRun(f, text) ==
  /\ msgs' = IF text = "rejected" THEN msgs
             ELSE Put(msgs, f, Append(msgs[f], [call |-> None, result |-> Id(f)]))
  /\ k' = Put(k, f, k[f] + 1)
  /\ UNCHANGED iter

(* The result message of the current call; on to the next one.               *)
Result(f, text) ==
  /\ msgs' = Put(msgs, f, Append(msgs[f], [call |-> None, result |-> Id(f)]))
  /\ k' = Put(k, f, k[f] + 1)
  /\ UNCHANGED iter

Known(f) == Tool(f) \in conf[f].tools \ Missing

(* A call of the response: the allowlist, then the transition, then whoever  *)
(* has to approve it.                                                        *)
ToolCall(f) ==
  /\ pc[f] = "tool" /\ k[f] <= Len(resp[f].calls)
  /\ \/ /\ Tool(f) \notin conf[f].tools
        /\ Fail(f, cost[f][1], "transient")
        /\ UNCHANGED <<loopVars, state>>
     \/ /\ Tool(f) \in conf[f].tools \cap Missing
        /\ Result(f, "error")
        /\ UNCHANGED <<pc, state, cost, reported>>
     \/ /\ Known(f) /\ hostGated(f)
        /\ \/ Result(f, "rejected") /\ UNCHANGED pc
           \/ pc' = Put(pc, f, "exec") /\ UNCHANGED loopVars
        /\ UNCHANGED <<state, cost, reported>>
     \/ /\ Known(f) /\ ~hostGated(f) /\ Tool(f) \in RequiresHITL
        /\ AskApproval(f)
        /\ UNCHANGED <<loopVars, cost, reported>>
     \/ /\ Known(f) /\ ~hostGated(f) /\ Tool(f) \notin RequiresHITL
        /\ pc' = Put(pc, f, "exec")
        /\ UNCHANGED <<loopVars, state, cost, reported>>
  /\ UNCHANGED <<conf, clientVars, resp, attempt, humanVars, ran, history, cancelled>>

(* The select of the approval: the context or the channel.                   *)
TakesAnswer(f, approve) ==
  /\ chan' = Put(chan, f, "empty")
  /\ state' = "running"
  /\ IF approve THEN pc' = Put(pc, f, "exec") /\ UNCHANGED loopVars
     ELSE pc' = Put(pc, f, "tool") /\ Result(f, "rejected")
  /\ UNCHANGED <<cost, reported>>

(* Slip: any answer lets the tool run.                                       *)
WaitApproval_AnyAnswer(f) ==
  /\ pc[f] = "wait"
  /\ \/ cancelled /\ Fail(f, cost[f][1], "context") /\ UNCHANGED <<chan, state, loopVars>>
     \/ chan[f] # "empty" /\ TakesAnswer(f, TRUE)
  /\ UNCHANGED <<conf, clientVars, resp, attempt, granted, answered, ran, history, cancelled>>

WaitApproval(f) ==
  /\ pc[f] = "wait"
  /\ \/ cancelled /\ Fail(f, cost[f][1], "context") /\ UNCHANGED <<chan, state, loopVars>>
     \/ chan[f] # "empty" /\ TakesAnswer(f, chan[f] = "approve")
  /\ UNCHANGED <<conf, clientVars, resp, attempt, granted, answered, ran, history, cancelled>>

(* The executor runs; its error is an answer like any other.                 *)
Execute(f) ==
  /\ pc[f] = "exec"
  /\ Result(f, "output")
  /\ ran' = IF Tool(f) \in RequiresHITL /\ ~hostGated(f) THEN Put(ran, f, ran[f] + 1) ELSE ran
  /\ pc' = Put(pc, f, "tool")
  /\ UNCHANGED <<conf, clientVars, resp, attempt, humanVars, history, state, cost,
                 reported, cancelled>>

(* All calls are answered: the model is asked again.                         *)
Recall(f) ==
  /\ pc[f] = "tool" /\ k[f] > Len(resp[f].calls)
  /\ Request(f, "loop")
  /\ UNCHANGED <<conf, resp, loopVars, attempt, humanVars, ran, history, state, cost,
                 reported, cancelled>>
-----------------------------------------------------------------------------
(* fireLLM goes on: history first, then the output places.                   *)
AppendHistory(f) ==
  /\ pc[f] = "finish"
  /\ history' = IF conf[f].skip THEN history
                ELSE history \o (IF conf[f].user THEN << <<f, "user">> >> ELSE <<>>)
                             \o << <<f, "assistant">> >>
  /\ pc' = Put(pc, f, "deposit")
  /\ UNCHANGED <<conf, clientVars, resp, loopVars, attempt, humanVars, ran, state,
                 cost, reported, cancelled>>

Deposit(f) ==
  /\ pc[f] = "deposit"
  /\ IF conf[f].fits
     THEN /\ pc' = Put(pc, f, "done")
          /\ reported' = Put(reported, f, reported[f] + cost[f][1] + cost[f][2])
          /\ cost' = Put(cost, f, <<0, 0>>)
     ELSE Fail(f, cost[f][1] + cost[f][2], "transient")
  /\ UNCHANGED <<conf, clientVars, resp, loopVars, attempt, humanVars, ran, history,
                 state, cancelled>>
-----------------------------------------------------------------------------
(* Session.ResolveHITL: an answer for the transition, whenever the human     *)
(* sends one and the channel has room.                                       *)
ResolveHITL(f) ==
  /\ conf[f].channel /\ ~Ended(f)
  /\ chan[f] = "empty" /\ answered[f] < MaxAnswers
  /\ \E a \in {"approve", "reject"} :
       /\ chan' = Put(chan, f, a)
       /\ granted' = IF a = "approve" THEN Put(granted, f, granted[f] + 1) ELSE granted
  /\ answered' = Put(answered, f, answered[f] + 1)
  /\ UNCHANGED <<conf, pc, clientVars, resp, loopVars, attempt, ran, history, state,
                 cost, reported, cancelled>>

Cancel ==
  /\ ~cancelled /\ \E f \in Firing : ~Ended(f)
  /\ cancelled' = TRUE
  /\ UNCHANGED <<conf, pc, clientVars, resp, loopVars, attempt, humanVars, ran, history,
                 state, cost, reported>>

Done == (\A f \in Firing : Ended(f)) /\ UNCHANGED vars

Init ==
  /\ conf \in Configs
  /\ pc = [f \in Firing |-> "start"] /\ purpose = [f \in Firing |-> "first"]
  /\ model = [f \in Firing |-> conf[f].model]
  /\ frames = [f \in Firing |-> 0] /\ rows = [f \in Firing |-> 0]
  /\ resp = [f \in Firing |-> NoResp] /\ msgs = [f \in Firing |-> <<>>]
  /\ iter = [f \in Firing |-> 0] /\ k = [f \in Firing |-> 1]
  /\ attempt = [f \in Firing |-> 1]
  /\ chan = [f \in Firing |-> "empty"] /\ granted = [f \in Firing |-> 0]
  /\ answered = [f \in Firing |-> 0] /\ ran = [f \in Firing |-> 0]
  /\ history = <<>> /\ state = "running"
  /\ ledger = 0 /\ billed = [f \in Firing |-> 0]
  /\ cost = [f \in Firing |-> <<0, 0>>] /\ reported = [f \in Firing |-> 0]
  /\ cancelled = FALSE

(* The steps of a firing that need nobody outside the process and its peers. *)
Step(f) ==
  \/ fireLLM(f) \/ Sleep(f) \/ Send(f) \/ buildCompletionsBody(f) \/ CallError(f) \/ NotFound(f) \/ Answer(f)
  \/ FormatRetry(f) \/ Iterate(f) \/ Exceeded(f) \/ ToolCall(f) \/ WaitApproval(f)
  \/ Execute(f) \/ Recall(f) \/ AppendHistory(f) \/ Deposit(f)

Next == Cancel \/ Done \/ \E f \in Firing : Step(f) \/ ResolveHITL(f)

(* Calls end by the client's timeouts, executors return; nobody makes the    *)
(* human answer.                                                             *)
Spec == Init /\ [][Next]_vars /\ \A f \in AnyFiring : WF_vars(f \in Firing /\ Step(f))
-----------------------------------------------------------------------------
(* A tool that requires approval runs no more often than the human has       *)
(* approved, over all attempts, iterations and calls of the transition, with *)
(* answers given late, early or twice: handleToolCalls takes one answer from *)
(* the channel for each run.                                                 *)
ApprovalsCover == \A f \in Firing : conf[f].channel => ran[f] <= granted[f]

(* The tool calls of a conversation and their results: each call has its one *)
(* result, after it; results come in the order of the calls; and the calls   *)
(* of a response stand together, followed by their results, before anything  *)
(* of the next response.                                                     *)
Matched(wire) ==
  LET Of(role) == {j \in DOMAIN wire : wire[j].role = role}
      Answers(t, c) == wire[t].id = wire[c].id
      Turn(j) == wire[j].id[1]
  IN /\ \A c \in Of("assistant") : \E t \in Of("tool") : c < t /\ Answers(t, c)
     /\ \A t \in Of("tool") : \E c \in Of("assistant") : Answers(t, c)
     /\ \A c, d \in Of("assistant"), t, u \in Of("tool") :
          Answers(t, c) /\ Answers(u, d) => (c < d <=> t < u)
     /\ \A p, q \in DOMAIN wire : p < q =>
          Turn(p) < Turn(q) \/ (Turn(p) = Turn(q) /\ (p \in Of("tool") => q \in Of("tool")))

(* Whenever a request goes out, calls and results match, the calls executed, *)
(* failed, missing or refused alike: handleToolCalls leaves no way round the *)
(* result.  So a response with one call goes out as an assistant message and *)
(* its tool message.  One with n > 1 calls goes out as n assistant messages  *)
(* and then n tool messages, which is neither the one assistant message that *)
(* fire_llm.go:414-416 says providers require nor the pairs that             *)
(* fire_llm.go:417-419 says formatChatMessages makes of them.                *)
CallsAnswered ==
  \A f \in Firing : pc[f] = "await" => Matched(formatChatMessages(msgs[f]))

(* A firing never reports more than it was billed, and one that succeeds at  *)
(* once reports exactly that.                                                *)
ReportsBilled ==
  \A f \in Firing :
    /\ reported[f] + cost[f][1] + cost[f][2] <= billed[f]
    /\ pc[f] = "done" /\ attempt[f] = 1 => reported[f] = billed[f]

(* The ledger counts every response given to a firing exactly once, whatever *)
(* fallback or format retry produced it; and a firing that succeeds at once  *)
(* reports exactly what it was billed.                                       *)
BilledOnce ==
  /\ ledger = MapThenSumSet(LAMBDA f : billed[f], Firing)
  /\ ReportsBilled

(* Every firing comes to an end, unless it is waiting for a human and nobody *)
(* has cancelled it: neither tool calls nor retries go on for ever.          *)
FiringEnds ==
  \A f \in AnyFiring : []<>(f \notin Firing \/ Ended(f) \/ (pc[f] = "wait" /\ ~cancelled))

=============================================================================
