------------------------ MODULE LLMTransitionProofs ------------------------
(***************************************************************************)
(* Proofs about LLMTransition, for any number of firings with any          *)
(* configurations, any tools, and any bound on iterations, on calls in a   *)
(* response and on answers of the human.                                   *)
(***************************************************************************)
EXTENDS LLMTransition, SequenceTheorems, FiniteSetTheorems, WellFoundedInduction, TLAPS

PC == {"start", "sleep", "send", "await", "format", "loop", "exceeded", "tool", "wait", "exec",
       "finish", "deposit", "done", "failed"}

Response == [calls : Seq(Name), json : BOOLEAN]
Message == [call : Nat \X Nat, result : Nat \X Nat]

(* The types the proofs rest on.                                             *)
Typed ==
  /\ conf \in Configs
  /\ pc \in [Firing -> PC]
  /\ frames \in [Firing -> Nat] /\ attempt \in [Firing -> Nat \ {0}]
  /\ resp \in [Firing -> Response] /\ msgs \in [Firing -> Seq(Message)]
  /\ iter \in [Firing -> Nat] /\ k \in [Firing -> Nat \ {0}]
  /\ chan \in [Firing -> {"empty", "approve", "reject"}]
  /\ granted \in [Firing -> Nat] /\ ran \in [Firing -> Nat]
  /\ ledger \in Nat /\ billed \in [Firing -> Nat]
  /\ cost \in [Firing -> Nat \X Nat] /\ reported \in [Firing -> Nat]

-----------------------------------------------------------------------------
(* A configuration is one.                                                   *)
LEMMA ConfTyped == ASSUME Typed, NEW f \in Firing PROVE conf[f] \in Conf
BY LLMAssumption DEF Typed, Firing

(* A response asks for tools by name.                                        *)
LEMMA ResponsesTyped == ASSUME Typed, NEW f \in Firing PROVE Responses(f) \subseteq Response
<1>1. conf[f].wants \subseteq Name
  BY ConfTyped DEF Conf
<1>2. BoundedSeq(conf[f].wants, MaxCalls) \subseteq Seq(Name)
  BY <1>1, LLMAssumption DEF BoundedSeq, SeqOf
<1> QED
  BY <1>2, Zenon DEF Responses, parseLLMResponse, parseChatSSE, Response

(* What Fail changes.                                                        *)
LEMMA FailTyped ==
  ASSUME Typed, NEW f \in Firing, NEW c \in Nat, NEW err, Fail(f, c, err)
  PROVE  /\ pc' \in [Firing -> PC] /\ cost' \in [Firing -> Nat \X Nat] /\ reported' \in [Firing -> Nat]
         /\ \A g \in Firing : g # f => pc'[g] = pc[g] /\ cost'[g] = cost[g] /\ reported'[g] = reported[g]
         /\ pc'[f] \in {"sleep", "failed"} /\ cost'[f] = <<0, 0>> /\ reported'[f] = reported[f] + c
<1>1. pc' = [pc EXCEPT ![f] = "sleep"] \/ pc' = [pc EXCEPT ![f] = "failed"]
  BY DEF Fail, Put
<1>2. cost' = [cost EXCEPT ![f] = <<0, 0>>] /\ reported' = [reported EXCEPT ![f] = reported[f] + c]
  BY DEF Fail, Put
<1>3. pc' \in [Firing -> PC] /\ pc'[f] \in {"sleep", "failed"} /\ \A g \in Firing : g # f => pc'[g] = pc[g]
  BY <1>1 DEF Typed, PC
<1>4. /\ cost' \in [Firing -> Nat \X Nat] /\ cost'[f] = <<0, 0>>
      /\ \A g \in Firing : g # f => cost'[g] = cost[g]
  <2>1. <<0, 0>> \in Nat \X Nat
    OBVIOUS
  <2> QED
    BY <1>2, <2>1 DEF Typed
<1>5. /\ reported' \in [Firing -> Nat] /\ reported'[f] = reported[f] + c
      /\ \A g \in Firing : g # f => reported'[g] = reported[g]
  BY <1>2 DEF Typed
<1> QED
  BY <1>3, <1>4, <1>5

(* A failed call keeps the firing's cost, or fails the attempt with a part.  *)
LEMMA CallFailedTyped ==
  ASSUME Typed, NEW f \in Firing, NEW err, CallFailed(f, err)
  PROVE  /\ pc' \in [Firing -> PC] /\ cost' \in [Firing -> Nat \X Nat] /\ reported' \in [Firing -> Nat]
         /\ \A g \in Firing : g # f => pc'[g] = pc[g] /\ cost'[g] = cost[g] /\ reported'[g] = reported[g]
         /\ \/ /\ pc'[f] \in {"sleep", "failed"} /\ cost'[f] = <<0, 0>>
               /\ reported'[f] \in {reported[f], reported[f] + cost[f][1]}
            \/ pc'[f] \in {"loop", "finish"} /\ UNCHANGED <<cost, reported>>
<1>1. CASE purpose[f] = "format"
  BY <1>1 DEF CallFailed, Put, Typed, PC
<1>2. CASE purpose[f] # "format"
  <2>1. PICK c \in {0, cost[f][1]} : Fail(f, c, err)
    BY <1>2 DEF CallFailed
  <2>2. c \in Nat /\ reported[f] + c \in {reported[f], reported[f] + cost[f][1]}
    BY DEF Typed
  <2> QED
    BY <2>1, <2>2, FailTyped
<1> QED
  BY <1>1, <1>2

(* The entries of firing g.                                                  *)
Row(g) == <<pc[g], resp[g], msgs[g], iter[g], k[g], attempt[g], chan[g], granted[g], ran[g],
            billed[g], cost[g], reported[g]>>

(* A step of f keeps to f's entries.                                         *)
Others(f) == conf' = conf /\ \A g \in Firing : g # f => Row(g)' = Row(g)

(* The client: requests and what comes back.                                 *)
LEMMA ClientTyped ==
  ASSUME Typed, NEW f \in Firing,
         Send(f) \/ buildCompletionsBody(f) \/ CallError(f) \/ NotFound(f) \/ Answer(f) \/ FormatRetry(f)
  PROVE  Typed' /\ Others(f)
<1> USE DEF Others, Row, clientVars, loopVars, humanVars, emitCallRecord, RecordCall
<1>1. CASE Send(f)
  BY <1>1 DEF Send, Put, Typed, Firing, PC
<1>2. CASE buildCompletionsBody(f)
  <2>1. PICK err : CallFailed(f, err)
    BY <1>2 DEF buildCompletionsBody
  <2> QED
    BY <1>2, <2>1, CallFailedTyped DEF buildCompletionsBody, Typed, Firing
<1>3. CASE CallError(f)
  <2>1. PICK err : CallFailed(f, err)
    BY <1>3 DEF CallError
  <2> QED
    BY <1>3, <2>1, CallFailedTyped DEF CallError, Typed, Firing
<1>4. CASE NotFound(f)
  <2>1. CASE model[f] # "fallback"
    <3>1. frames' \in [Firing -> Nat]
      <4>1. frames' = Put(frames, f, frames[f] + 1)
        BY <1>4, <2>1 DEF NotFound
      <4>2. frames \in [Firing -> Nat] /\ frames[f] + 1 \in Nat
        BY DEF Typed
      <4> QED
        BY <4>1, <4>2 DEF Put
    <3>2. pc' \in [Firing -> PC] /\ \A g \in Firing : g # f => pc'[g] = pc[g]
      BY <1>4, <2>1 DEF NotFound, Put, Typed, PC
    <3> QED
      BY <1>4, <2>1, <3>1, <3>2 DEF NotFound, Typed, Firing
  <2>2. CASE model[f] = "fallback"
    <3>1. PICK err : CallFailed(f, err)
      BY <1>4, <2>2 DEF NotFound
    <3> QED
      BY <1>4, <2>2, <3>1, CallFailedTyped DEF NotFound, Typed, Firing
  <2> QED
    BY <2>1, <2>2
<1>5. CASE Answer(f)
  <2>1. PICK r \in Responses(f) : resp' = [resp EXCEPT ![f] = r] /\ pc' = [pc EXCEPT ![f] = Dispatch(f, r)]
    BY <1>5 DEF Answer, Put
  <2>2. resp' \in [Firing -> Response] /\ \A g \in Firing : g # f => resp'[g] = resp[g]
    BY <2>1, ResponsesTyped DEF Typed
  <2>3. pc' \in [Firing -> PC] /\ \A g \in Firing : g # f => pc'[g] = pc[g]
    BY <2>1 DEF Typed, Dispatch, PC
  <2>4. ledger' \in Nat /\ billed' \in [Firing -> Nat] /\ \A g \in Firing : g # f => billed'[g] = billed[g]
    BY <1>5 DEF Answer, Record, Put, Typed
  <2>5. cost' \in [Firing -> Nat \X Nat] /\ \A g \in Firing : g # f => cost'[g] = cost[g]
    BY <1>5 DEF Answer, Put, Typed
  <2> QED
    BY <1>5, <2>2, <2>3, <2>4, <2>5 DEF Answer, Typed, Firing
<1>6. CASE FormatRetry(f)
  BY <1>6 DEF FormatRetry, Request, Put, Typed, Firing, PC
<1> QED
  BY <1>1, <1>2, <1>3, <1>4, <1>5, <1>6

(* The tool-call loop.                                                       *)
LEMMA ToolsTyped ==
  ASSUME Typed, NEW f \in Firing,
         Iterate(f) \/ Exceeded(f) \/ ToolCall(f) \/ WaitApproval(f) \/ Execute(f) \/ Recall(f)
  PROVE  Typed' /\ Others(f)
<1> USE DEF Others, Row, clientVars, loopVars, humanVars
<1>1. cost[f][1] \in Nat
  BY DEF Typed
<1>2. ASSUME NEW text, Result(f, text)
      PROVE  /\ msgs' \in [Firing -> Seq(Message)] /\ k' \in [Firing -> Nat \ {0}] /\ iter' = iter
             /\ \A g \in Firing : g # f => msgs'[g] = msgs[g] /\ k'[g] = k[g]
  <2>1. Append(msgs[f], [call |-> None, result |-> Id(f)]) \in Seq(Message)
    BY DEF Typed, Message, None, Id
  <2> QED
    BY <1>2, <2>1 DEF Result, Put, Typed
<1>3. CASE Iterate(f)
  <2>1. CASE cancelled
    BY <1>1, <1>3, <2>1, FailTyped DEF Iterate, Typed, Firing
  <2>2. CASE ~cancelled
    <3> DEFINE new == [j \in DOMAIN resp[f].calls |-> [call |-> <<iter[f] + 1, j>>, result |-> None]]
    <3>1. new \in Seq(Message)
      <4>1. DOMAIN resp[f].calls = 1..Len(resp[f].calls) /\ Len(resp[f].calls) \in Nat
        BY DEF Typed, Response
      <4>2. \A j \in 1..Len(resp[f].calls) : [call |-> <<iter[f] + 1, j>>, result |-> None] \in Message
        BY DEF Typed, Message, None
      <4> QED
        BY <4>1, <4>2
    <3>2. msgs[f] \o new \in Seq(Message)
      BY <3>1 DEF Typed
    <3>3. msgs' \in [Firing -> Seq(Message)] /\ \A g \in Firing : g # f => msgs'[g] = msgs[g]
      <4>1. msgs' = Put(msgs, f, msgs[f] \o new)
        BY <1>3, <2>2 DEF Iterate
      <4>2. msgs \in [Firing -> Seq(Message)]
        BY DEF Typed
      <4> HIDE DEF new
      <4> QED
        BY <3>2, <4>1, <4>2 DEF Put
    <3>4. /\ pc' \in [Firing -> PC] /\ iter' \in [Firing -> Nat] /\ k' \in [Firing -> Nat \ {0}]
          /\ \A g \in Firing : g # f => pc'[g] = pc[g] /\ iter'[g] = iter[g] /\ k'[g] = k[g]
      <4>1. pc' = Put(pc, f, "tool") /\ iter' = Put(iter, f, iter[f] + 1) /\ k' = Put(k, f, 1)
        BY <1>3, <2>2 DEF Iterate
      <4>2. pc \in [Firing -> PC] /\ iter \in [Firing -> Nat] /\ k \in [Firing -> Nat \ {0}]
        BY DEF Typed
      <4>3. "tool" \in PC /\ iter[f] + 1 \in Nat /\ 1 \in Nat \ {0}
        BY <4>2 DEF PC
      <4> QED
        BY <4>1, <4>2, <4>3 DEF Put
    <3>5. UNCHANGED <<conf, clientVars, resp, attempt, humanVars, ran, cost, reported>>
      BY <1>3, <2>2 DEF Iterate
    <3> QED
      BY <3>3, <3>4, <3>5 DEF Typed, Firing
  <2> QED
    BY <2>1, <2>2
<1>4. CASE Exceeded(f)
  BY <1>1, <1>4, FailTyped DEF Exceeded, Typed, Firing
<1>5. CASE ToolCall(f)
  <2>1. CASE \E err : Fail(f, cost[f][1], err) /\ UNCHANGED loopVars
    BY <1>1, <1>5, <2>1, FailTyped DEF ToolCall, Typed, Firing
  <2>2. CASE \E text : Result(f, text) /\ UNCHANGED <<pc, cost, reported>>
    BY <1>2, <1>5, <2>2 DEF ToolCall, Typed, Firing
  <2>3. CASE (\E at \in {"wait", "exec"} : pc' = [pc EXCEPT ![f] = at]) /\ UNCHANGED <<loopVars, cost, reported>>
    BY <1>5, <2>3 DEF ToolCall, Typed, Firing, PC
  <2> QED
    BY <1>5, <2>1, <2>2, <2>3 DEF ToolCall, AskApproval, Put
<1>6. CASE WaitApproval(f)
  <2>1. CASE Fail(f, cost[f][1], "context") /\ UNCHANGED <<chan, loopVars>>
    BY <1>1, <1>6, <2>1, FailTyped DEF WaitApproval, Typed, Firing
  <2>2. CASE chan' = [chan EXCEPT ![f] = "empty"] /\ pc' = [pc EXCEPT ![f] = "exec"]
             /\ UNCHANGED <<loopVars, cost, reported>>
    BY <1>6, <2>2 DEF WaitApproval, Typed, Firing, PC
  <2>3. CASE chan' = [chan EXCEPT ![f] = "empty"] /\ pc' = [pc EXCEPT ![f] = "tool"]
             /\ Result(f, "rejected") /\ UNCHANGED <<cost, reported>>
    BY <1>2, <1>6, <2>3 DEF WaitApproval, Typed, Firing, PC
  <2> QED
    BY <1>6, <2>1, <2>2, <2>3 DEF WaitApproval, TakesAnswer, Put
<1>7. CASE Execute(f)
  <2>1. ran' \in [Firing -> Nat] /\ \A g \in Firing : g # f => ran'[g] = ran[g]
    BY <1>7 DEF Execute, Put, Typed
  <2> QED
    BY <1>2, <1>7, <2>1 DEF Execute, Put, Typed, Firing, PC
<1>8. CASE Recall(f)
  BY <1>8 DEF Recall, Request, Put, Typed, Firing, PC
<1> QED
  BY <1>3, <1>4, <1>5, <1>6, <1>7, <1>8

(* Begin and end of an attempt, and the human.                               *)
LEMMA RestTyped ==
  ASSUME Typed, NEW f \in Firing,
         fireLLM(f) \/ Sleep(f) \/ AppendHistory(f) \/ Deposit(f) \/ ResolveHITL(f)
  PROVE  Typed' /\ Others(f)
<1> USE DEF Others, Row, clientVars, loopVars, humanVars
<1>1. CASE fireLLM(f)
  <2>1. /\ msgs' \in [Firing -> Seq(Message)] /\ iter' \in [Firing -> Nat] /\ k' \in [Firing -> Nat \ {0}]
        /\ \A g \in Firing : g # f => msgs'[g] = msgs[g] /\ iter'[g] = iter[g] /\ k'[g] = k[g]
    BY <1>1 DEF fireLLM, Put, Typed
  <2>2. resp' \in [Firing -> Response] /\ \A g \in Firing : g # f => resp'[g] = resp[g]
    <3>1. NoResp \in Response
      <4>1. <<>> \in Seq(Name)
        OBVIOUS
      <4> QED
        BY <4>1, Zenon DEF NoResp, Response
    <3> QED
      BY <1>1, <3>1 DEF fireLLM, Put, Typed
  <2>3. CASE Request(f, "first") /\ UNCHANGED <<cost, reported>>
    BY <1>1, <2>1, <2>2, <2>3 DEF fireLLM, Request, Put, Typed, Firing, PC
  <2>4. CASE Fail(f, 0, "transient") /\ UNCHANGED clientVars
    <3>1. /\ pc' \in [Firing -> PC] /\ cost' \in [Firing -> Nat \X Nat] /\ reported' \in [Firing -> Nat]
          /\ \A g \in Firing : g # f => pc'[g] = pc[g] /\ cost'[g] = cost[g] /\ reported'[g] = reported[g]
      BY <2>4, FailTyped
    <3>2. UNCHANGED <<conf, clientVars, attempt, humanVars, ran>>
      BY <1>1, <2>4 DEF fireLLM
    <3> QED
      BY <2>1, <2>2, <3>1, <3>2 DEF Typed, Firing
  <2> QED
    BY <1>1, <2>3, <2>4 DEF fireLLM
<1>2. CASE Sleep(f)
  <2>1. pc' \in [Firing -> PC] /\ \A g \in Firing : g # f => pc'[g] = pc[g]
    BY <1>2 DEF Sleep, Put, Typed, PC
  <2>2. attempt' \in [Firing -> Nat \ {0}] /\ \A g \in Firing : g # f => attempt'[g] = attempt[g]
    <3>1. attempt' = attempt \/ attempt' = Put(attempt, f, attempt[f] + 1)
      BY <1>2 DEF Sleep
    <3>2. attempt \in [Firing -> Nat \ {0}] /\ attempt[f] + 1 \in Nat \ {0}
      BY DEF Typed
    <3> QED
      BY <3>1, <3>2 DEF Put
  <2> QED
    BY <1>2, <2>1, <2>2 DEF Sleep, Typed, Firing
<1>3. CASE AppendHistory(f)
  BY <1>3 DEF AppendHistory, Put, Typed, Firing, PC
<1>4. CASE Deposit(f)
  <2>1. CASE conf[f].fits
    <3>1. pc' \in [Firing -> PC] /\ \A g \in Firing : g # f => pc'[g] = pc[g]
      BY <1>4, <2>1 DEF Deposit, Put, Typed, PC
    <3>2. reported' \in [Firing -> Nat] /\ \A g \in Firing : g # f => reported'[g] = reported[g]
      <4>1. reported' = Put(reported, f, reported[f] + cost[f][1] + cost[f][2])
        BY <1>4, <2>1 DEF Deposit
      <4>2. reported \in [Firing -> Nat] /\ reported[f] + cost[f][1] + cost[f][2] \in Nat
        BY DEF Typed
      <4> QED
        BY <4>1, <4>2 DEF Put
    <3>3. cost' \in [Firing -> Nat \X Nat] /\ \A g \in Firing : g # f => cost'[g] = cost[g]
      <4>1. cost' = Put(cost, f, <<0, 0>>)
        BY <1>4, <2>1 DEF Deposit
      <4>2. cost \in [Firing -> Nat \X Nat] /\ <<0, 0>> \in Nat \X Nat
        BY DEF Typed
      <4> QED
        BY <4>1, <4>2 DEF Put
    <3> QED
      BY <1>4, <3>1, <3>2, <3>3 DEF Deposit, Typed, Firing
  <2>2. CASE ~conf[f].fits
    <3>1. cost[f][1] + cost[f][2] \in Nat
      BY DEF Typed
    <3> QED
      BY <1>4, <2>2, <3>1, FailTyped DEF Deposit, Typed, Firing
  <2> QED
    BY <2>1, <2>2
<1>5. CASE ResolveHITL(f)
  <2>1. PICK a \in {"approve", "reject"} :
          /\ chan' = Put(chan, f, a)
          /\ granted' = IF a = "approve" THEN Put(granted, f, granted[f] + 1) ELSE granted
    BY <1>5 DEF ResolveHITL
  <2>2. chan' \in [Firing -> {"empty", "approve", "reject"}] /\ \A g \in Firing : g # f => chan'[g] = chan[g]
    BY <2>1 DEF Put, Typed
  <2>3. granted' \in [Firing -> Nat] /\ \A g \in Firing : g # f => granted'[g] = granted[g]
    BY <2>1 DEF Put, Typed
  <2> QED
    BY <1>5, <2>2, <2>3 DEF ResolveHITL, Typed, Firing
<1> QED
  BY <1>1, <1>2, <1>3, <1>4, <1>5

(* Every step of a firing keeps the types and leaves the other firings.      *)
LEMMA StepTyped ==
  ASSUME Typed, NEW f \in Firing, Step(f) \/ ResolveHITL(f) PROVE Typed' /\ Others(f)
BY ClientTyped, ToolsTyped, RestTyped DEF Step

(* Cancel and the end keep everything a firing has.                          *)
LEMMA QuietTyped ==
  ASSUME Cancel \/ Done \/ UNCHANGED vars
  PROVE  /\ UNCHANGED <<conf, pc, clientVars, resp, loopVars, attempt, humanVars, ran, cost, reported>>
         /\ (Typed => Typed') /\ \A g \in Firing : Row(g)' = Row(g)
<1>1. UNCHANGED <<conf, pc, clientVars, resp, loopVars, attempt, humanVars, ran, cost, reported>>
  BY DEF Cancel, Done, vars, clientVars, loopVars, humanVars
<1> QED
  BY <1>1 DEF clientVars, loopVars, humanVars, Typed, Firing, Row

(* Every variable of a firing keeps its type: no index of the tool loop, no  *)
(* count of calls, of approvals or of cost leaves the numbers.               *)
THEOREM TypeCorrect == Spec => []Typed
<1>1. Init => Typed
  <2> SUFFICES ASSUME Init PROVE Typed
    OBVIOUS
  <2>1. NoResp \in Response
    <3>1. <<>> \in Seq(Name)
      OBVIOUS
    <3> QED
      BY <3>1, Zenon DEF NoResp, Response
  <2>2. resp \in [Firing -> Response] /\ msgs \in [Firing -> Seq(Message)]
    BY <2>1 DEF Init
  <2>3. cost \in [Firing -> Nat \X Nat]
    <3>1. <<0, 0>> \in Nat \X Nat
      OBVIOUS
    <3> QED
      BY <3>1 DEF Init
  <2>4. /\ frames \in [Firing -> Nat] /\ attempt \in [Firing -> Nat \ {0}]
        /\ iter \in [Firing -> Nat] /\ k \in [Firing -> Nat \ {0}]
        /\ granted \in [Firing -> Nat] /\ ran \in [Firing -> Nat]
        /\ billed \in [Firing -> Nat] /\ reported \in [Firing -> Nat]
    BY DEF Init
  <2> QED
    BY <2>2, <2>3, <2>4 DEF Init, Typed, PC
<1>2. Typed /\ [Next]_vars => Typed'
  BY StepTyped, QuietTyped DEF Next
<1> QED
  BY <1>1, <1>2, PTL DEF Spec

-----------------------------------------------------------------------------
(* ApprovalsCover *)

(* A tool that somebody had to approve is about to run.                      *)
Pending(f) == pc[f] = "exec" /\ Tool(f) \in RequiresHITL /\ ~hostGated(f)

(* Approvals that are used up, or will be: those of executions, the one of   *)
(* the tool about to run and the one in the channel.                         *)
Used(f) == ran[f] + (IF Pending(f) THEN 1 ELSE 0) + (IF chan[f] = "approve" THEN 1 ELSE 0)

Covered == \A f \in Firing : conf[f].channel => Used(f) <= granted[f]

(* Steps that neither run a tool nor touch the channel.                      *)
LEMMA UncoveredKeep ==
  ASSUME Typed, NEW f \in Firing,
         \/ fireLLM(f) \/ Sleep(f) \/ Send(f) \/ buildCompletionsBody(f) \/ CallError(f) \/ NotFound(f)
         \/ Answer(f) \/ FormatRetry(f) \/ Iterate(f) \/ Exceeded(f) \/ Recall(f) \/ AppendHistory(f)
         \/ Deposit(f)
  PROVE  pc[f] # "exec" /\ pc'[f] # "exec" /\ UNCHANGED <<ran, chan, granted>>
<1> USE DEF humanVars
<1>0. cost[f][1] \in Nat /\ cost[f][1] + cost[f][2] \in Nat
  BY DEF Typed
<1>1. CASE fireLLM(f)
  BY <1>1, FailTyped DEF fireLLM, Request, Put, Typed
<1>2. CASE Sleep(f) \/ Send(f) \/ FormatRetry(f) \/ Recall(f) \/ AppendHistory(f)
  BY <1>2 DEF Sleep, Send, FormatRetry, Recall, AppendHistory, Request, Put, Typed
<1>3. CASE buildCompletionsBody(f) \/ CallError(f)
  BY <1>3, CallFailedTyped DEF buildCompletionsBody, CallError
<1>4. CASE NotFound(f)
  BY <1>4, CallFailedTyped DEF NotFound, Put, Typed
<1>5. CASE Answer(f)
  BY <1>5 DEF Answer, Dispatch, Put, Typed
<1>6. CASE Iterate(f)
  BY <1>0, <1>6, FailTyped DEF Iterate, Put, Typed
<1>7. CASE Exceeded(f)
  BY <1>0, <1>7, FailTyped DEF Exceeded
<1>8. CASE Deposit(f)
  BY <1>0, <1>8, FailTyped DEF Deposit, Put, Typed
<1> QED
  BY <1>1, <1>2, <1>3, <1>4, <1>5, <1>6, <1>7, <1>8

(* What a step does to the firing's own count.                               *)
LEMMA StepCovered ==
  ASSUME Typed, NEW f \in Firing, conf[f].channel, Used(f) <= granted[f], Step(f) \/ ResolveHITL(f)
  PROVE  Used(f)' <= granted'[f]
<1> USE DEF humanVars
<1>0. /\ ran[f] \in Nat /\ granted[f] \in Nat /\ cost[f][1] \in Nat
      /\ Typed' /\ conf' = conf
  BY StepTyped DEF Typed, Others
<1>1. CASE ToolCall(f)
  <2>1. pc[f] = "tool" /\ UNCHANGED <<ran, chan, granted, conf, resp>>
    BY <1>1 DEF ToolCall
  <2>2. ~Pending(f)'
    <3>1. CASE pc'[f] = "exec"
      <4>1. ~(Tool(f) \in RequiresHITL /\ ~hostGated(f)) /\ k' = k
        BY <1>0, <1>1, <2>1, <3>1, FailTyped DEF ToolCall, AskApproval, Put, loopVars, Typed
      <4> QED
        BY <4>1, <2>1 DEF Pending, Tool, hostGated
    <3> QED
      BY <3>1 DEF Pending
  <2> QED
    BY <1>0, <2>1, <2>2 DEF Used, Pending
<1>2. CASE WaitApproval(f)
  <2>1. pc[f] = "wait" /\ UNCHANGED <<ran, granted>>
    BY <1>2 DEF WaitApproval
  <2>2. CASE Fail(f, cost[f][1], "context") /\ UNCHANGED chan
    BY <1>0, <2>1, <2>2, FailTyped DEF Used, Pending
  <2>3. CASE chan[f] = "approve" /\ chan'[f] = "empty"
    BY <1>0, <2>1, <2>3 DEF Used, Pending
  <2>4. CASE chan[f] # "approve" /\ chan'[f] = "empty" /\ pc'[f] = "tool"
    BY <1>0, <2>1, <2>4 DEF Used, Pending
  <2> QED
    BY <1>2, <2>2, <2>3, <2>4 DEF WaitApproval, TakesAnswer, Put, Typed
<1>3. CASE Execute(f)
  <2>1. pc[f] = "exec" /\ pc'[f] = "tool" /\ UNCHANGED <<chan, granted>>
    BY <1>3 DEF Execute, Put, Typed
  <2>2. ran'[f] = IF Pending(f) THEN ran[f] + 1 ELSE ran[f]
    BY <1>3, <2>1 DEF Execute, Pending, Put, Typed
  <2> QED
    BY <1>0, <2>1, <2>2 DEF Used, Pending
<1>4. CASE ResolveHITL(f)
  <2>1. chan[f] = "empty" /\ UNCHANGED <<pc, ran, resp, k>>
    BY <1>4 DEF ResolveHITL, loopVars
  <2>2. PICK a \in {"approve", "reject"} :
          chan'[f] = a /\ granted'[f] = IF a = "approve" THEN granted[f] + 1 ELSE granted[f]
    BY <1>4 DEF ResolveHITL, Put, Typed
  <2>3. Pending(f)' = Pending(f)
    BY <2>1 DEF Pending, Tool, hostGated
  <2> QED
    BY <1>0, <2>1, <2>2, <2>3 DEF Used
<1>5. CASE Step(f) /\ ~(ToolCall(f) \/ WaitApproval(f) \/ Execute(f))
  BY <1>0, <1>5, UncoveredKeep DEF Step, Used, Pending
<1> QED
  BY <1>1, <1>2, <1>3, <1>4, <1>5

(* ApprovalsCover: handleToolCalls takes one approval from the channel for   *)
(* each run of a tool that requires one, for any number of firings, of tool  *)
(* calls and of answers of the human, however they interleave.               *)
THEOREM ApprovalsCoverHolds == Spec => []ApprovalsCover
<1>1. Init => Covered
  BY DEF Init, Covered, Used, Pending
<1>2. Typed /\ Covered /\ [Next]_vars => Covered'
  <2> SUFFICES ASSUME Typed, Covered, [Next]_vars, NEW g \in Firing', conf'[g].channel
               PROVE  Used(g)' <= granted'[g]
    BY DEF Covered
  <2>1. CASE Cancel \/ Done \/ UNCHANGED vars
    <3>1. UNCHANGED <<conf, pc, resp, k, chan, granted, ran>>
      BY <2>1, QuietTyped DEF loopVars, humanVars
    <3> QED
      BY <3>1 DEF Covered, Used, Pending, Tool, hostGated, Firing
  <2>2. ASSUME NEW f \in Firing, Step(f) \/ ResolveHITL(f) PROVE Used(g)' <= granted'[g]
    <3>1. Others(f) /\ g \in Firing /\ conf[g].channel
      BY <2>2, StepTyped DEF Others, Firing
    <3>2. CASE g = f
      BY <2>2, <3>1, <3>2, StepCovered DEF Covered
    <3>3. CASE g # f
      BY <3>1, <3>3 DEF Others, Row, Covered, Used, Pending, Tool, hostGated
    <3> QED
      BY <3>2, <3>3
  <2> QED
    BY <2>1, <2>2 DEF Next
<1>3. Typed /\ Covered => ApprovalsCover
  <2> SUFFICES ASSUME Typed, Covered, NEW f \in Firing, conf[f].channel PROVE ran[f] <= granted[f]
    BY DEF ApprovalsCover
  <2>1. ran[f] \in Nat /\ granted[f] \in Nat /\ Used(f) <= granted[f]
    BY DEF Typed, Covered
  <2> QED
    BY <2>1 DEF Used
<1> QED
  BY <1>1, <1>2, <1>3, TypeCorrect, PTL DEF Spec

-----------------------------------------------------------------------------
(* BilledOnce *)

(* What a firing has been billed for and has not reported.                   *)
Owed(f) == reported[f] + cost[f][1] + cost[f][2]

(* In the first attempt everything billed is in cost or reported, until the  *)
(* attempt fails: what the tool loop had cost is then dropped.               *)
Booked ==
  \A f \in Firing :
    /\ Owed(f) <= billed[f]
    /\ attempt[f] = 1 /\ pc[f] \notin {"sleep", "failed"} => Owed(f) = billed[f]
    /\ pc[f] = "done" => cost[f] = <<0, 0>>

(* A failed attempt reports some of its cost.                                *)
LEMMA FailBooked ==
  ASSUME Typed, NEW f \in Firing, Owed(f) <= billed[f], billed'[f] = billed[f],
         NEW c \in Nat, c <= cost[f][1] + cost[f][2], NEW err, Fail(f, c, err)
  PROVE  Owed(f)' <= billed'[f] /\ pc'[f] \in {"sleep", "failed"}
<1>1. /\ reported[f] \in Nat /\ cost[f][1] \in Nat /\ cost[f][2] \in Nat /\ billed[f] \in Nat
  BY DEF Typed
<1>2. pc'[f] \in {"sleep", "failed"} /\ cost'[f] = <<0, 0>> /\ reported'[f] = reported[f] + c
  BY FailTyped
<1> QED
  BY <1>1, <1>2 DEF Owed

(* What a step does to the firing's own books.                               *)
LEMMA StepBooked ==
  ASSUME Typed, NEW f \in Firing, Step(f) \/ ResolveHITL(f),
         Owed(f) <= billed[f],
         attempt[f] = 1 /\ pc[f] \notin {"sleep", "failed"} => Owed(f) = billed[f]
  PROVE  /\ Owed(f)' <= billed'[f]
         /\ attempt'[f] = 1 /\ pc'[f] \notin {"sleep", "failed"} => Owed(f)' = billed'[f]
         /\ pc'[f] = "done" => cost'[f] = <<0, 0>>
<1> USE DEF clientVars, humanVars
<1> DEFINE Books == /\ Owed(f)' <= billed'[f]
                    /\ attempt'[f] = 1 /\ pc'[f] \notin {"sleep", "failed"} => Owed(f)' = billed'[f]
                    /\ pc'[f] = "done" => cost'[f] = <<0, 0>>
<1>0. /\ reported[f] \in Nat /\ cost[f][1] \in Nat /\ cost[f][2] \in Nat /\ billed[f] \in Nat
      /\ attempt[f] \in Nat \ {0} /\ 0 \in Nat /\ cost[f][1] + cost[f][2] \in Nat
  BY DEF Typed
<1>1. ASSUME UNCHANGED <<cost, reported, billed, attempt>>, pc[f] # "failed", pc[f] # "sleep", pc'[f] # "done"
      PROVE  Books
  BY <1>1 DEF Owed
<1>2. ASSUME NEW err, CallFailed(f, err), UNCHANGED <<billed, attempt>>, pc[f] \in {"send", "await"}
      PROVE  Books
  <2>1. CASE pc'[f] \in {"sleep", "failed"} /\ cost'[f] = <<0, 0>>
             /\ reported'[f] \in {reported[f], reported[f] + cost[f][1]}
    BY <1>0, <1>2, <2>1 DEF Owed
  <2>2. CASE pc'[f] \in {"loop", "finish"} /\ UNCHANGED <<cost, reported>>
    BY <1>1, <1>2, <2>2
  <2> QED
    BY <1>2, <2>1, <2>2, CallFailedTyped
<1>3. CASE fireLLM(f)
  <2>1. pc[f] = "start" /\ UNCHANGED <<billed, attempt>>
    BY <1>3 DEF fireLLM, Request
  <2>2. CASE Request(f, "first") /\ UNCHANGED <<cost, reported>>
    BY <1>1, <2>1, <2>2 DEF Request, Put, Typed
  <2>3. CASE Fail(f, 0, "transient")
    BY <1>0, <2>1, <2>3, FailBooked
  <2> QED
    BY <1>3, <2>2, <2>3 DEF fireLLM
<1>4. CASE Sleep(f)
  <2>1. UNCHANGED <<billed, cost, reported>> /\ pc[f] = "sleep"
    BY <1>4 DEF Sleep
  <2>2. (attempt'[f] = attempt[f] + 1 /\ pc'[f] = "start") \/ pc'[f] = "failed"
    BY <1>4 DEF Sleep, Put, Typed
  <2> QED
    BY <1>0, <2>1, <2>2 DEF Owed
<1>5. CASE Send(f) \/ FormatRetry(f) \/ Recall(f) \/ AppendHistory(f) \/ Execute(f)
  BY <1>1, <1>5 DEF Send, FormatRetry, Recall, AppendHistory, Execute, Request, Put, Typed
<1>6. CASE buildCompletionsBody(f) \/ CallError(f)
  BY <1>2, <1>6 DEF buildCompletionsBody, CallError
<1>7. CASE NotFound(f)
  <2>1. CASE model[f] = "fallback"
    BY <1>2, <1>7, <2>1 DEF NotFound
  <2>2. CASE model[f] # "fallback"
    BY <1>1, <1>7, <2>2 DEF NotFound, Put, Typed
  <2> QED
    BY <2>1, <2>2
<1>8. CASE Answer(f)
  <2>1. pc[f] = "await" /\ UNCHANGED <<reported, attempt>>
    BY <1>8 DEF Answer
  <2>2. billed'[f] = billed[f] + 1
    BY <1>8 DEF Answer, Put, Typed
  <2>3. \/ cost'[f] = <<cost[f][1], cost[f][2] + 1>>
        \/ cost'[f] = <<cost[f][1] + 1, cost[f][2]>>
    BY <1>8 DEF Answer, Put, Typed
  <2>4. pc'[f] # "done"
    BY <1>8 DEF Answer, Dispatch, Put, Typed
  <2> QED
    BY <1>0, <2>1, <2>2, <2>3, <2>4 DEF Owed
<1>9. CASE Iterate(f)
  <2>1. pc[f] = "loop" /\ UNCHANGED <<billed, attempt>>
    BY <1>9 DEF Iterate
  <2>2. CASE cancelled
    BY <1>0, <1>9, <2>1, <2>2, FailBooked DEF Iterate
  <2>3. CASE ~cancelled
    BY <1>1, <1>9, <2>1, <2>3 DEF Iterate, Put, Typed
  <2> QED
    BY <2>2, <2>3
<1>10. CASE Exceeded(f)
  BY <1>0, <1>10, FailBooked DEF Exceeded
<1>11. CASE ToolCall(f)
  <2>1. pc[f] = "tool" /\ UNCHANGED <<billed, attempt>>
    BY <1>11 DEF ToolCall
  <2>2. CASE Fail(f, cost[f][1], "transient")
    BY <1>0, <2>1, <2>2, FailBooked
  <2>3. CASE UNCHANGED <<cost, reported>> /\ pc'[f] # "done"
    BY <1>1, <2>1, <2>3
  <2> QED
    BY <1>11, <2>1, <2>2, <2>3 DEF ToolCall, AskApproval, Put, Typed
<1>12. CASE WaitApproval(f)
  <2>1. pc[f] = "wait" /\ UNCHANGED <<billed, attempt>>
    BY <1>12 DEF WaitApproval
  <2>2. CASE Fail(f, cost[f][1], "context")
    BY <1>0, <2>1, <2>2, FailBooked
  <2>3. CASE UNCHANGED <<cost, reported>> /\ pc'[f] # "done"
    BY <1>1, <2>1, <2>3
  <2> QED
    BY <1>12, <2>2, <2>3 DEF WaitApproval, TakesAnswer, Put, Typed
<1>13. CASE Deposit(f)
  <2>1. pc[f] = "deposit" /\ UNCHANGED <<billed, attempt>>
    BY <1>13 DEF Deposit
  <2>2. CASE ~conf[f].fits
    BY <1>0, <1>13, <2>1, <2>2, FailBooked DEF Deposit
  <2>3. CASE conf[f].fits
    <3>1. cost'[f] = <<0, 0>> /\ reported'[f] = reported[f] + cost[f][1] + cost[f][2]
      BY <1>13, <2>3 DEF Deposit, Put, Typed
    <3> QED
      BY <1>0, <2>1, <3>1 DEF Owed
  <2> QED
    BY <2>2, <2>3
<1>14. CASE ResolveHITL(f)
  <2>1. UNCHANGED <<pc, billed, attempt, cost, reported>> /\ pc[f] \notin {"done", "failed"}
    BY <1>14 DEF ResolveHITL, Ended
  <2> QED
    BY <2>1 DEF Owed
<1> QED
  BY <1>3, <1>4, <1>5, <1>6, <1>7, <1>8, <1>9, <1>10, <1>11, <1>12, <1>13, <1>14 DEF Step

(* The books of the firings: never more reported than billed, and all of it  *)
(* by a firing that succeeds at once.                                        *)
THEOREM ReportsBilledHolds == Spec => []ReportsBilled
<1>1. Init => Booked
  BY DEF Init, Booked, Owed
<1>2. Typed /\ Booked /\ [Next]_vars => Booked'
  <2> SUFFICES ASSUME Typed, Booked, [Next]_vars, NEW g \in Firing'
               PROVE  /\ Owed(g)' <= billed'[g]
                      /\ attempt'[g] = 1 /\ pc'[g] \notin {"sleep", "failed"} => Owed(g)' = billed'[g]
                      /\ pc'[g] = "done" => cost'[g] = <<0, 0>>
    BY DEF Booked
  <2>1. CASE Cancel \/ Done \/ UNCHANGED vars
    <3>1. UNCHANGED <<conf, pc, attempt, billed, cost, reported>>
      BY <2>1, QuietTyped DEF clientVars
    <3> QED
      BY <3>1 DEF Booked, Owed, Firing
  <2>2. ASSUME NEW f \in Firing, Step(f) \/ ResolveHITL(f)
        PROVE  /\ Owed(g)' <= billed'[g]
               /\ attempt'[g] = 1 /\ pc'[g] \notin {"sleep", "failed"} => Owed(g)' = billed'[g]
               /\ pc'[g] = "done" => cost'[g] = <<0, 0>>
    <3>1. Others(f) /\ g \in Firing
      BY <2>2, StepTyped DEF Others, Firing
    <3>2. CASE g = f
      BY <2>2, <3>1, <3>2, StepBooked DEF Booked
    <3>3. CASE g # f
      BY <3>1, <3>3 DEF Others, Row, Booked, Owed
    <3> QED
      BY <3>2, <3>3
  <2> QED
    BY <2>1, <2>2 DEF Next
<1>3. Typed /\ Booked => ReportsBilled
  <2> SUFFICES ASSUME Typed, Booked, NEW f \in Firing
               PROVE  /\ reported[f] + cost[f][1] + cost[f][2] <= billed[f]
                      /\ pc[f] = "done" /\ attempt[f] = 1 => reported[f] = billed[f]
    BY DEF ReportsBilled
  <2>1. reported[f] \in Nat
    BY DEF Typed
  <2> QED
    BY <2>1 DEF Booked, Owed
<1> QED
  BY <1>1, <1>2, <1>3, TypeCorrect, PTL DEF Spec

(* The sum over the firings.  The provers cannot instantiate an induction    *)
(* principle, but a set of subsets of a finite set has a minimal element:    *)
(* there is no smallest subset for which a claim fails.                      *)
LEMMA MinimalSubset ==
  ASSUME NEW S, IsFiniteSet(S), NEW T \in SUBSET (SUBSET S), T # {}
  PROVE  \E x \in T : \A y \in T : ~ (y \subseteq x /\ y # x)
<1>1. SUBSET S = FiniteSubsetsOf(S)
  BY FS_FiniteSubsetsOfFinite
<1>2. \E x \in T : \A y \in T : ~ (<<y, x>> \in StrictSubsetOrdering(S))
  BY <1>1, WFMin, FS_StrictSubsetOrderingWellFounded
<1> QED
  BY <1>2 DEF StrictSubsetOrdering

(* A set with b[x] elements for each x of s: its cardinality is the sum.     *)
Units(b, s) == {u \in s \X Nat : 1 <= u[2] /\ u[2] <= b[u[1]]}

LEMMA UnitsSplit ==
  ASSUME NEW S, NEW b \in [S -> Nat], NEW s \in SUBSET S, NEW x \in s
  PROVE  /\ Units(b, s) = Units(b, s \ {x}) \cup ({x} \X (1..b[x]))
         /\ Units(b, s \ {x}) \cap ({x} \X (1..b[x])) = {}
BY DEF Units

LEMMA ColumnSize ==
  ASSUME NEW x, NEW n \in Nat
  PROVE  IsFiniteSet({x} \X (1..n)) /\ Cardinality({x} \X (1..n)) = n
<1>1. IsFiniteSet({x}) /\ Cardinality({x}) = 1
  BY FS_Singleton
<1>2. IsFiniteSet(1..n) /\ Cardinality(1..n) = n
  BY FS_Interval
<1>3. /\ IsFiniteSet({x} \X (1..n))
      /\ Cardinality({x} \X (1..n)) = Cardinality({x}) * Cardinality(1..n)
  BY <1>1, <1>2, FS_Product
<1> QED
  BY <1>1, <1>2, <1>3

LEMMA UnitsFinite ==
  ASSUME NEW S, IsFiniteSet(S), NEW b \in [S -> Nat]
  PROVE  \A s \in SUBSET S : IsFiniteSet(Units(b, s))
<1> DEFINE T == {s \in SUBSET S : ~IsFiniteSet(Units(b, s))}
<1> SUFFICES ASSUME T # {} PROVE FALSE
  OBVIOUS
<1>1. PICK s \in T : \A y \in T : ~ (y \subseteq s /\ y # s)
  <2>1. T \in SUBSET (SUBSET S)
    OBVIOUS
  <2> HIDE DEF T
  <2> QED
    BY <2>1, MinimalSubset
<1>2. CASE s = {}
  <2>1. Units(b, s) = {}
    BY <1>2 DEF Units
  <2> QED
    BY <2>1, FS_EmptySet
<1>3. CASE s # {}
  <2>1. PICK x \in s : TRUE
    BY <1>3
  <2>2. IsFiniteSet(Units(b, s \ {x}))
    BY <1>1
  <2>3. IsFiniteSet({x} \X (1..b[x]))
    BY ColumnSize
  <2>4. Units(b, s) = Units(b, s \ {x}) \cup ({x} \X (1..b[x]))
    BY UnitsSplit
  <2>5. IsFiniteSet(Units(b, s \ {x}) \cup ({x} \X (1..b[x])))
    BY <2>2, <2>3, FS_Union
  <2> QED
    BY <2>4, <2>5
<1> QED
  BY <1>2, <1>3

LEMMA UnitsSum ==
  ASSUME NEW S, IsFiniteSet(S), NEW b \in [S -> Nat], NEW s \in SUBSET S, NEW x \in s
  PROVE  Cardinality(Units(b, s)) = b[x] + Cardinality(Units(b, s \ {x}))
<1>1. IsFiniteSet(Units(b, s \ {x})) /\ Cardinality(Units(b, s \ {x})) \in Nat
  BY UnitsFinite, FS_CardinalityType
<1>2. IsFiniteSet({x} \X (1..b[x])) /\ Cardinality({x} \X (1..b[x])) = b[x] /\ b[x] \in Nat
  BY ColumnSize
<1>3. Cardinality(Units(b, s \ {x}) \cap ({x} \X (1..b[x]))) = 0
  BY UnitsSplit, FS_EmptySet
<1>4. Cardinality(Units(b, s \ {x}) \cup ({x} \X (1..b[x])))
        = Cardinality(Units(b, s \ {x})) + Cardinality({x} \X (1..b[x]))
          - Cardinality(Units(b, s \ {x}) \cap ({x} \X (1..b[x])))
  BY <1>1, <1>2, FS_Union
<1>5. Units(b, s) = Units(b, s \ {x}) \cup ({x} \X (1..b[x]))
  BY UnitsSplit
<1> QED
  BY <1>1, <1>2, <1>3, <1>4, <1>5

Total(b, S) == MapThenSumSet(LAMBDA x : b[x], S)

(* MapThenSumSet adds up: the fold picks the elements in whatever order      *)
(* CHOOSE does, and the result is the number of units.                       *)
LEMMA TotalIs ==
  ASSUME NEW S, IsFiniteSet(S), NEW b \in [S -> Nat]
  PROVE  Total(b, S) = Cardinality(Units(b, S))
<1> DEFINE any(s) == CHOOSE x \in s : TRUE
           step(g) == [s \in SUBSET S |-> IF s = {} THEN 0 ELSE b[any(s)] + g[s \ {any(s)}]]
           fold == CHOOSE g : g = step(g)
           W == [s \in SUBSET S |-> Cardinality(Units(b, s))]
           T == {s \in SUBSET S : fold[s] # W[s]}
<1>1. Total(b, S) = fold[S]
  BY DEF Total, MapThenSumSet, MapThenFoldSet
<1>2. W = step(W)
  <2>1. W[{}] = 0
    <3>1. Units(b, {}) = {}
      BY DEF Units
    <3> QED
      BY <3>1, FS_EmptySet
  <2>2. ASSUME NEW s \in SUBSET S, s # {} PROVE W[s] = b[any(s)] + W[s \ {any(s)}]
    <3>1. any(s) \in s
      BY <2>2
    <3> HIDE DEF any
    <3> QED
      BY <3>1, UnitsSum
  <2> HIDE DEF any
  <2> QED
    BY <2>1, <2>2
<1>3. fold = step(fold)
  <2> HIDE DEF step, W
  <2> QED
    BY <1>2
<1>4. T = {}
  <2> SUFFICES ASSUME T # {} PROVE FALSE
    OBVIOUS
  <2>1. PICK s \in T : \A y \in T : ~ (y \subseteq s /\ y # s)
    <3>1. T \in SUBSET (SUBSET S)
      OBVIOUS
    <3> HIDE DEF T
    <3> QED
      BY <3>1, MinimalSubset
  <2> HIDE DEF fold, W
  <2>2. CASE s = {}
    BY <1>2, <1>3, <2>1, <2>2
  <2>3. CASE s # {}
    <3>1. any(s) \in s
      BY <2>3
    <3>2. fold[s \ {any(s)}] = W[s \ {any(s)}]
      BY <2>1, <3>1
    <3>3. s \in SUBSET S
      BY <2>1
    <3> HIDE DEF any
    <3> QED
      BY <1>2, <1>3, <2>1, <2>3, <3>2, <3>3
  <2> QED
    BY <2>2, <2>3
<1> QED
  BY <1>1, <1>4

(* One more response for one firing.                                         *)
LEMMA TotalAdds ==
  ASSUME NEW S, IsFiniteSet(S), NEW b \in [S -> Nat], NEW f \in S
  PROVE  Total([b EXCEPT ![f] = b[f] + 1], S) = Total(b, S) + 1
<1> DEFINE c == [b EXCEPT ![f] = b[f] + 1]
<1>1. c \in [S -> Nat]
  OBVIOUS
<1>2. Units(c, S) = Units(b, S) \cup {<<f, b[f] + 1>>} /\ <<f, b[f] + 1>> \notin Units(b, S)
  BY DEF Units
<1>3. IsFiniteSet(Units(b, S))
  BY UnitsFinite
<1>4. Cardinality(Units(c, S)) = Cardinality(Units(b, S)) + 1
  BY <1>2, <1>3, FS_AddElement
<1> HIDE DEF c
<1>5. Total(c, S) = Total(b, S) + 1
  BY <1>1, <1>4, TotalIs
<1> QED
  BY <1>5 DEF c

(* The ledger changes only with a response, and then by one.                 *)
LEMMA StepLedger ==
  ASSUME Typed, NEW f \in Firing, Step(f) \/ ResolveHITL(f)
  PROVE  \/ UNCHANGED <<ledger, billed>>
         \/ ledger' = ledger + 1 /\ billed' = [billed EXCEPT ![f] = billed[f] + 1]
<1>1. CASE Answer(f)
  BY <1>1 DEF Answer, Record, Put
<1>2. CASE Step(f) /\ ~Answer(f)
  BY <1>2 DEF Step, fireLLM, Sleep, Send, buildCompletionsBody, CallError, NotFound, FormatRetry, Iterate,
              Exceeded, ToolCall, WaitApproval, Execute, Recall, AppendHistory, Deposit, Request, clientVars
<1>3. CASE ResolveHITL(f)
  BY <1>3 DEF ResolveHITL, clientVars
<1> QED
  BY <1>1, <1>2, <1>3

(* BilledOnce: the token ledger counts every response exactly once, with any *)
(* number of concurrent firings, whatever fallback, format retry or retry of *)
(* the firing asked for it.                                                  *)
THEOREM BilledOnceHolds == Spec => []BilledOnce
<1> DEFINE Sum == ledger = Total(billed, Firing)
<1>1. Init => Sum
  <2> SUFFICES ASSUME Init PROVE ledger = Total(billed, Firing)
    OBVIOUS
  <2>1. IsFiniteSet(Firing) /\ billed \in [Firing -> Nat] /\ ledger = 0 /\ \A f \in Firing : billed[f] = 0
    BY LLMAssumption DEF Init, Firing
  <2>2. Units(billed, Firing) = {}
    BY <2>1 DEF Units
  <2> QED
    BY <2>1, <2>2, TotalIs, FS_EmptySet
<1>2. Typed /\ Sum /\ [Next]_vars => Sum'
  <2> SUFFICES ASSUME Typed, Sum, [Next]_vars PROVE ledger' = Total(billed', Firing')
    BY DEF Total, MapThenSumSet, MapThenFoldSet
  <2>1. IsFiniteSet(Firing) /\ billed \in [Firing -> Nat]
    BY LLMAssumption DEF Typed, Firing
  <2>2. CASE Cancel \/ Done \/ UNCHANGED vars
    <3>1. UNCHANGED <<conf, ledger, billed>>
      BY <2>2, QuietTyped DEF clientVars
    <3> QED
      BY <3>1 DEF Firing
  <2>3. ASSUME NEW f \in Firing, Step(f) \/ ResolveHITL(f) PROVE ledger' = Total(billed', Firing')
    <3>1. Firing' = Firing
      BY <2>3, StepTyped DEF Others, Firing
    <3> QED
      BY <2>1, <2>3, <3>1, StepLedger, TotalAdds
  <2> QED
    BY <2>2, <2>3 DEF Next
<1>3. Sum /\ ReportsBilled => BilledOnce
  BY DEF BilledOnce, Total
<1> QED
  BY <1>1, <1>2, <1>3, TypeCorrect, ReportsBilledHolds, PTL DEF Spec

-----------------------------------------------------------------------------
(* CallsAnswered *)

IsCall(m) == m.result = None
Less(a, b) == a[1] < b[1] \/ (a[1] = b[1] /\ a[2] < b[2])
Turn(m) == IF IsCall(m) THEN m.call[1] ELSE m.result[1]

(* Of two messages the second is of a later response, or no call of the same *)
(* response after a result.                                                  *)
After(m, l) == Turn(m) < Turn(l) \/ (Turn(m) = Turn(l) /\ (~IsCall(m) => ~IsCall(l)))

(* Calls and results of i iterations: both in the order of their IDs, each   *)
(* result after its call.                                                    *)
Shape(ms, i) ==
  /\ \A p \in 1..Len(ms) :
       /\ IsCall(ms[p]) => ms[p].call[1] \in 1..i /\ ms[p].call[2] >= 1
       /\ ~IsCall(ms[p]) => \E q \in 1..Len(ms) : q < p /\ IsCall(ms[q]) /\ ms[q].call = ms[p].result
  /\ \A p, q \in 1..Len(ms) : p < q =>
       /\ IsCall(ms[p]) /\ IsCall(ms[q]) => Less(ms[p].call, ms[q].call)
       /\ ~IsCall(ms[p]) /\ ~IsCall(ms[q]) => Less(ms[p].result, ms[q].result)

(* The calls before b, and no others, have a result.                         *)
AnsweredTo(ms, b) ==
  \A p \in 1..Len(ms) :
    /\ IsCall(ms[p]) /\ Less(ms[p].call, b) =>
         \E q \in 1..Len(ms) : p < q /\ ~IsCall(ms[q]) /\ ms[q].result = ms[p].call
    /\ ~IsCall(ms[p]) => Less(ms[p].result, b)

Blocks(ms) == \A p, q \in 1..Len(ms) : p < q => After(ms[p], ms[q])

(* Between iterations, and in the loop at call j of n.                       *)
Full(ms, i) == Shape(ms, i) /\ Blocks(ms) /\ AnsweredTo(ms, <<i + 1, 0>>)

Partial(ms, i, j, n) ==
  /\ Shape(ms, i) /\ Blocks(ms) /\ AnsweredTo(ms, <<i, j>>)
  /\ \A p \in 1..Len(ms) : IsCall(ms[p]) /\ ms[p].call[1] = i => ms[p].call[2] <= n
  /\ \A x \in 1..n : \E p \in 1..Len(ms) : IsCall(ms[p]) /\ ms[p].call = <<i, x>>

Between == {"send", "await", "format", "loop", "finish", "exceeded"}
InLoop == {"tool", "wait", "exec"}

Conversation(f) ==
  /\ pc[f] \in Between => Full(msgs[f], iter[f])
  /\ pc[f] \in InLoop => Partial(msgs[f], iter[f], k[f], Len(resp[f].calls))
  /\ pc[f] \in {"wait", "exec"} => k[f] <= Len(resp[f].calls)

(* IDs are ordered.                                                          *)
LEMMA LessStrict ==
  ASSUME NEW a \in Nat \X Nat, NEW b \in Nat \X Nat
  PROVE  /\ a[1] \in Nat /\ a[2] \in Nat
         /\ ~(Less(a, b) /\ Less(b, a)) /\ ~Less(a, a)
<1>1. a[1] \in Nat /\ a[2] \in Nat /\ b[1] \in Nat /\ b[2] \in Nat
  OBVIOUS
<1> QED
  BY <1>1 DEF Less

(* No message, nothing to answer.                                            *)
LEMMA EmptyFull == Full(<<>>, 0)
BY DEF Full, Shape, Blocks, AnsweredTo

(* The result of the call in hand is appended.                               *)
LEMMA ResultPartial ==
  ASSUME NEW ms \in Seq(Message), NEW i \in Nat, NEW j \in Nat \ {0}, NEW n \in Nat, j <= n,
         Partial(ms, i, j, n)
  PROVE  Partial(Append(ms, [call |-> None, result |-> <<i, j>>]), i, j + 1, n)
<1> DEFINE m == [call |-> None, result |-> <<i, j>>]
           new == Append(ms, m)
<1>1. /\ Len(new) = Len(ms) + 1 /\ Len(ms) \in Nat
      /\ new[Len(ms) + 1] = m /\ \A p \in 1..Len(ms) : new[p] = ms[p] /\ ms[p] \in Message
  OBVIOUS
<1>2. ~IsCall(m) /\ m.result = <<i, j>> /\ m.result[1] = i /\ m.result[2] = j
  BY DEF IsCall, None
<1>3. \A p \in 1..Len(ms) : /\ ms[p].call \in Nat \X Nat /\ ms[p].result \in Nat \X Nat
  BY <1>1 DEF Message
<1> HIDE DEF m, new
<1>0. /\ \A p \in 1..Len(new) : p \in 1..Len(ms) \/ p = Len(ms) + 1
      /\ \A p \in 1..Len(ms) : p \in 1..Len(new) /\ p < Len(ms) + 1
      /\ Len(ms) + 1 \in 1..Len(new)
  BY <1>1
<1>4. Shape(new, i)
  <2>1. \E q \in 1..Len(ms) : IsCall(ms[q]) /\ ms[q].call = <<i, j>>
    <3>1. j \in 1..n
      OBVIOUS
    <3> QED
      BY <3>1 DEF Partial
  <2>2. \A p \in 1..Len(ms) : ~IsCall(ms[p]) => Less(ms[p].result, m.result)
    BY <1>2 DEF Partial, AnsweredTo
  <2>3. ASSUME NEW p \in 1..Len(new)
        PROVE  /\ IsCall(new[p]) => new[p].call[1] \in 1..i /\ new[p].call[2] >= 1
               /\ ~IsCall(new[p]) => \E q \in 1..Len(new) : q < p /\ IsCall(new[q]) /\ new[q].call = new[p].result
    <3>1. CASE p \in 1..Len(ms)
      BY <1>0, <1>1, <3>1 DEF Partial, Shape
    <3>2. CASE p = Len(ms) + 1
      BY <1>0, <1>1, <1>2, <2>1, <3>2
    <3> QED
      BY <1>0, <3>1, <3>2
  <2>4. ASSUME NEW p \in 1..Len(new), NEW q \in 1..Len(new), p < q
        PROVE  /\ IsCall(new[p]) /\ IsCall(new[q]) => Less(new[p].call, new[q].call)
               /\ ~IsCall(new[p]) /\ ~IsCall(new[q]) => Less(new[p].result, new[q].result)
    <3>1. CASE q \in 1..Len(ms)
      <4>1. p \in 1..Len(ms)
        BY <1>0, <1>1, <2>4, <3>1
      <4> QED
        BY <1>1, <2>4, <3>1, <4>1 DEF Partial, Shape
    <3>2. CASE q = Len(ms) + 1
      <4>1. p \in 1..Len(ms)
        BY <1>0, <1>1, <2>4, <3>2
      <4> QED
        BY <1>1, <1>2, <2>2, <3>2, <4>1
    <3> QED
      BY <1>0, <3>1, <3>2
  <2> QED
    BY <2>3, <2>4 DEF Shape
<1>5. AnsweredTo(new, <<i, j + 1>>)
  <2>1. ASSUME NEW p \in 1..Len(ms), IsCall(ms[p]), Less(ms[p].call, <<i, j + 1>>)
        PROVE  \E q \in 1..Len(new) : p < q /\ ~IsCall(new[q]) /\ new[q].result = ms[p].call
    <3>1. CASE Less(ms[p].call, <<i, j>>)
      BY <1>0, <1>1, <2>1, <3>1 DEF Partial, AnsweredTo
    <3>2. CASE ms[p].call = <<i, j>>
      BY <1>0, <1>1, <1>2, <3>2
    <3> QED
      BY <1>3, <2>1, <3>1, <3>2 DEF Less
  <2>2. ASSUME NEW p \in 1..Len(ms), ~IsCall(ms[p]) PROVE Less(ms[p].result, <<i, j + 1>>)
    BY <1>3, <2>2 DEF Partial, AnsweredTo, Less
  <2>3. Less(m.result, <<i, j + 1>>)
    BY <1>2 DEF Less
  <2> QED
    BY <1>0, <1>1, <1>2, <2>1, <2>2, <2>3 DEF AnsweredTo
<1>6. \A p \in 1..Len(new) : IsCall(new[p]) /\ new[p].call[1] = i => new[p].call[2] <= n
  BY <1>0, <1>1, <1>2 DEF Partial
<1>7. \A x \in 1..n : \E p \in 1..Len(new) : IsCall(new[p]) /\ new[p].call = <<i, x>>
  BY <1>0, <1>1 DEF Partial
<1>8. Blocks(new)
  <2>1. \A p \in 1..Len(ms) : Turn(ms[p]) <= i
    <3>1. \A p \in 1..Len(ms) : IsCall(ms[p]) => ms[p].call[1] <= i
      BY DEF Partial, Shape
    <3>2. ASSUME NEW p \in 1..Len(ms), ~IsCall(ms[p]) PROVE ms[p].result[1] <= i
      <4>1. Less(ms[p].result, <<i, j>>)
        BY <3>2 DEF Partial, AnsweredTo
      <4> QED
        BY <1>3, <4>1, LessStrict DEF Less
    <3> QED
      BY <3>1, <3>2 DEF Turn
  <2>2. \A p \in 1..Len(ms) : Turn(ms[p]) \in Nat
    BY <1>3 DEF Turn
  <2>3. Turn(m) = i
    BY <1>2 DEF Turn
  <2>4. ASSUME NEW p \in 1..Len(new), NEW q \in 1..Len(new), p < q PROVE After(new[p], new[q])
    <3>1. p \in 1..Len(ms) /\ new[p] = ms[p]
      BY <1>0, <1>1, <2>4
    <3>2. CASE q \in 1..Len(ms)
      BY <1>1, <2>4, <3>1, <3>2 DEF Partial, Blocks
    <3>3. CASE q = Len(ms) + 1
      BY <1>1, <1>2, <2>1, <2>2, <2>3, <3>1, <3>3 DEF After
    <3> QED
      BY <1>0, <3>2, <3>3
  <2> QED
    BY <2>4 DEF Blocks
<1> QED
  BY <1>4, <1>5, <1>6, <1>7, <1>8 DEF Partial, new, m

(* The calls of a response are appended, all of them without a result.       *)
LEMMA CallsPartial ==
  ASSUME NEW ms \in Seq(Message), NEW i \in Nat, NEW n \in Nat, Full(ms, i)
  PROVE  Partial(ms \o [j \in 1..n |-> [call |-> <<i + 1, j>>, result |-> None]], i + 1, 1, n)
<1> DEFINE add == [j \in 1..n |-> [call |-> <<i + 1, j>>, result |-> None]]
           new == ms \o add
<1>1. add \in Seq(Message) /\ Len(add) = n
  <2>1. \A j \in 1..n : [call |-> <<i + 1, j>>, result |-> None] \in Message
    BY DEF Message, None
  <2> QED
    BY <2>1
<1>2. /\ Len(new) = Len(ms) + n /\ Len(ms) \in Nat
      /\ \A p \in 1..Len(ms) : new[p] = ms[p] /\ ms[p] \in Message
      /\ \A j \in 1..n : new[Len(ms) + j] = add[j]
  <2> HIDE DEF add
  <2> QED
    BY <1>1
<1>3. \A j \in 1..n : IsCall(add[j]) /\ add[j].call = <<i + 1, j>> /\ add[j].call[1] = i + 1 /\ add[j].call[2] = j
  BY DEF IsCall
<1>4. \A p \in 1..Len(ms) : /\ ms[p].call \in Nat \X Nat /\ ms[p].result \in Nat \X Nat
  BY <1>2 DEF Message
<1> HIDE DEF add, new
<1>5. \A p \in 1..Len(new) :
        \/ p \in 1..Len(ms) /\ new[p] = ms[p]
        \/ p - Len(ms) \in 1..n /\ new[p] = add[p - Len(ms)] /\ IsCall(new[p])
              /\ new[p].call[1] = i + 1 /\ new[p].call[2] = p - Len(ms) /\ p > Len(ms)
  <2> SUFFICES ASSUME NEW p \in 1..Len(new), p > Len(ms)
               PROVE  p - Len(ms) \in 1..n /\ new[p] = add[p - Len(ms)]
    BY <1>2, <1>3
  <2>1. p - Len(ms) \in 1..n /\ p = Len(ms) + (p - Len(ms))
    BY <1>2
  <2> QED
    BY <1>2, <2>1
<1>6. Shape(new, i + 1)
  <2>1. ASSUME NEW p \in 1..Len(new)
        PROVE  /\ IsCall(new[p]) => new[p].call[1] \in 1..(i + 1) /\ new[p].call[2] >= 1
               /\ ~IsCall(new[p]) => \E q \in 1..Len(new) : q < p /\ IsCall(new[q]) /\ new[q].call = new[p].result
    <3>1. CASE p \in 1..Len(ms) /\ new[p] = ms[p]
      <4>1. /\ IsCall(ms[p]) => ms[p].call[1] \in 1..i /\ ms[p].call[2] >= 1
            /\ ~IsCall(ms[p]) => \E q \in 1..Len(ms) : q < p /\ IsCall(ms[q]) /\ ms[q].call = ms[p].result
        BY <3>1 DEF Full, Shape
      <4>2. 1..i \subseteq 1..(i + 1) /\ \A q \in 1..Len(ms) : q \in 1..Len(new) /\ new[q] = ms[q]
        BY <1>2
      <4> QED
        BY <3>1, <4>1, <4>2
    <3>2. CASE IsCall(new[p]) /\ new[p].call[1] = i + 1 /\ new[p].call[2] = p - Len(ms) /\ p - Len(ms) \in 1..n
      BY <3>2
    <3> QED
      BY <1>5, <3>1, <3>2
  <2>2. ASSUME NEW p \in 1..Len(new), NEW q \in 1..Len(new), p < q
        PROVE  /\ IsCall(new[p]) /\ IsCall(new[q]) => Less(new[p].call, new[q].call)
               /\ ~IsCall(new[p]) /\ ~IsCall(new[q]) => Less(new[p].result, new[q].result)
    <3>1. CASE p \in 1..Len(ms) /\ q \in 1..Len(ms)
      BY <1>2, <2>2, <3>1 DEF Full, Shape
    <3>2. CASE p \in 1..Len(ms) /\ q > Len(ms)
      <4>1. IsCall(new[q]) /\ new[q].call[1] = i + 1 /\ new[p] = ms[p]
        BY <1>2, <1>5, <3>2
      <4>2. IsCall(ms[p]) => ms[p].call[1] \in 1..i
        BY <3>2 DEF Full, Shape
      <4> QED
        BY <4>1, <4>2 DEF Less
    <3>3. CASE p > Len(ms) /\ q > Len(ms)
      BY <1>2, <1>5, <2>2, <3>3 DEF Less
    <3> QED
      BY <1>2, <2>2, <3>1, <3>2, <3>3
  <2> QED
    BY <2>1, <2>2 DEF Shape
<1>7. AnsweredTo(new, <<i + 1, 1>>)
  <2>1. ASSUME NEW p \in 1..Len(ms), IsCall(ms[p])
        PROVE  \E q \in 1..Len(ms) : p < q /\ ~IsCall(ms[q]) /\ ms[q].result = ms[p].call
    <3>1. ms[p].call[1] \in 1..i
      BY <2>1 DEF Full, Shape
    <3>2. Less(ms[p].call, <<i + 1, 0>>)
      BY <3>1 DEF Less
    <3> QED
      BY <2>1, <3>2 DEF Full, AnsweredTo
  <2>2. ASSUME NEW p \in 1..Len(ms), ~IsCall(ms[p]) PROVE Less(ms[p].result, <<i + 1, 1>>)
    BY <1>4, <2>2 DEF Full, AnsweredTo, Less
  <2>3. ASSUME NEW p \in 1..Len(new), p > Len(ms) PROVE IsCall(new[p]) /\ ~Less(new[p].call, <<i + 1, 1>>)
    BY <1>2, <1>5, <2>3 DEF Less
  <2>4. \A q \in 1..Len(ms) : q \in 1..Len(new) /\ new[q] = ms[q]
    BY <1>2
  <2>5. \A p \in 1..Len(new) : p \in 1..Len(ms) \/ p > Len(ms)
    BY <1>2
  <2> QED
    BY <2>1, <2>2, <2>3, <2>4, <2>5 DEF AnsweredTo
<1>8. \A p \in 1..Len(new) : IsCall(new[p]) /\ new[p].call[1] = i + 1 => new[p].call[2] <= n
  <2>1. \A p \in 1..Len(ms) : IsCall(ms[p]) => ms[p].call[1] \in 1..i
    BY DEF Full, Shape
  <2>2. \A p \in 1..Len(ms) : IsCall(ms[p]) => ms[p].call[1] # i + 1
    BY <2>1
  <2>3. ASSUME NEW p \in 1..Len(new), IsCall(new[p]), new[p].call[1] = i + 1
        PROVE  new[p].call[2] <= n
    <3>1. CASE p \in 1..Len(ms) /\ new[p] = ms[p]
      BY <2>2, <2>3, <3>1
    <3>2. CASE p - Len(ms) \in 1..n /\ new[p].call[2] = p - Len(ms)
      BY <3>2
    <3> QED
      BY <1>5, <3>1, <3>2
  <2> QED
    BY <2>3
<1>9. \A x \in 1..n : \E p \in 1..Len(new) : IsCall(new[p]) /\ new[p].call = <<i + 1, x>>
  <2> SUFFICES ASSUME NEW x \in 1..n PROVE \E p \in 1..Len(new) : IsCall(new[p]) /\ new[p].call = <<i + 1, x>>
    OBVIOUS
  <2>1. Len(ms) + x \in 1..Len(new)
    BY <1>2
  <2>2. IsCall(new[Len(ms) + x]) /\ new[Len(ms) + x].call = <<i + 1, x>>
    BY <1>2, <1>3
  <2> QED
    BY <2>1, <2>2
<1>10. Blocks(new)
  <2>1. \A p \in 1..Len(ms) : Turn(ms[p]) < i + 1
    <3>1. \A p \in 1..Len(ms) : IsCall(ms[p]) => ms[p].call[1] < i + 1
      BY DEF Full, Shape
    <3>2. \A p \in 1..Len(ms) : ~IsCall(ms[p]) => ms[p].result[1] < i + 1
      BY <1>4 DEF Full, AnsweredTo, Less
    <3> QED
      BY <3>1, <3>2 DEF Turn
  <2>2. \A p \in 1..Len(new) : p > Len(ms) => Turn(new[p]) = i + 1 /\ IsCall(new[p])
    BY <1>2, <1>5 DEF Turn
  <2>3. ASSUME NEW p \in 1..Len(new), NEW q \in 1..Len(new), p < q PROVE After(new[p], new[q])
    <3>1. CASE p \in 1..Len(ms) /\ q \in 1..Len(ms)
      BY <1>2, <2>3, <3>1 DEF Full, Blocks
    <3>2. CASE p \in 1..Len(ms) /\ q > Len(ms)
      BY <1>2, <2>1, <2>2, <3>2 DEF After
    <3>3. CASE p > Len(ms) /\ q > Len(ms)
      BY <2>2, <3>3 DEF After
    <3> QED
      BY <1>2, <2>3, <3>1, <3>2, <3>3
  <2> QED
    BY <2>3 DEF Blocks
<1> QED
  BY <1>6, <1>7, <1>8, <1>9, <1>10 DEF Partial, new, add

(* The last call is answered.                                                *)
LEMMA PartialFull ==
  ASSUME NEW ms \in Seq(Message), NEW i \in Nat, NEW j \in Nat, NEW n \in Nat, j > n, Partial(ms, i, j, n)
  PROVE  Full(ms, i)
<1>1. \A p \in 1..Len(ms) : /\ ms[p].call \in Nat \X Nat /\ ms[p].result \in Nat \X Nat
  <2>1. \A p \in 1..Len(ms) : ms[p] \in Message
    OBVIOUS
  <2> QED
    BY <2>1 DEF Message
<1>2. \A p \in 1..Len(ms) : IsCall(ms[p]) => Less(ms[p].call, <<i, j>>)
  BY <1>1 DEF Partial, Shape, Less
<1>3. \A p \in 1..Len(ms) : ~IsCall(ms[p]) => Less(ms[p].result, <<i + 1, 0>>)
  BY <1>1 DEF Partial, AnsweredTo, Less
<1> QED
  BY <1>2, <1>3 DEF Partial, Full, AnsweredTo

(* Steps between iterations: the conversation is as it was, or the attempt   *)
(* is over.                                                                  *)
LEMMA BetweenKeep ==
  ASSUME Typed, NEW f \in Firing, Conversation(f),
         \/ Send(f) \/ buildCompletionsBody(f) \/ CallError(f) \/ NotFound(f) \/ Answer(f) \/ FormatRetry(f)
         \/ Exceeded(f) \/ AppendHistory(f) \/ Deposit(f) \/ Sleep(f)
  PROVE  Conversation(f)'
<1> USE DEF loopVars
<1>0. cost[f][1] \in Nat /\ cost[f][1] + cost[f][2] \in Nat
  BY DEF Typed
<1>1. UNCHANGED <<msgs, iter>>
  BY DEF Send, buildCompletionsBody, CallError, NotFound, Answer, FormatRetry, Exceeded, AppendHistory,
         Deposit, Sleep
<1>2. (pc[f] \in Between /\ pc'[f] \in Between) \/ pc'[f] \in {"sleep", "failed", "start", "deposit", "done"}
  <2> USE DEF Between
  <2>1. CASE Send(f) \/ FormatRetry(f) \/ AppendHistory(f) \/ Sleep(f)
    BY <2>1 DEF Send, FormatRetry, AppendHistory, Sleep, Request, Put, Typed
  <2>2. CASE buildCompletionsBody(f) \/ CallError(f)
    BY <2>2, CallFailedTyped DEF buildCompletionsBody, CallError
  <2>3. CASE NotFound(f)
    BY <2>3, CallFailedTyped DEF NotFound, Put, Typed
  <2>4. CASE Answer(f)
    BY <2>4 DEF Answer, Dispatch, Put, Typed
  <2>5. CASE Exceeded(f)
    BY <1>0, <2>5, FailTyped DEF Exceeded
  <2>6. CASE Deposit(f)
    BY <1>0, <2>6, FailTyped DEF Deposit, Put, Typed
  <2> QED
    BY <2>1, <2>2, <2>3, <2>4, <2>5, <2>6
<1> QED
  BY <1>1, <1>2 DEF Conversation, Between, InLoop

(* A step of the firing keeps its conversation in order.                     *)
LEMMA StepConversation ==
  ASSUME Typed, NEW f \in Firing, Conversation(f), Step(f) \/ ResolveHITL(f)
  PROVE  Conversation(f)'
<1> USE DEF loopVars
<1>0. /\ msgs[f] \in Seq(Message) /\ iter[f] \in Nat /\ k[f] \in Nat \ {0}
      /\ Len(resp[f].calls) \in Nat /\ DOMAIN resp[f].calls = 1..Len(resp[f].calls)
      /\ cost[f][1] \in Nat
  BY DEF Typed, Response
<1>1. ASSUME NEW text, Result(f, text), pc[f] \in InLoop, k[f] <= Len(resp[f].calls), pc'[f] = "tool", resp' = resp
      PROVE  Conversation(f)'
  <2>1. /\ msgs'[f] = Append(msgs[f], [call |-> None, result |-> <<iter[f], k[f]>>])
        /\ k'[f] = k[f] + 1 /\ iter'[f] = iter[f]
    BY <1>1 DEF Result, Id, Put, Typed
  <2>2. Partial(msgs'[f], iter[f], k[f] + 1, Len(resp[f].calls))
    BY <1>0, <1>1, <2>1, ResultPartial DEF Conversation
  <2> QED
    BY <1>1, <2>1, <2>2 DEF Conversation, Between, InLoop
<1>2. ASSUME UNCHANGED <<msgs, iter, k, resp>>, pc[f] \in InLoop, k[f] <= Len(resp[f].calls),
             pc'[f] \in {"wait", "exec", "sleep", "failed"}
      PROVE  Conversation(f)'
  BY <1>2 DEF Conversation, Between, InLoop
<1>3. CASE fireLLM(f)
  <2>1. msgs'[f] = <<>> /\ iter'[f] = 0
    BY <1>3 DEF fireLLM, Put, Typed
  <2>2. pc'[f] \in {"send", "sleep", "failed"}
    BY <1>3, FailTyped DEF fireLLM, Request, Put, Typed
  <2> QED
    BY <2>1, <2>2, EmptyFull DEF Conversation, Between, InLoop
<1>4. CASE Iterate(f)
  <2>1. CASE cancelled
    <3>1. pc'[f] \in {"sleep", "failed"}
      BY <1>0, <1>4, <2>1, FailTyped DEF Iterate
    <3> QED
      BY <3>1 DEF Conversation, Between, InLoop
  <2>2. CASE ~cancelled
    <3> DEFINE n == Len(resp[f].calls)
    <3>1. /\ msgs'[f] = msgs[f] \o [j \in 1..n |-> [call |-> <<iter[f] + 1, j>>, result |-> None]]
          /\ iter'[f] = iter[f] + 1 /\ k'[f] = 1 /\ resp' = resp /\ pc'[f] = "tool"
      <4> DEFINE new == [j \in DOMAIN resp[f].calls |-> [call |-> <<iter[f] + 1, j>>, result |-> None]]
      <4>1. msgs' = [msgs EXCEPT ![f] = msgs[f] \o new]
        BY <1>4, <2>2 DEF Iterate, Put
      <4>2. new = [j \in 1..n |-> [call |-> <<iter[f] + 1, j>>, result |-> None]]
        BY <1>0
      <4>3. msgs'[f] = msgs[f] \o new
        <5> HIDE DEF new
        <5> QED
          BY <4>1 DEF Typed
      <4>4. iter'[f] = iter[f] + 1 /\ k'[f] = 1 /\ resp' = resp /\ pc'[f] = "tool"
        BY <1>4, <2>2 DEF Iterate, Put, Typed
      <4> QED
        BY <4>2, <4>3, <4>4
    <3>2. Full(msgs[f], iter[f])
      BY <1>4 DEF Iterate, Conversation, Between
    <3>3. Partial(msgs'[f], iter[f] + 1, 1, n)
      BY <1>0, <3>1, <3>2, CallsPartial
    <3> QED
      BY <3>1, <3>3 DEF Conversation, Between, InLoop
  <2> QED
    BY <2>1, <2>2
<1>5. CASE ToolCall(f)
  <2>1. pc[f] = "tool" /\ pc[f] \in InLoop /\ k[f] <= Len(resp[f].calls) /\ resp' = resp
    BY <1>5 DEF ToolCall, InLoop
  <2>2. CASE Fail(f, cost[f][1], "transient") /\ UNCHANGED loopVars
    BY <1>0, <1>2, <2>1, <2>2, FailTyped
  <2>3. CASE \E text : Result(f, text) /\ UNCHANGED pc
    BY <1>1, <2>1, <2>3
  <2>4. CASE (\E at \in {"wait", "exec"} : pc' = [pc EXCEPT ![f] = at]) /\ UNCHANGED loopVars
    BY <1>2, <2>1, <2>4 DEF Typed
  <2> QED
    BY <1>5, <2>2, <2>3, <2>4 DEF ToolCall, AskApproval, Put
<1>6. CASE WaitApproval(f)
  <2>1. pc[f] = "wait" /\ pc[f] \in InLoop /\ k[f] <= Len(resp[f].calls) /\ resp' = resp
    BY <1>6 DEF WaitApproval, Conversation, InLoop
  <2>2. CASE Fail(f, cost[f][1], "context") /\ UNCHANGED loopVars
    BY <1>0, <1>2, <2>1, <2>2, FailTyped
  <2>3. CASE pc' = [pc EXCEPT ![f] = "exec"] /\ UNCHANGED loopVars
    BY <1>2, <2>1, <2>3 DEF Typed
  <2>4. CASE pc' = [pc EXCEPT ![f] = "tool"] /\ Result(f, "rejected")
    BY <1>1, <2>1, <2>4 DEF Typed
  <2> QED
    BY <1>6, <2>2, <2>3, <2>4 DEF WaitApproval, TakesAnswer, Put
<1>7. CASE Execute(f)
  <2>1. pc[f] = "exec" /\ pc[f] \in InLoop /\ k[f] <= Len(resp[f].calls) /\ resp' = resp /\ pc'[f] = "tool"
    BY <1>7 DEF Execute, Conversation, InLoop, Put, Typed
  <2> QED
    BY <1>1, <1>7, <2>1 DEF Execute
<1>8. CASE Recall(f)
  <2>1. /\ pc[f] = "tool" /\ k[f] > Len(resp[f].calls) /\ pc'[f] = "send" /\ UNCHANGED <<msgs, iter>>
    BY <1>8 DEF Recall, Request, Put, Typed
  <2>2. Full(msgs[f], iter[f])
    BY <1>0, <2>1, PartialFull DEF Conversation, InLoop
  <2> QED
    BY <2>1, <2>2 DEF Conversation, Between, InLoop
<1>9. CASE ResolveHITL(f)
  BY <1>9 DEF ResolveHITL, Conversation
<1> QED
  BY <1>3, <1>4, <1>5, <1>6, <1>7, <1>8, <1>9, BetweenKeep DEF Step

(* A full conversation is what a provider accepts.                           *)
LEMMA FullAnswers ==
  ASSUME NEW ms \in Seq(Message), NEW i \in Nat, Full(ms, i)
  PROVE  Matched(formatChatMessages(ms))
<1> DEFINE wire == formatChatMessages(ms)
           Of(role) == {j \in DOMAIN wire : wire[j].role = role}
<1>1. DOMAIN wire = 1..Len(ms) /\ Len(ms) \in Nat
  BY DEF formatChatMessages
<1>2. \A p \in 1..Len(ms) : /\ ms[p].call \in Nat \X Nat /\ ms[p].result \in Nat \X Nat
  <2>1. \A p \in 1..Len(ms) : ms[p] \in Message
    OBVIOUS
  <2> QED
    BY <2>1 DEF Message
<1>3. \A j \in 1..Len(ms) :
        /\ IsCall(ms[j]) => wire[j].role = "assistant" /\ wire[j].id = ms[j].call
        /\ ~IsCall(ms[j]) => wire[j].role = "tool" /\ wire[j].id = ms[j].result
  BY <1>1 DEF formatChatMessages, IsCall
<1> HIDE DEF wire
<1>4. /\ \A c \in Of("assistant") : c \in 1..Len(ms) /\ IsCall(ms[c]) /\ wire[c].id = ms[c].call
      /\ \A t \in Of("tool") : t \in 1..Len(ms) /\ ~IsCall(ms[t]) /\ wire[t].id = ms[t].result
      /\ \A j \in 1..Len(ms) : (IsCall(ms[j]) => j \in Of("assistant")) /\ (~IsCall(ms[j]) => j \in Of("tool"))
  BY <1>1, <1>3
<1> HIDE DEF Of
<1>5. ASSUME NEW c \in Of("assistant") PROVE \E t \in Of("tool") : c < t /\ wire[t].id = wire[c].id
  <2>1. Less(ms[c].call, <<i + 1, 0>>)
    BY <1>2, <1>4 DEF Full, Shape, Less
  <2> QED
    BY <1>4, <2>1 DEF Full, AnsweredTo
<1>6. ASSUME NEW t \in Of("tool") PROVE \E c \in Of("assistant") : wire[t].id = wire[c].id
  BY <1>4 DEF Full, Shape
<1>7. ASSUME NEW c \in Of("assistant"), NEW d \in Of("assistant"), NEW t \in Of("tool"), NEW u \in Of("tool"),
             wire[t].id = wire[c].id, wire[u].id = wire[d].id
      PROVE  c < d <=> t < u
  <2>1. /\ ms[t].result = ms[c].call /\ ms[u].result = ms[d].call
        /\ c \in 1..Len(ms) /\ d \in 1..Len(ms) /\ t \in 1..Len(ms) /\ u \in 1..Len(ms)
        /\ IsCall(ms[c]) /\ IsCall(ms[d]) /\ ~IsCall(ms[t]) /\ ~IsCall(ms[u])
    BY <1>4, <1>7
  <2>2. /\ c < d => Less(ms[c].call, ms[d].call)
        /\ d < c => Less(ms[d].call, ms[c].call)
        /\ t < u => Less(ms[t].result, ms[u].result)
        /\ u < t => Less(ms[u].result, ms[t].result)
    BY <2>1 DEF Full, Shape
  <2>3. /\ ms[c].call \in Nat \X Nat /\ ms[d].call \in Nat \X Nat
        /\ ~(Less(ms[c].call, ms[d].call) /\ Less(ms[d].call, ms[c].call))
        /\ ~Less(ms[c].call, ms[c].call)
    BY <1>2, <2>1, LessStrict
  <2> QED
    BY <1>1, <2>1, <2>2, <2>3
<1>8. ASSUME NEW p \in DOMAIN wire, NEW q \in DOMAIN wire, p < q
      PROVE  \/ wire[p].id[1] < wire[q].id[1]
             \/ wire[p].id[1] = wire[q].id[1] /\ (p \in Of("tool") => q \in Of("tool"))
  <2>1. p \in 1..Len(ms) /\ q \in 1..Len(ms) /\ After(ms[p], ms[q])
    BY <1>1, <1>8 DEF Full, Blocks
  <2>2. Turn(ms[p]) = wire[p].id[1] /\ Turn(ms[q]) = wire[q].id[1]
    BY <1>3, <2>1 DEF Turn
  <2>3. p \in Of("tool") => ~IsCall(ms[p])
    BY <1>4
  <2>4. ~IsCall(ms[q]) => q \in Of("tool")
    BY <1>4, <2>1
  <2> QED
    BY <2>1, <2>2, <2>3, <2>4 DEF After
<1> QED
  BY <1>5, <1>6, <1>7, <1>8 DEF wire, Of, Matched

(* CallsAnswered: every request of the tool loop goes out with a result for  *)
(* each tool call, in the order of the calls and response by response, for   *)
(* any number of calls in a response and of iterations.                      *)
THEOREM CallsAnsweredHolds == Spec => []CallsAnswered
<1> DEFINE Ordered == \A f \in Firing : Conversation(f)
<1>1. Init => Ordered
  BY DEF Init, Conversation, Between, InLoop
<1>2. Typed /\ Ordered /\ [Next]_vars => Ordered'
  <2> SUFFICES ASSUME Typed, Ordered, [Next]_vars, NEW g \in Firing' PROVE Conversation(g)'
    OBVIOUS
  <2>1. CASE Cancel \/ Done \/ UNCHANGED vars
    <3>1. UNCHANGED <<conf, pc, resp, msgs, iter, k>>
      BY <2>1, QuietTyped DEF loopVars
    <3> QED
      BY <3>1 DEF Conversation, Firing
  <2>2. ASSUME NEW f \in Firing, Step(f) \/ ResolveHITL(f) PROVE Conversation(g)'
    <3>1. Others(f) /\ g \in Firing
      BY <2>2, StepTyped DEF Others, Firing
    <3>2. CASE g = f
      BY <2>2, <3>1, <3>2, StepConversation
    <3>3. CASE g # f
      BY <3>1, <3>3 DEF Others, Row, Conversation
    <3> QED
      BY <3>2, <3>3
  <2> QED
    BY <2>1, <2>2 DEF Next
<1>3. Typed /\ Ordered => CallsAnswered
  <2> SUFFICES ASSUME Typed, Ordered, NEW f \in Firing, pc[f] = "await"
               PROVE  Matched(formatChatMessages(msgs[f]))
    BY DEF CallsAnswered
  <2>1. msgs[f] \in Seq(Message) /\ iter[f] \in Nat /\ Full(msgs[f], iter[f])
    BY DEF Typed, Conversation, Between
  <2> QED
    BY <2>1, FullAnswers
<1> QED
  BY <1>1, <1>2, <1>3, TypeCorrect, PTL DEF Spec
=============================================================================
