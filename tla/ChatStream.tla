----------------------------- MODULE ChatStream -----------------------------
(***************************************************************************)
(* How a run reaches the screen.  The net emits events; the callback of    *)
(* cmd/server hands them to the SSE broker, which puts them into a bounded *)
(* buffer for each subscribed tab.  SendMessage puts the end of a run into *)
(* another channel, Session.Stream, which all tabs of the session share.   *)
(* The handler of a tab's connection reads both, in no order, and writes   *)
(* to an EventSource, whose messages the reducer of useChat applies to the *)
(* list of bubbles (all of one CPNID, that of the root).  Answers and      *)
(* messages come back as requests; a tab that is (re)loaded gets a         *)
(* snapshot of the session while its stream is already open.               *)
(*                                                                         *)
(* A bubble is the parts it is made of.  A part is a chunk of a text (text *)
(* number a, chunk k) or a whole A2UI card (k = 0).  Events that only feed *)
(* the activity display, heartbeats and event IDs are left out; a tab that *)
(* sees another chat closes its EventSource first and is not modelled.     *)
(* Clients whose screen is not followed appear by what they do to the      *)
(* others: they send, they answer, and they read Session.Stream.           *)
(***************************************************************************)
EXTENDS Naturals, FiniteSets, SequencesExt

CONSTANTS
  Tab,           \* the browser tabs whose screen is followed
  ClientBuffer,  \* DefaultClientBuffer
  StreamBuffer,  \* DefaultStreamBuffer
  MaxActs,       \* bound: messages, answers, lost connections and reloads
  MaxSaid,       \* bound: texts and cards
  MaxChunks      \* bound: chunks of a text

ASSUME ChatStreamAssumption ==
  /\ IsFiniteSet(Tab)
  /\ {ClientBuffer, StreamBuffer} \subseteq Nat \ {0}
  /\ {MaxActs, MaxSaid, MaxChunks} \subseteq Nat

VARIABLES
  run,       \* the run of the root net
  todo,      \* what the goroutine of the run is about to emit
  said,      \* the texts and cards of the session, in the order of emission
  history,   \* rows of Root.History that are not yet in msgs
  msgs,      \* Session.Messages
  inject,    \* the answers in the HITL channel of each transition
  stream,    \* Session.Stream
  events,    \* sseClient.events of each tab
  es,        \* EventSource of each tab: "open" or waiting to reconnect
  load,      \* the GET of each tab: done, asked, or its answer under way
  view,      \* ChatState of each tab
  post,      \* the request of each tab that is under way
  calm,      \* tabs that nothing has come between since they were loaded
  acts

netVars == <<run, todo, said, history, msgs, inject>>
wireVars == <<stream, events, es>>
tabVars == <<load, view, post, calm>>
vars == <<netVars, wireVars, tabVars, acts>>

(* t-clarify, t-review, and for "tool" the LLM transition whose tool call,   *)
(* or whose shell command, needs an approval.                                *)
Asker == {"clarify", "review", "tool"}

(* The surface of t-review is fixed; that of t-clarify is decoded from what  *)
(* the model answered, and may fail.                                         *)
MayFail == {"clarify"}

\* "approve" stands for every answer that is not a refusal.
Answer == {"approve", "reject"}

Part == [a : 1..MaxSaid, k : 0..MaxChunks]
NoPart == [a |-> 0, k |-> 0]

Chunk(part, done) == [e |-> "chunk", part |-> part, done |-> done]
Request(t) == [e |-> "request", t |-> t]
Sentinel == Chunk(NoPart, TRUE)

\* Bubble of a message.
Bubble(role, parts, streaming) ==
  [role |-> role, parts |-> parts, streaming |-> streaming, stamp |-> "", locked |-> FALSE]

IsCard(b) == b.parts # <<>> /\ b.parts[1].k = 0

(* ---- The reducer of useChat ----                                          *)

initialState == [state |-> "idle", bubbles |-> <<>>]

Close(bubbles) == [i \in DOMAIN bubbles |-> [bubbles[i] EXCEPT !.streaming = FALSE]]

\* The first bubble of the assistant that is still streaming, among those.
Streaming(bubbles, card) ==
  SelectInSeq(bubbles, LAMBDA b : b.role = "assistant" /\ b.streaming /\ (card => IsCard(b)))

\* Slip: a chunk after a card is appended to the card.
streamChunk_NoGuard(v, c) ==
  LET bubble == Bubble("assistant", <<c.part>>, ~c.done)
      i == Streaming(v.bubbles, FALSE)
      state == IF c.done THEN "idle" ELSE "running"
  IN CASE c.done /\ c.part = NoPart -> [state |-> "idle", bubbles |-> Close(v.bubbles)]
       [] IsCard(bubble) /\ c.part # NoPart ->
            [state |-> state, bubbles |-> Append(Close(v.bubbles), bubble)]
       [] OTHER ->
            [state |-> state,
             bubbles |-> IF i = 0 THEN Append(v.bubbles, bubble)
                         ELSE [v.bubbles EXCEPT ![i].parts = Append(@, c.part), ![i].streaming = ~c.done]]

(* STREAM_CHUNK: a sentinel closes everything; a card closes everything and  *)
(* opens a bubble; after a card that is still open a text opens one, and     *)
(* otherwise it continues the bubble that is open.                           *)
streamChunk(v, c) ==
  LET bubble == Bubble("assistant", <<c.part>>, ~c.done)
      card == Streaming(v.bubbles, TRUE)
      i == Streaming(v.bubbles, FALSE)
      state == IF c.done THEN "idle" ELSE "running"
  IN CASE c.done /\ c.part = NoPart -> [state |-> "idle", bubbles |-> Close(v.bubbles)]
       [] IsCard(bubble) /\ c.part # NoPart ->
            [state |-> state, bubbles |-> Append(Close(v.bubbles), bubble)]
       [] OTHER ->
            [state |-> state,
             bubbles |-> IF card # 0
                         THEN Append([v.bubbles EXCEPT ![card].streaming = FALSE], bubble)
                         ELSE IF i = 0 THEN Append(v.bubbles, bubble)
                         ELSE [v.bubbles EXCEPT ![i].parts = Append(@, c.part), ![i].streaming = ~c.done]]

(* HITL_REQUESTED with a custom surface: the most recent card without a      *)
(* transition gets this one.                                                 *)
hitlRequested(v, t) ==
  LET i == SelectLastInSeq(v.bubbles, LAMBDA b : b.role = "assistant" /\ IsCard(b) /\ b.stamp = "")
  IN [state |-> "waiting",
      bubbles |-> IF i = 0 THEN v.bubbles ELSE [v.bubbles EXCEPT ![i].stamp = t]]

(* HITL_RESOLVED: a card of the transition is locked, unless it was refused. *)
hitlResolved(v, t, action) ==
  [state |-> "running",
   bubbles |-> [i \in DOMAIN v.bubbles |->
                  IF v.bubbles[i].stamp = t /\ action # "reject"
                  THEN [v.bubbles[i] EXCEPT !.locked = TRUE] ELSE v.bubbles[i]]]

userMessage(v) == [state |-> "running", bubbles |-> Append(v.bubbles, Bubble("user", <<>>, FALSE))]

chatReducer(v, e) == IF e.e = "chunk" THEN streamChunk(v, e) ELSE hitlRequested(v, e.t)

(* ---- The snapshot of a session ----                                       *)

Row(role, a, parent) == [role |-> role, a |-> a, parent |-> parent]

\* A row of a text holds all of its chunks; the row of an empty answer has a = 0.
HasCard(a) == a # 0 /\ said[a].t # ""
PartsOf(a) ==
  IF HasCard(a) THEN <<[a |-> a, k |-> 0]>>
  ELSE [k \in 1..(IF a = 0 THEN 0 ELSE said[a].n) |-> [a |-> a, k |-> k]]

hasPendingA2UISurface(rows) ==
  LET i == SelectLastInSeq(rows, LAMBDA r : r.role = "assistant")
  IN i # 0 /\ HasCard(rows[i].a)

deriveClientSessionState(s, rows) ==
  IF s = "waiting" /\ hasPendingA2UISurface(rows) THEN "hitl_pending"
  ELSE IF s \in {"running", "waiting"} THEN "running" ELSE "idle"

\* SendMessage sets StateRunning and StateIdle, and nobody StateWaiting.
buildSessionInfo ==
  LET s == IF run.pc = "idle" THEN "idle" ELSE "running"
  IN [at |-> "answered", rows |-> msgs, state |-> deriveClientSessionState(s, msgs)]

(* A card with a response row is locked, and so is any other card while the  *)
(* session is not known to wait; the response rows themselves are not shown. *)
enrichWithResolutions(info) ==
  LET shown == SelectSeq(info.rows, LAMBDA r : r.parent = 0)
      Answered(a) == \E i \in DOMAIN info.rows : info.rows[i].parent = a
      Show(r) == IF r.role = "user" THEN Bubble("user", <<>>, FALSE)
                 ELSE [Bubble("assistant", PartsOf(r.a), FALSE) EXCEPT
                         !.locked = HasCard(r.a) /\ (Answered(r.a) \/ info.state # "hitl_pending")]
  IN [i \in DOMAIN shown |-> Show(shown[i])]

sessionLoaded(info) ==
  [state |-> IF info.state = "running" THEN "running" ELSE "idle",
   bubbles |-> enrichWithResolutions(info)]
-----------------------------------------------------------------------------
(* ---- The run ----                                                         *)

\* What a run has to say is limited by the bounds only.
Fits(n) == Len(said) + n <= MaxSaid

NoRun == [pc |-> "idle", on |-> "", row |-> 0, open |-> FALSE, llm |-> FALSE, streamed |-> FALSE]

NoLoad == [at |-> "done", rows |-> <<>>, state |-> ""]

Init ==
  /\ run = NoRun /\ todo = <<>> /\ said = <<>> /\ history = <<>> /\ msgs = <<>>
  /\ inject = [t \in Asker |-> <<>>]
  /\ stream = <<>> /\ events = [b \in Tab |-> <<>>] /\ es = [b \in Tab |-> "open"]
  /\ load = [b \in Tab |-> NoLoad] /\ view = [b \in Tab |-> initialState]
  /\ post = [b \in Tab |-> <<>>] /\ calm = Tab
  /\ acts = 0

Text(n) == [n |-> n, t |-> "", own |-> FALSE]
Card(t, own) == [n |-> 0, t |-> t, own |-> own]
HostCard == Card("tool", TRUE)

\* onChunk of fireLLM: one more chunk of the text that is being streamed.
StreamText ==
  LET a == IF run.open THEN Len(said) ELSE Len(said) + 1
      k == IF run.open THEN said[a].n + 1 ELSE 1
  IN /\ run.pc = "run" /\ todo = <<>> /\ a <= MaxSaid /\ k <= MaxChunks
     /\ said' = IF run.open THEN [said EXCEPT ![a].n = k] ELSE Append(said, Text(1))
     /\ todo' = <<Chunk([a |-> a, k |-> k], FALSE)>>
     /\ run' = [run EXCEPT !.open = TRUE, !.streamed = TRUE]
     /\ UNCHANGED <<history, msgs, inject, wireVars, tabVars, acts>>

\* Slip: the transition returns without the sentinel.
FinishText_NoSentinel ==
  /\ run.pc = "run" /\ todo = <<>> /\ run.open
  /\ history' = Append(history, Row("assistant", Len(said), 0))
  /\ run' = [run EXCEPT !.open = FALSE, !.llm = TRUE, !.pc = "flush"]
  /\ UNCHANGED <<said, todo, msgs, inject, wireVars, tabVars, acts>>

(* The streaming LLM transition returns: its sentinel, its row in History.   *)
(* The row of a response without any text is empty; as a bound, no such      *)
(* response follows directly on another response.                            *)
FinishText ==
  /\ run.pc = "run" /\ todo = <<>> /\ (run.open \/ ~run.llm)
  /\ todo' = <<Sentinel>>
  /\ history' = Append(history, Row("assistant", IF run.open THEN Len(said) ELSE 0, 0))
  /\ run' = [run EXCEPT !.open = FALSE, !.llm = TRUE, !.pc = "flush"]
  /\ UNCHANGED <<said, msgs, inject, wireVars, tabVars, acts>>

\* OnHistoryChanged, after the round.
Flush ==
  /\ run.pc = "flush" /\ todo = <<>>
  /\ msgs' = msgs \o history /\ history' = <<>>
  /\ run' = [run EXCEPT !.pc = "run"]
  /\ UNCHANGED <<said, todo, inject, wireVars, tabVars, acts>>

(* fireHITL with a surface of its own: the card, a sentinel, the request;    *)
(* the card is a row of History.                                             *)
AskSurface(t) ==
  LET a == Len(said) + 1 IN
  /\ run.pc = "run" /\ todo = <<>> /\ ~run.open /\ Fits(1)
  /\ said' = Append(said, Card(t, TRUE))
  /\ todo' = <<Chunk([a |-> a, k |-> 0], FALSE), Sentinel, Request(t)>>
  /\ history' = Append(history, Row("assistant", a, 0))
  /\ run' = [run EXCEPT !.pc = "ask", !.on = t, !.row = a, !.llm = FALSE, !.streamed = TRUE]
  /\ UNCHANGED <<msgs, inject, wireVars, tabVars, acts>>

(* An approval in the middle of an LLM transition: the card is complete in   *)
(* one chunk and is not a row.                                               *)
PublishApproval ==
  LET a == Len(said) + 1 IN
  /\ run.pc = "run" /\ todo = <<>> /\ Fits(1)
  /\ said' = Append(said, HostCard)
  /\ todo' = <<Chunk([a |-> a, k |-> 0], TRUE), Request("tool")>>

\* handleToolCalls, which flushes the rows before it blocks.
AskApproval ==
  /\ PublishApproval
  /\ run' = [run EXCEPT !.pc = "ask", !.on = "tool", !.row = 0, !.open = FALSE, !.llm = FALSE]
  /\ UNCHANGED <<history, msgs, inject, wireVars, tabVars, acts>>

\* The router of the host gate, which does not.
AskHost ==
  /\ PublishApproval
  /\ run' = [run EXCEPT !.pc = "wait", !.on = "tool", !.row = 0, !.open = FALSE, !.llm = FALSE]
  /\ UNCHANGED <<history, msgs, inject, wireVars, tabVars, acts>>

(* The surface could not be built: the callback of cmd/server puts the       *)
(* request first, then a notice, then the review card.                       *)
AskFallback(t) ==
  LET a == Len(said) + 1 IN
  /\ run.pc = "run" /\ todo = <<>> /\ ~run.open /\ Fits(2)
  /\ said' = said \o <<Text(1), Card(t, FALSE)>>
  /\ todo' = <<Request(t), Chunk([a |-> a, k |-> 1], FALSE), Sentinel,
               Chunk([a |-> a + 1, k |-> 0], FALSE), Sentinel>>
  /\ run' = [run EXCEPT !.pc = "ask", !.on = t, !.row = 0, !.llm = FALSE]
  /\ UNCHANGED <<history, msgs, inject, wireVars, tabVars, acts>>

\* OnHITLWaiting flushes the rows; then the firing blocks.
Block ==
  /\ run.pc = "ask" /\ todo = <<>>
  /\ msgs' = msgs \o history /\ history' = <<>>
  /\ run' = [run EXCEPT !.pc = "wait"]
  /\ UNCHANGED <<said, todo, inject, wireVars, tabVars, acts>>

\* The answer to a card that is a row becomes a row that points to it.
appendHITLResponseToHistory(row) ==
  history' = IF row = 0 THEN history ELSE Append(history, Row("user", 0, row))

(* The answer.  Refusing an approval is told to the model; refusing at a     *)
(* HITL transition fails it, and so does an answer that cannot be used.      *)
TakeAnswer ==
  LET t == run.on IN
  /\ run.pc = "wait" /\ todo = <<>> /\ inject[t] # <<>>
  /\ inject' = [inject EXCEPT ![t] = Tail(@)]
  /\ \/ /\ t = "tool" \/ Head(inject[t]) # "reject"
        /\ run' = [run EXCEPT !.pc = "run", !.on = "", !.row = 0]
        /\ appendHITLResponseToHistory(run.row)
     \/ /\ t # "tool" /\ (Head(inject[t]) = "reject" \/ t = "clarify")
        /\ run' = [run EXCEPT !.pc = "fail", !.on = "", !.row = 0]
        /\ UNCHANGED history
  /\ UNCHANGED <<said, todo, msgs, wireVars, tabVars, acts>>

\* The context of a waiting run ends, or a transition fails.
Fail ==
  /\ run.pc \in {"run", "wait"} /\ todo = <<>>
  /\ run' = [run EXCEPT !.pc = "fail", !.on = "", !.row = 0]
  /\ UNCHANGED <<todo, said, history, msgs, inject, wireVars, tabVars, acts>>

\* Sends without blocking; what does not fit is dropped.
Offer(chunks) ==
  LET all == stream \o chunks IN IF Len(all) <= StreamBuffer THEN all ELSE SubSeq(all, 1, StreamBuffer)

(* Tabs for which what goes through Session.Stream may overtake what the     *)
(* broker still has for them, or be dropped.                                 *)
Overtaken(chunks) ==
  IF Len(stream \o chunks) > StreamBuffer THEN Tab ELSE {b \in Tab : events[b] # <<>>}

\* SendMessage's goroutine, when Run failed.
EndFail ==
  /\ run.pc = "fail"
  /\ msgs' = msgs \o history /\ history' = <<>>
  /\ stream' = Offer(<<Sentinel>>)
  /\ calm' = calm \ Overtaken(<<Sentinel>>)
  /\ run' = NoRun
  /\ UNCHANGED <<todo, said, inject, events, es, load, view, post, acts>>

\* Slip: the sentinel is sent in any case.
EndOk_Always ==
  /\ run.pc = "run" /\ todo = <<>> /\ ~run.open /\ run.llm
  /\ msgs' = msgs \o history /\ history' = <<>>
  /\ stream' = Offer(<<Sentinel>>)
  /\ run' = NoRun
  /\ UNCHANGED <<todo, said, inject, events, es, tabVars, acts>>

(* When Run succeeded: a streamed run has said everything; the text of any   *)
(* other goes to the messages and through Session.Stream.  The chat nets end *)
(* with a streaming LLM transition.                                          *)
EndOk ==
  LET a == Len(said) + 1
      last == <<Chunk([a |-> a, k |-> 1], FALSE), Sentinel>>
  IN /\ run.pc = "run" /\ todo = <<>> /\ ~run.open /\ run.llm
     /\ run' = NoRun /\ history' = <<>>
     /\ \/ /\ run.streamed
           /\ msgs' = msgs \o history
           /\ UNCHANGED <<said, stream, calm>>
        \/ /\ ~run.streamed /\ Fits(1)
           /\ said' = Append(said, Text(1))
           /\ msgs' = Append(msgs \o history, Row("assistant", a, 0))
           /\ stream' = Offer(last)
           /\ calm' = calm \ Overtaken(last)
     /\ UNCHANGED <<todo, inject, events, es, load, view, post, acts>>
-----------------------------------------------------------------------------
(* ---- Broker, handler, EventSource ----                                    *)

\* Publish: a subscribed tab whose buffer is full does not get the event.
Publish ==
  LET full == {b \in Tab : Len(events[b]) = ClientBuffer} IN
  /\ todo # <<>>
  /\ todo' = Tail(todo)
  /\ events' = [b \in Tab |-> IF es[b] = "open" /\ b \notin full THEN Append(events[b], Head(todo))
                              ELSE events[b]]
  /\ calm' = calm \ full
  /\ UNCHANGED <<run, said, history, msgs, inject, stream, es, load, view, post, acts>>

\* The loop of HandleSSEStream takes an event of the broker ...
HandleEvent(b) ==
  /\ es[b] = "open" /\ events[b] # <<>>
  /\ events' = [events EXCEPT ![b] = Tail(@)]
  /\ view' = [view EXCEPT ![b] = chatReducer(@, Head(events[b]))]
  /\ UNCHANGED <<netVars, stream, es, load, post, calm, acts>>

\* ... or one of Session.Stream, which no other tab gets then.
HandleStream(b) ==
  /\ es[b] = "open" /\ stream # <<>>
  /\ stream' = Tail(stream)
  /\ view' = [view EXCEPT ![b] = chatReducer(@, Head(stream))]
  /\ calm' = calm \ (Tab \ {b})
  /\ UNCHANGED <<netVars, events, es, load, post, acts>>

(* The connection is lost: cleanup unsubscribes the tab.  A write that       *)
(* failed has taken its chunk from Session.Stream.                           *)
Disconnect(b) ==
  /\ es[b] = "open" /\ acts < MaxActs
  /\ acts' = acts + 1
  /\ es' = [es EXCEPT ![b] = "retry"] /\ events' = [events EXCEPT ![b] = <<>>]
  /\ \/ UNCHANGED stream /\ calm' = calm \ {b}
     \/ stream # <<>> /\ stream' = Tail(stream) /\ calm' = {}
  /\ UNCHANGED <<netVars, load, view, post>>

\* connect, after the backoff: nothing is sent again, nothing is loaded.
Subscribe(b) ==
  /\ es[b] = "retry"
  /\ es' = [es EXCEPT ![b] = "open"]
  /\ UNCHANGED <<netVars, stream, events, tabVars, acts>>

\* The page is loaded anew: RESET, the GET, a new EventSource.
Reload(b) ==
  /\ acts < MaxActs
  /\ acts' = acts + 1
  /\ es' = [es EXCEPT ![b] = "retry"] /\ events' = [events EXCEPT ![b] = <<>>]
  /\ view' = [view EXCEPT ![b] = initialState]
  /\ load' = [load EXCEPT ![b].at = "asked"] /\ post' = [post EXCEPT ![b] = <<>>]
  /\ calm' = calm \ {b}
  /\ UNCHANGED <<netVars, stream>>

HandleGetSession(b) ==
  /\ load[b].at = "asked"
  /\ load' = [load EXCEPT ![b] = buildSessionInfo]
  /\ UNCHANGED <<netVars, wireVars, view, post, calm, acts>>

\* The snapshot replaces what the stream has shown meanwhile.
Loaded(b) ==
  /\ load[b].at = "answered"
  /\ view' = [view EXCEPT ![b] = sessionLoaded(load[b])]
  /\ load' = [load EXCEPT ![b] = NoLoad]
  /\ UNCHANGED <<netVars, wireVars, post, calm, acts>>
-----------------------------------------------------------------------------
(* ---- The user ----                                                        *)

\* The composer is open unless the view is running or waiting.
sendMessage(b) ==
  /\ post[b] = <<>> /\ view[b].state = "idle" /\ acts < MaxActs
  /\ acts' = acts + 1
  /\ view' = [view EXCEPT ![b] = userMessage(@)]
  /\ post' = [post EXCEPT ![b] = <<"message">>]
  /\ UNCHANGED <<netVars, wireVars, load, calm>>

(* A click on a card that is not locked.  Its buttons name the transition    *)
(* that published it; what is locked depends on the stamp.                   *)
handleResolveHITL(b) ==
  /\ post[b] = <<>> /\ acts < MaxActs
  /\ acts' = acts + 1
  /\ \E i \in DOMAIN view[b].bubbles, action \in Answer :
       LET card == view[b].bubbles[i]
           t == said[card.parts[1].a].t
       IN /\ IsCard(card) /\ ~card.locked
          /\ view' = [view EXCEPT ![b] = hitlResolved(@, t, action)]
          /\ post' = [post EXCEPT ![b] = <<t, action>>]
  /\ UNCHANGED <<netVars, wireVars, load, calm>>

\* The request is refused: only an error banner is shown.  HITL_ORPHANED, which
\* would lock the card, answers ErrNoHITLWaiting, and that cannot be: a session
\* registers the channels of its gates and never unregisters one.
Refused(b) ==
  /\ calm' = calm \ {b}
  /\ UNCHANGED <<netVars>>

\* SendMessage, when no run is going on.
Begin ==
  /\ run.pc = "idle"
  /\ run' = [NoRun EXCEPT !.pc = "run"]
  /\ msgs' = Append(msgs, Row("user", 0, 0))
  /\ calm' = IF stream = <<>> THEN calm ELSE {}
  /\ UNCHANGED <<todo, said, history, inject>>

\* ResolveHITL, which waits while the channel is full.
Inject(t, action) ==
  /\ run.pc # "idle" /\ inject[t] = <<>>
  /\ inject' = [inject EXCEPT ![t] = <<action>>]
  /\ UNCHANGED <<run, todo, said, history, msgs, calm>>

\* Busy, or a run begins.
HandleSendMessage(b) ==
  /\ post[b] = <<"message">>
  /\ post' = [post EXCEPT ![b] = <<>>]
  /\ \/ run.pc # "idle" /\ Refused(b)
     \/ Begin
  /\ UNCHANGED <<wireVars, load, view, acts>>

\* Refused without a run.
HandleResolveHITL(b) ==
  /\ Len(post[b]) = 2
  /\ post' = [post EXCEPT ![b] = <<>>]
  /\ \/ run.pc = "idle" /\ Refused(b)
     \/ Inject(post[b][1], post[b][2])
  /\ UNCHANGED <<wireVars, load, view, acts>>

\* Another client sends, answers, or is the one that gets a chunk.
OtherSends ==
  /\ acts < MaxActs /\ acts' = acts + 1
  /\ Begin
  /\ UNCHANGED <<wireVars, load, view, post>>

OtherAnswers ==
  /\ acts < MaxActs /\ acts' = acts + 1
  /\ \E a \in DOMAIN said, action \in Answer :
       said[a].t # "" /\ Inject(said[a].t, action)
  /\ UNCHANGED <<wireVars, load, view, post>>

OtherReads ==
  /\ stream # <<>>
  /\ stream' = Tail(stream) /\ calm' = {}
  /\ UNCHANGED <<netVars, events, es, load, view, post, acts>>
-----------------------------------------------------------------------------
RunStep ==
  StreamText \/ FinishText \/ Flush \/ (\E t \in {"clarify", "review"} : AskSurface(t)) \/ AskApproval
    \/ AskHost \/ (\E t \in MayFail : AskFallback(t)) \/ Block \/ TakeAnswer \/ Fail \/ EndFail \/ EndOk

TabStep(b) ==
  HandleEvent(b) \/ HandleStream(b) \/ Disconnect(b) \/ Subscribe(b) \/ Reload(b)
    \/ HandleGetSession(b) \/ Loaded(b) \/ sendMessage(b) \/ handleResolveHITL(b)
    \/ HandleSendMessage(b) \/ HandleResolveHITL(b)

Others == OtherSends \/ OtherAnswers \/ OtherReads

Next == RunStep \/ Publish \/ Others \/ \E b \in Tab : TabStep(b)

Spec == Init /\ [][Next]_vars

(* The server emits and answers, the connection delivers; nobody has to type,*)
(* no model has to answer.                                                   *)
Fairness ==
  /\ WF_vars(Publish) /\ WF_vars(EndFail)
  /\ \A b \in Tab :
       /\ WF_vars(HandleEvent(b)) /\ WF_vars(HandleStream(b))
       /\ WF_vars(HandleSendMessage(b)) /\ WF_vars(HandleResolveHITL(b))

FairSpec == Spec /\ Fairness
-----------------------------------------------------------------------------
(* "two $$a2ui: chunks would concatenate into one streaming assistant        *)
(* message, breaking JSON.parse": whatever is dropped, lost, reloaded or     *)
(* overtaken, a card has a bubble of its own.                                *)
CardsIntact ==
  \A b \in Tab : \A i \in DOMAIN view[b].bubbles :
    LET parts == view[b].bubbles[i].parts IN
    (\E k \in DOMAIN parts : parts[k].k = 0) => Len(parts) = 1

Quiet(b) == todo = <<>> /\ events[b] = <<>> /\ stream = <<>>

(* A tab between which and the run nothing has come shows what was said: one *)
(* bubble for each text and each card, whole and in order; every card that a *)
(* transition published itself carries that transition, so that an answer    *)
(* locks it; and after the run nothing is left streaming.                    *)
ShowsWhatWasSaid ==
  \A b \in calm : Quiet(b) =>
    LET shown == SelectSeq(view[b].bubbles, LAMBDA m : m.role = "assistant") IN
    /\ [i \in DOMAIN shown |-> shown[i].parts] = [a \in DOMAIN said |-> PartsOf(a)]
    /\ \A a \in DOMAIN said : said[a].own => shown[a].stamp = said[a].t
    /\ run.pc = "idle" => \A i \in DOMAIN shown : ~shown[i].streaming

(* Such a tab does not show a spinner for ever once the run is over.         *)
SpinnerStops ==
  \A b \in Tab :
    (b \in calm /\ run.pc = "idle")
      ~> (b \notin calm \/ run.pc # "idle" \/ view[b].state # "running")
=============================================================================
