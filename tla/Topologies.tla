----------------------------- MODULE Topologies -----------------------------
(***************************************************************************)
(* The nets the server builds: the chat topologies of cmd/server, the      *)
(* tool forge, the manage-models flow, host discovery, the awakening and   *)
(* the probe fan-out it composes.  Each net is a table of places with      *)
(* their colours and of transitions in ID order; one transition is one     *)
(* definition with its arcs and, further down, what its handler returns.   *)
(*                                                                         *)
(* The nets run under the executor's discipline (see CPNExecutor for its   *)
(* goroutines): collect what is firable, consume in ID order, let the      *)
(* firings finish in any order, judge.  None of these nets has an          *)
(* ErrorPlace or a RetryPolicy, and the only transitions with an output in *)
(* the computation space of a net a human can enter are HITL transitions,  *)
(* so the switch to Centaurian mode enables and disables nothing here.     *)
(*                                                                         *)
(* An answer of a model, of a shell or of a human is a value that tells    *)
(* apart what guards and handlers tell apart, and nothing more.            *)
(***************************************************************************)
EXTENDS Naturals, FiniteSets, SequencesExt, TLC

CONSTANTS Nets,        \* which nets of the library are run
          MaxRounds,   \* CLARIFY_MAX_ROUNDS
          Probes,      \* names that the scan of $PATH turns up
          Plan,        \* probe IDs of the plan the model writes
          Mandatory,   \* IDs of mandatoryInfoProbes
          MaxProbes,   \* the cap of ValidatePlan
          MaxTurns     \* bound: messages sent to one net

VARIABLES net,       \* the net under execution
          host,      \* where host capabilities come from (SeedsHost)
          marking,   \* tokens of every place, oldest first
          job,       \* what a firing transition has consumed, or Idle
          pc,        \* "start", "collect", "wait" or "ended"
          verdict,   \* "running", "completed", "failed" or "deadlock"
          broken,    \* transitions whose firing failed in this round
          cancelled, \* has the context of the run been cancelled?
          turn,      \* messages sent so far
          asked      \* questionnaires since the run, or the topic, began

vars == <<net, host, marking, job, pc, verdict, broken, cancelled, turn, asked>>

Idle == <<>>

(***************************************************************************)
(* Kinds of transitions.  gives is what the outside may answer; an LLM     *)
(* deposits JSON when RequireJSON is set and an artefact otherwise, into   *)
(* every output place.                                                     *)
(***************************************************************************)
Arcs(id, kind, in, out, color, gives) ==
    [id |-> id, kind |-> kind, in |-> in, out |-> out, color |-> color, gives |-> gives]

LLM(id, in, out, requireJSON, gives) ==
    Arcs(id, "llm", in, out, IF requireJSON THEN "json" ELSE "artifact", gives)
Bash(id, in, out)  == Arcs(id, "bash", in, out, "shell", {"stdout"})
Tool(id, in, out)  == Arcs(id, "tool", in, out, "", {})
HITL(id, in, out)  == Arcs(id, "hitl", in, out, "human", {})

Text == {"text"}

(***************************************************************************)
(* The chat topologies.                                                    *)
(***************************************************************************)

\* What t-classify answers: unparseable, no task, or a task that the
\* classifier finds incomplete or is not sure about.
Classification ==
    {c \in [parsed : BOOLEAN, task : BOOLEAN, needs : BOOLEAN, sure : BOOLEAN] :
        /\ ~c.parsed => c = [parsed |-> FALSE, task |-> FALSE, needs |-> FALSE, sure |-> TRUE]
        /\ ~c.task => ~c.needs /\ c.sure}

\* What t-reassess answers.
Reassessment ==
    {r \in [parsed : BOOLEAN, decision : {"again", "proceed", "choice", "none"},
            ambiguous : BOOLEAN, contradiction : BOOLEAN, shift : BOOLEAN,
            next : BOOLEAN] :
        ~r.parsed => /\ r.decision = "none"
                     /\ ~(r.ambiguous \/ r.contradiction \/ r.shift \/ r.next)}

tLLM == LLM("t_llm", <<"p_input">>, <<"p_output">>, FALSE, Text)

defaultTopology ==
    [places |-> [p_input |-> "string", p_output |-> "artifact"],
     trans  |-> <<tLLM>>]

tPlan == LLM("t_plan", <<"p_input">>, <<"p_plan">>, FALSE, Text)

tReview == HITL("t_review", <<"p_plan">>, <<"p_reviewed">>)

tExecute == LLM("t_execute", <<"p_reviewed">>, <<"p_output">>, FALSE, Text)

hitlTopology ==
    [places |-> [p_input |-> "string", p_plan |-> "artifact",
                 p_reviewed |-> "human", p_output |-> "artifact"],
     trans  |-> <<tExecute, tPlan, tReview>>]

tClassify == LLM("t_classify", <<"p_input">>, <<"p_classified">>, TRUE, Classification)

tDirect == LLM("t_direct", <<"p_classified">>, <<"p_output">>, FALSE, Text)

tPlanDirect == LLM("t_plan_direct", <<"p_classified">>, <<"p_plan">>, FALSE, Text)

tPlanClarified == LLM("t_plan_clarified", <<"p_planner_input">>, <<"p_plan">>, FALSE, Text)

\* The questionnaire may come back as prose even after the format retry.
tAsk == LLM("t_ask", <<"p_classified">>, <<"p_questions">>, TRUE, {"questions", "prose"})

tClarify == HITL("t_clarify", <<"p_questions">>, <<"p_clarified">>)

tReassess == LLM("t_reassess", <<"p_clarified">>, <<"p_reassessed">>, TRUE, Reassessment)

tFollowup ==
    Tool("t_followup", <<"p_reassessed", "p_round">>, <<"p_questions", "p_round">>)

tPreplanner == Tool("t_preplanner", <<"p_reassessed", "p_round">>, <<"p_planner_input">>)

\* bash_exec, file_read and file_write have no arcs and never fire by
\* themselves; fireLLM calls them.
systemTools == <<Tool("bash_exec", <<>>, <<>>), Tool("file_read", <<>>, <<>>),
                 Tool("file_write", <<>>, <<>>)>>

unifiedTopology ==
    [places |-> [p_input |-> "string", p_classified |-> "json", p_questions |-> "json",
                 p_clarified |-> "string", p_host_capabilities |-> "fact",
                 p_round |-> "json", p_reassessed |-> "json",
                 p_planner_input |-> "string", p_plan |-> "artifact",
                 p_reviewed |-> "human", p_output |-> "artifact"],
     trans  |-> systemTools \o
                <<tAsk, tClarify, tClassify, tDirect, tExecute, tFollowup,
                  tPlanClarified, tPlanDirect, tPreplanner, tReassess, tReview>>]

guardDirectConversation(c) == ~c.parsed \/ ~c.task

guardPlanTaskDirect(c) == c.parsed /\ c.task /\ ~c.needs /\ c.sure

\* Slip: a classifier that is not sure of itself is not asked about.
guardNeedsClarification_Sure(c) == c.parsed /\ c.task /\ c.needs

guardNeedsClarification(c) == c.parsed /\ c.task /\ (c.needs \/ ~c.sure)

parseReassessResult(r) == r.parsed

\* Another round: there is room for one, the model did not ask to proceed,
\* this is not the second contradiction, and something is left to ask.
guardResidualAmbiguous(r, n) ==
    /\ parseReassessResult(r)
    /\ n + 1 < MaxRounds
    /\ r.decision # "proceed"
    /\ ~(r.contradiction /\ n >= 1)
    /\ r.decision = "choice" \/ r.ambiguous

guardResidualResolved(r, n) == ~guardResidualAmbiguous(r, n)

(***************************************************************************)
(* The tool forge.                                                         *)
(***************************************************************************)
tProbeCompiler ==
    Tool("t_probe_compiler", <<"p_forge_request">>, <<"p_compiler_choice", "p_forge_request">>)

tDesignSpec ==
    LLM("t_design_spec", <<"p_forge_request", "p_compiler_choice">>, <<"p_spec">>, TRUE, Text)

tEmitSource == LLM("t_emit_source", <<"p_spec">>, <<"p_source">>, TRUE, Text)

tWriteSource == Bash("t_write_source", <<"p_source">>, <<"p_source_written">>)

tCompile == Bash("t_compile", <<"p_source_written">>, <<"p_compiled_binary">>)

tSmokeTest == Bash("t_smoke_test", <<"p_compiled_binary">>, <<"p_smoke_ok">>)

tWriteHelpText == LLM("t_write_helptext", <<"p_spec">>, <<"p_help_text">>, FALSE, Text)

tWriteManPage == LLM("t_write_manpage", <<"p_spec">>, <<"p_man_page">>, FALSE, Text)

tBuildManifest ==
    Tool("t_build_manifest", <<"p_smoke_ok", "p_help_text", "p_man_page">>, <<"p_manifest">>)

tRegister == Tool("t_register", <<"p_manifest">>, <<"p_registered">>)

BuildToolForgeTopology ==
    [places |-> [p_forge_request |-> "json", p_compiler_choice |-> "json", p_spec |-> "json",
                 p_source |-> "json", p_source_written |-> "json",
                 p_compiled_binary |-> "json", p_help_text |-> "string",
                 p_man_page |-> "string", p_smoke_ok |-> "json",
                 p_manifest |-> "manifest", p_registered |-> "artifact",
                 p_forge_errors |-> "error"],
     trans  |-> <<tBuildManifest, tCompile, tDesignSpec, tEmitSource, tProbeCompiler,
                  tRegister, tSmokeTest, tWriteHelpText, tWriteManPage, tWriteSource>>]

(***************************************************************************)
(* The manage-models flow.                                                 *)
(***************************************************************************)
ManageKinds == <<"delete", "review-license", "list", "register", "set-default", "toggle">>

tClassifyMgmt == Tool("t_classify_mgmt", <<"P_MgmtEnter">>, <<"P_MgmtIntent", "P_MgmtExit">>)

newManageHITL(kind) == HITL("t_emit_" \o kind, <<"P_MgmtIntent">>, <<"P_SurfaceEmitted">>)

tRecvResponse == Tool("t_recv_response", <<"P_SurfaceEmitted">>, <<"P_HITLResponse">>)

tValidate == Tool("t_validate", <<"P_HITLResponse">>, <<"P_RegistryMutation", "P_MgmtExit">>)

tEmitConfirm == HITL("t_emit_confirm", <<"P_RegistryMutation">>, <<"P_Confirmed">>)

tApply == Tool("t_apply", <<"P_Confirmed">>, <<"P_PersistedOK">>)

tLockReplay == Tool("t_lock_replay", <<"P_PersistedOK">>, <<"P_ReplayEmitted">>)

tSummarize == Tool("t_summarize", <<"P_ReplayEmitted">>, <<"P_MgmtExit">>)

manageModelsTopology ==
    [places |-> [P_MgmtEnter |-> "string", P_MgmtIntent |-> "json",
                 P_SurfaceEmitted |-> "human", P_HITLResponse |-> "json",
                 P_RegistryMutation |-> "json", P_Confirmed |-> "human",
                 P_PersistedOK |-> "json", P_ReplayEmitted |-> "json",
                 P_MgmtExit |-> "artifact"],
     trans  |-> <<tApply, tClassifyMgmt, tEmitConfirm>>
                \o [i \in DOMAIN ManageKinds |-> newManageHITL(ManageKinds[i])]
                \o <<tLockReplay, tRecvResponse, tSummarize, tValidate>>]

\* An entry without a kind, or one that does not parse, means "list".
guardManageKind(kind, entry) == entry.kind = kind \/ (entry.kind = "" /\ kind = "list")

(***************************************************************************)
(* Host discovery: every shell probe consumes one token of the trigger.    *)
(***************************************************************************)
PlaceHostProbeRaw(name) == "p_probe_" \o name \o "_raw"

tWho == Bash("t_who", <<"p_trigger">>, <<"p_identity_raw">>)

tUname == Bash("t_uname", <<"p_trigger">>, <<"p_kernel_raw">>)

hostProbe(name) == Bash("t_probe_" \o name, <<"p_trigger">>, <<PlaceHostProbeRaw(name)>>)

newParseIdentityTransition == Tool("t_parse_identity", <<"p_identity_raw">>, <<"p_identity">>)

newParseKernelTransition == Tool("t_parse_kernel", <<"p_kernel_raw">>, <<"p_kernel">>)

newParseBinariesTransition ==
    Tool("t_parse_binaries", [i \in DOMAIN Probes |-> PlaceHostProbeRaw(Probes[i])],
         <<"p_binaries">>)

newDeriveTransition ==
    Tool("t_derive", <<"p_identity", "p_kernel", "p_binaries">>, <<"p_capabilities">>)

newPersistTransition == Tool("t_persist", <<"p_capabilities">>, <<"p_snapshot">>)

Raw(names) == [p \in {PlaceHostProbeRaw(names[i]) : i \in DOMAIN names} |-> "shell"]

hostDiscoveryTopology ==
    [places |-> [p_trigger |-> "string", p_identity_raw |-> "shell", p_kernel_raw |-> "shell",
                 p_identity |-> "fact", p_kernel |-> "fact", p_binaries |-> "fact",
                 p_capabilities |-> "fact", p_snapshot |-> "fact"] @@ Raw(Probes),
     trans  |-> <<newDeriveTransition, newParseBinariesTransition,
                  newParseIdentityTransition, newParseKernelTransition,
                  newPersistTransition>>
                \o [i \in DOMAIN Probes |-> hostProbe(Probes[i])] \o <<tUname, tWho>>]

(***************************************************************************)
(* The awakening, and the fan-out of probes its compose step builds.       *)
(***************************************************************************)
newLLMBootstrapTransition ==
    LLM("t_awaken_bootstrap", <<"p_awaken_trigger", "p_awaken_prompt">>,
        <<"p_awaken_plan">>, TRUE, {"plan", "malformed"})

newProbeComposeTransition == Tool("t_probe_compose", <<"p_awaken_plan">>, <<"p_subnet_spec">>)

newProbeInstantiateTransition ==
    Tool("t_probe_instantiate", <<"p_subnet_spec">>, <<"p_report">>)

newReportTransition ==
    Tool("t_report", <<"p_report">>, <<"p_report_snapshot", "p_tool_batch", "p_message">>)

newAwakenPersistTransition ==
    Tool("t_awaken_persist", <<"p_report_snapshot">>, <<"p_host_capabilities">>)

newRegisterToolsTransition ==
    Tool("t_register_tools", <<"p_tool_batch">>, <<"p_tool_batch_done">>)

newEmitMessageTransition ==
    Tool("t_emit_message", <<"p_message">>, <<"p_message_emitted">>)

awakensTopology ==
    [places |-> [p_awaken_trigger |-> "string", p_awaken_prompt |-> "string",
                 p_awaken_plan |-> "json", p_subnet_spec |-> "artifact",
                 p_report |-> "artifact", p_host_capabilities |-> "fact",
                 p_report_snapshot |-> "fact", p_message |-> "event",
                 p_tool_batch |-> "artifact", p_tool_batch_done |-> "event",
                 p_message_emitted |-> "event"],
     trans  |-> <<newLLMBootstrapTransition, newAwakenPersistTransition,
                  newEmitMessageTransition, newProbeComposeTransition,
                  newProbeInstantiateTransition, newRegisterToolsTransition,
                  newReportTransition>>]

ValidatePlan(plan) == plan # <<>> /\ Len(plan) <= MaxProbes

withMandatoryInfoProbes(plan) ==
    LET missing == SelectSeq(Mandatory, LAMBDA id : id \notin Range(plan))
        room == IF Len(plan) < MaxProbes THEN MaxProbes - Len(plan) ELSE 0
    IN plan \o SubSeq(missing, 1, IF Len(missing) < room THEN Len(missing) ELSE room)

\* A repeated ID gets its index as a suffix.
normalised(plan) ==
    FoldLeft(LAMBDA ids, id :
                Append(ids, IF id \in Range(ids) THEN id \o "-" \o ToString(Len(ids) + 1) ELSE id),
             <<>>, plan)

FanoutIDs == normalised(withMandatoryInfoProbes(Plan))

probeTransition(id) == Tool("t_probe_" \o id, <<"p_trigger">>, <<"p_result_" \o id>>)

reducer ==
    Tool("t_reduce", [i \in DOMAIN FanoutIDs |-> "p_result_" \o FanoutIDs[i]],
         <<"p_report", "p_egress">>)

Compose ==
    [places |-> [p_trigger |-> "string", p_plan |-> "artifact", p_report |-> "artifact",
                 p_egress |-> "artifact"]
                @@ [p \in Range(reducer.in) |-> "artifact"],
     trans  |-> [i \in DOMAIN FanoutIDs |-> probeTransition(FanoutIDs[i])] \o <<reducer>>]
-----------------------------------------------------------------------------
(***************************************************************************)
(* What a firing hands to its output places: a sequence of deposits in the *)
(* order of those places.  A sequence that is too short is an error of the *)
(* handler; the deposits before it have happened all the same.             *)
(***************************************************************************)
Tok(color, value) == [c |-> color, v |-> value]
Fails == <<>>

Broadcast(t, value) == [i \in DOMAIN t.out |-> Tok(t.color, value)]

\* A question on the screen, answered: buildClarifiedToken wants submit or
\* approve, a questionnaire it can decode (an escape-hatch seed decodes as
\* one without questions) and answers it can decode.
firstQuestionnaireFromTokens(question) == question # "prose"

buildClarifiedToken(question) ==
    IF firstQuestionnaireFromTokens(question)
    THEN {Fails, <<Tok("string", "answers")>>} ELSE {Fails}

\* fireHITL without an OutputBuilder passes on every answer but a rejection.
Respond(t, question) ==
    IF t.id = "t_clarify" THEN buildClarifiedToken(question)
    ELSE {Fails} \cup {<<Tok("human", a)>> : a \in {"approve", "submit", "revise"}}

\* Slip: an escape hatch is taken off the round budget, a round is not.
buildFollowupDeposits_FreeRound(r, n) ==
    IF r.decision # "choice" /\ ~r.next THEN Fails
    ELSE <<Tok("json", IF r.decision = "choice" THEN "escape" ELSE "questions"),
           Tok("json", IF r.shift THEN 0 ELSE IF r.decision = "choice" THEN n + 1 ELSE n)>>

buildFollowupDeposits(r, n) ==
    IF r.decision # "choice" /\ ~r.next THEN Fails
    ELSE <<Tok("json", IF r.decision = "choice" THEN "escape" ELSE "questions"),
           Tok("json", IF r.shift THEN 0 ELSE IF r.decision = "choice" THEN n ELSE n + 1)>>

buildPlannerPreamble(r, n) ==
    CASE ~r.parsed -> "unparsed"
      [] r.parsed /\ r.decision = "again" /\ n + 1 >= MaxRounds -> "exhausted"
      [] r.parsed /\ r.decision = "proceed" /\ r.contradiction -> "chose"
      [] OTHER -> "converged"

\* t-followup never meets an unparsed reassessment: its guard refuses one.
Clarification(t, c) ==
    CASE t.id = "t_followup" -> {buildFollowupDeposits(c[1], c[2])}
      [] t.id = "t_preplanner" -> {<<Tok("string", buildPlannerPreamble(c[1], c[2]))>>}

buildProbeCompilerHandler(c) == {<<Tok("json", "choice"), Tok("json", c[1])>>}

buildManifestHandler == {<<Tok("manifest", "manifest")>>}

Forge(t, c) ==
    CASE t.id = "t_probe_compiler" -> buildProbeCompilerHandler(c)
      [] t.id = "t_build_manifest" -> buildManifestHandler
      [] t.id = "t_register" -> {Fails, <<Tok("artifact", "entry")>>}

\* Both branches of t-classify-mgmt and of t-validate name one of the two
\* output places only.
Manage(t, c) ==
    CASE t.id = "t_classify_mgmt" -> {IF c[1].admin THEN <<Tok("json", c[1])>> ELSE Fails}
      [] t.id = "t_recv_response" -> {<<Tok("json", c[1])>>}
      [] t.id = "t_validate"      -> {Fails, <<Tok("json", "mutation")>>}
      [] t.id = "t_summarize"     -> {<<Tok("artifact", "summary")>>}
      [] t.id \in {"t_apply", "t_lock_replay"} -> {<<Tok("json", "result")>>}

\* The parsers of shell output are total: they fill in what they find.
parseIdentityFromShell == Tok("fact", "identity")
parseKernelFromShell == Tok("fact", "kernel")
parseBinaryProbeFromShell == Tok("fact", "binaries")
DeriveCapabilities == Tok("fact", "capabilities")

Discovery(t) ==
    CASE t.id = "t_parse_identity" -> {<<parseIdentityFromShell>>}
      [] t.id = "t_parse_kernel"   -> {<<parseKernelFromShell>>}
      [] t.id = "t_parse_binaries" -> {<<parseBinaryProbeFromShell>>}
      [] t.id = "t_derive"         -> {<<DeriveCapabilities>>}
      [] t.id = "t_persist"        -> {Fails, <<Tok("fact", "snapshot")>>}

planFromPayload(v) == v = "plan"

\* A payload that is no report, or one that does not validate, is refused.
coerceReport(v) == v = "report"

Project == Tok("fact", "snapshot")

\* The registry refuses a tool for another reason than that it knows it.
RegisterBatch == {Fails, <<Tok("event", "tools")>>}

BuildFirstTurnMessage == Tok("event", "envelope")

\* A child that is cancelled, or a report that does not validate, fails
\* t-probe-instantiate; the fan-out's probes themselves never fail.
Awakens(t, c) ==
    CASE t.id = "t_probe_compose" ->
           {IF planFromPayload(c[1]) /\ ValidatePlan(Plan) THEN <<Tok("artifact", "child")>> ELSE Fails}
      [] t.id = "t_probe_instantiate" -> {Fails, <<Tok("artifact", "report")>>}
      [] t.id = "t_report" /\ coerceReport(c[1]) ->
           {<<Tok("fact", "report"), Tok("artifact", "report"), Tok("event", "report")>>}
      [] t.id = "t_awaken_persist" -> {Fails, <<Project>>}
      [] t.id = "t_register_tools" -> RegisterBatch
      [] t.id = "t_emit_message" -> {<<BuildFirstTurnMessage>>}

makeProbeExecutor == {<<Tok("artifact", "result")>>}

makeReducer == {<<Tok("artifact", "report"), Tok("artifact", "report")>>}

Results(t, c) ==
    CASE t.kind \in {"llm", "bash"} -> {Fails} \cup {Broadcast(t, v) : v \in t.gives}
      [] t.kind = "hitl" -> Respond(t, c[1])
      [] t.kind = "tool" /\ net = "unified"   -> Clarification(t, c)
      [] t.kind = "tool" /\ net = "forge"     -> Forge(t, c)
      [] t.kind = "tool" /\ net = "manage"    -> Manage(t, c)
      [] t.kind = "tool" /\ net = "discovery" -> Discovery(t)
      [] t.kind = "tool" /\ net = "awakens"   -> Awakens(t, c)
      [] t.kind = "tool" /\ net = "fanout" /\ t.id # "t_reduce" -> makeProbeExecutor
      [] t.kind = "tool" /\ net = "fanout" /\ t.id = "t_reduce" -> makeReducer
-----------------------------------------------------------------------------
(***************************************************************************)
(* The library of nets and their seeds.                                    *)
(***************************************************************************)
NetOf(n) ==
    CASE n = "default" -> defaultTopology     [] n = "hitl" -> hitlTopology
      [] n = "unified" -> unifiedTopology     [] n = "forge" -> BuildToolForgeTopology
      [] n = "manage" -> manageModelsTopology [] n = "discovery" -> hostDiscoveryTopology
      [] n = "awakens" -> awakensTopology     [] n = "fanout" -> Compose

Chat == {"default", "hitl", "unified"}
Places == DOMAIN NetOf(net).places
Color(p) == NetOf(net).places[p]
Transitions == Range(NetOf(net).trans)

Terminal == {p \in Places : \A t \in Transitions : p \notin Range(t.in)}

\* The capability snapshot a turn may start with: none without a database;
\* a stored or a placeholder one when the awakening is wired; otherwise what
\* an inline discovery run leaves, if it succeeds.
ensureHostCapabilitiesSeed ==
    CASE host = "none"    -> {<<>>}
      [] host = "awakens" -> {<<"snapshot">>}
      [] host = "legacy"  -> {<<>>, <<"snapshot">>}

\* Slip: one token more than there are shell transitions.
triggerCount_Extra == 3 + Len(Probes)

triggerCount == 2 + Len(Probes)

\* What a message, a request or a start puts into a fresh net.
Seeds(n) ==
    CASE n \in {"default", "hitl"} -> {[p_input |-> <<"text">>]}
      [] n = "unified" -> {[p_input |-> <<"text">>, p_round |-> <<0>>,
                            p_host_capabilities |-> s] : s \in ensureHostCapabilitiesSeed}
      [] n = "forge" -> {[p_forge_request |-> <<"request">>]}
      [] n = "manage" -> {[P_MgmtEnter |-> <<[admin |-> a, kind |-> k]>>] :
                           a \in BOOLEAN, k \in {"", "delete", "unknown"}}
      [] n = "discovery" -> {[p_trigger |-> [i \in 1..triggerCount |-> "go"]]}
      [] n = "awakens" -> {[p_awaken_trigger |-> <<"awaken">>, p_awaken_prompt |-> <<"prompt">>]}
      [] n = "fanout" -> {[p_trigger |-> [i \in DOMAIN FanoutIDs |-> "go"], p_plan |-> <<"plan">>]}

Marked(n, seed) == seed @@ [p \in DOMAIN NetOf(n).places |-> <<>>]

\* c holds the oldest token of every input place.
Guard(t, c) ==
    CASE t.id = "t_ask" -> guardNeedsClarification(c[1])
      [] t.id = "t_direct" -> guardDirectConversation(c[1])
      [] t.id = "t_plan_direct" -> guardPlanTaskDirect(c[1])
      [] t.id = "t_followup" -> guardResidualAmbiguous(c[1], c[2])
      [] t.id = "t_preplanner" -> guardResidualResolved(c[1], c[2])
      [] OTHER -> net = "manage" /\ t.in = <<"P_MgmtIntent">>
                  => \E k \in Range(ManageKinds) :
                        t = newManageHITL(k) /\ guardManageKind(k, c[1])

Heads(t, m) == [i \in DOMAIN t.in |-> Head(m[t.in[i]])]

CanFire(t, m) ==
    /\ t.in # <<>>
    /\ \A i \in DOMAIN t.in : m[t.in[i]] # <<>>
    /\ Guard(t, Heads(t, m))

\* Run refuses a net in which a shell transition feeds a place of another
\* colour.
checkBashConfig ==
    \A t \in Transitions : t.kind = "bash" =>
        \A p \in Range(t.out) : Color(p) \in {"shell", "error"}

consumeAll(t, m) == [p \in Places |-> IF p \in Range(t.in) THEN Tail(m[p]) ELSE m[p]]
-----------------------------------------------------------------------------
Init ==
    /\ net \in Nets
    /\ host \in {"none", "awakens", "legacy"}
    /\ \E seed \in Seeds(net) : marking = Marked(net, seed)
    /\ job = [id \in {t.id : t \in Transitions} |-> Idle]
    /\ pc = "start" /\ verdict = "running" /\ broken = {} /\ cancelled = FALSE
    /\ turn = 1 /\ asked = 0

End(v) == pc' = "ended" /\ verdict' = v

Validate ==
    /\ pc = "start"
    /\ IF checkBashConfig THEN pc' = "collect" /\ UNCHANGED verdict ELSE End("failed")
    /\ UNCHANGED <<net, host, marking, job, broken, cancelled, turn, asked>>

Complete == \A p \in Terminal : marking[p] # <<>>

\* Slip: with a terminal place empty the loop goes round again.
checkCompletionOrDeadlock_Again ==
    IF Complete THEN End("completed") ELSE UNCHANGED <<pc, verdict>>

checkCompletionOrDeadlock == End(IF Complete THEN "completed" ELSE "deadlock")

\* Take in ID order what can still fire; judge when nothing can.
Collect ==
    LET firable == SelectSeq(NetOf(net).trans, LAMBDA t : CanFire(t, marking))
        Take(acc, t) ==
            IF CanFire(t, acc.m)
            THEN [m |-> consumeAll(t, acc.m), j |-> [acc.j EXCEPT ![t.id] = Heads(t, acc.m)]]
            ELSE acc
        taken == FoldLeft(Take, [m |-> marking, j |-> job], firable)
    IN /\ pc = "collect"
       /\ UNCHANGED <<net, host, broken, cancelled, turn, asked>>
       /\ \/ cancelled /\ End("failed") /\ UNCHANGED <<marking, job>>
          \/ /\ ~cancelled /\ firable = <<>>
             /\ checkCompletionOrDeadlock
             /\ UNCHANGED <<marking, job>>
          \/ /\ ~cancelled /\ firable # <<>>
             /\ marking' = taken.m /\ job' = taken.j
             /\ pc' = "wait" /\ UNCHANGED verdict

\* How many of the deposits go through: up to the first wrong colour.
Accepted(t, r) ==
    CHOOSE n \in 0..Len(r) :
        /\ \A i \in 1..n : r[i].c = Color(t.out[i])
        /\ n < Len(r) => r[n + 1].c # Color(t.out[n + 1])

Deposit(t, r, n) ==
    [p \in Places |-> marking[p] \o
        [i \in 1..Cardinality({j \in 1..n : t.out[j] = p}) |->
            r[CHOOSE j \in 1..n : t.out[j] = p].v]]

\* A questionnaire shown to the user; a new topic starts a new count.
Count(t, r, n) ==
    CASE t.id = "t_ask" /\ n > 0 -> 1
      [] t.id = "t_followup" /\ n > 0 ->
           (IF job[t.id][1].shift THEN 0 ELSE asked) + (IF r[1].v = "questions" THEN 1 ELSE 0)
      [] OTHER -> asked

Finish(t) ==
    /\ pc = "wait" /\ job[t.id] # Idle
    /\ \E r \in Results(t, job[t.id]) :
         LET n == Accepted(t, r) IN
         /\ cancelled /\ t.kind = "hitl" => r = Fails
         /\ marking' = Deposit(t, r, n)
         /\ broken' = IF n < Len(t.out) THEN broken \cup {t.id} ELSE broken
         /\ asked' = Count(t, r, n)
    /\ job' = [job EXCEPT ![t.id] = Idle]
    /\ UNCHANGED <<net, host, pc, verdict, cancelled, turn>>

\* The round is over: a failed firing fails the run.
Settle ==
    /\ pc = "wait" /\ \A id \in DOMAIN job : job[id] = Idle
    /\ IF broken # {} THEN End("failed") ELSE pc' = "collect" /\ UNCHANGED verdict
    /\ UNCHANGED <<net, host, marking, job, broken, cancelled, turn, asked>>

Cancel ==
    /\ pc # "ended" /\ ~cancelled
    /\ cancelled' = TRUE
    /\ UNCHANGED <<net, host, marking, job, pc, verdict, broken, turn, asked>>

\* Slip: the places are not reset before the next message.
Send_NoReset ==
    /\ pc = "ended" /\ net \in Chat /\ turn < MaxTurns
    /\ \E seed \in Seeds(net) :
         marking' = [p \in Places |-> marking[p] \o Marked(net, seed)[p]]
    /\ pc' = "start" /\ verdict' = "running" /\ broken' = {} /\ cancelled' = FALSE
    /\ turn' = turn + 1 /\ asked' = 0
    /\ UNCHANGED <<net, host, job>>

\* The next message: Reset, SeedFunc, the capability seed, the input.
Send ==
    /\ pc = "ended" /\ net \in Chat /\ turn < MaxTurns
    /\ \E seed \in Seeds(net) : marking' = Marked(net, seed)
    /\ pc' = "start" /\ verdict' = "running" /\ broken' = {} /\ cancelled' = FALSE
    /\ turn' = turn + 1 /\ asked' = 0
    /\ UNCHANGED <<net, host, job>>

\* Nothing more to do: the caller has its verdict.
Done ==
    /\ pc = "ended" /\ (net \in Chat => turn = MaxTurns)
    /\ UNCHANGED vars

Next == Validate \/ Collect \/ (\E t \in Transitions : Finish(t)) \/ Settle \/ Cancel \/ Send \/ Done

\* Models, shells and handlers return (they have timeouts); a human does not
\* have to answer, but a cancelled wait ends.
Machine == \E t \in Transitions : (t.kind # "hitl" \/ cancelled) /\ Finish(t)

Spec == Init /\ [][Next]_vars /\ WF_vars(Validate \/ Collect \/ Settle) /\ WF_vars(Machine)
-----------------------------------------------------------------------------
(* No place of a net but the trigger of the two probe nets ever holds a    *)
(* second token: no answer, round counter or plan can be consumed twice or *)
(* by the wrong firing (CON-004 of the clarification loop).                *)
OneSafe ==
    \A p \in Places : p # "p_trigger" => Len(marking[p]) <= 1

(* A run that completes leaves nothing behind but its results, and the     *)
(* round counter of a conversation that needed no planning round.          *)
ProperCompletion ==
    verdict = "completed" =>
        \A p \in Places \ (Terminal \cup {"p_round"}) : marking[p] = <<>>

(* A net gets stuck only where no capability snapshot could be seeded (no  *)
(* database, or a failed inline discovery) or no probe exists; the guards  *)
(* of the chat nets leave no classification and no reassessment without a  *)
(* transition that takes it.                                               *)
DeadlockKnown ==
    verdict = "deadlock" =>
        \/ net = "unified" /\ marking["p_host_capabilities"] = <<>> /\ marking["p_output"] # <<>>
        \/ net = "discovery" /\ Probes = <<>>

(* However the reassessments go, a topic is asked about at most MaxRounds  *)
(* times: escape hatches are not counted, a new topic starts afresh.       *)
QuestionsBounded == asked <= MaxRounds

Awaiting == \E t \in Transitions : t.kind = "hitl" /\ job[t.id] # Idle

(* Every run ends or waits for a human, whatever the models answer.        *)
RunEnds == (pc # "ended") ~> (pc = "ended" \/ Awaiting)
=============================================================================
