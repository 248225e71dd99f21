---------------------------- MODULE CPNExecutor ----------------------------
(***************************************************************************)
(* The Coloured-Petri-Net executor of the assistant: CPN.Run and what it   *)
(* calls (cpn/executor.go, place.go, transition.go, cpn.go, hitl.go,       *)
(* subnet.go, observer.go, retry.go, mode.go).                             *)
(*                                                                         *)
(* One CPN is run by a main goroutine (pc), which consumes tokens and      *)
(* launches one goroutine per firing (fire); a SubNet firing leaves a      *)
(* child goroutine behind (child) that deposits into the parent's places   *)
(* while the main loop goes on, and may outlive Run.  Humans answer HITL   *)
(* requests through a buffered channel per transition.                     *)
(*                                                                         *)
(* Kind "tool" stands for every node kind that is fired synchronously and  *)
(* deposits a token per output place; what the node computes is the        *)
(* constant operator Outcome.                                              *)
(***************************************************************************)
EXTENDS Integers, Sequences, FiniteSets

CONSTANTS
  Place,            \* c.Places
  Transition,       \* c.Transitions
  Rank,             \* position in sort.Slice order of the IDs
  Kind,             \* Transition.Kind
  InputPlaces,      \* Transition.InputPlaces (no repeated arc)
  OutputPlaces,     \* Transition.OutputPlaces
  ErrorPlace,       \* Transition.ErrorPlace, NoPlace for ""
  NoPlace,
  Color, Space,     \* Place.Color, Place.Space
  Val,              \* the payloads that guards tell apart
  ErrorVal,         \* the payload of error and event tokens
  Guard(_, _),      \* Transition.Guard on the tokens of its input places
  Outcome(_, _),    \* what firing a transition on these payloads may produce
  Faulty,           \* transitions whose executor or builder may fail
  MaxAttempts,      \* RetryPolicy.MaxAttempts, 1 when Retry is nil
  RevisionLoop,     \* HITL transitions with HITLConfig.RevisionLoop
  MaxRevisions,     \* HITLConfig.MaxRevisions
  ChildOutcome,     \* tokens a child of a SubNet transition may end with
  InitialMode,      \* CPN.initialMode
  Seeds,            \* markings a run may start from (SeedFunc and input)
  HITLCap,          \* capacity of a HITL channel (session_service.go: 1)
  Child,            \* bound: slots for child goroutines
  BusCapacity,      \* SubNetEventBusCapacity
  MaxEvents,        \* bound: events one child emits
  MaxRuns,          \* bound: calls of Run on this CPN
  MaxResponses      \* bound: human responses

ColorSet == {"string", "artifact", "json", "human", "error", "event"}
SpaceKind == {"surface", "observation", "computation"}
NodeKind == {"tool", "hitl", "subnet", "observer"}
Mode == {"mas", "centaurian"}
State == {"idle", "running", "waiting", "completed", "failed"}
HITLAction == {"approve", "reject", "revise", "submit"}

(* What a node hands to Deposit, before the engine stamps it. *)
Shape == [color : ColorSet, space : SpaceKind, val : Val]

(* A token; hitl is OriginKind = NodeKindHITL, epoch the run it stems from. *)
Token == [color : ColorSet, space : SpaceKind, val : Val,
          hitl : BOOLEAN, epoch : Nat]

Marking == [Place -> Seq(Token)]

(* Errors: why a firing, a Run or the CPN failed; "none" is a nil error. *)
Cause == {"none", "invalid", "timeout", "deadlock", "fire", "deposit",
          "rejected", "revisions", "action", "canceled", "subnet", "errplace"}

(* The errors a firing can end with. *)
Failure == {"timeout", "fire", "deposit", "rejected", "revisions", "action", "canceled"}

(* Statuses of the goroutine that fires a transition. *)
FireStatus == {"idle", "run", "blocked", "revise", "deposit", "sleep", "ok", "err"}
Settled == {"idle", "ok", "err"}

(* Locations of the main goroutine. *)
Location == {"ready", "loop", "drain", "collect", "consume", "wait", "errors", "mode",
             "check", "load", "childwait", "returned"}

(* Statuses of a child goroutine; "free" is a slot without one. *)
ChildStatus == {"free", "run", "failing", "deposit", "dereg", "close", "dec", "done"}

ASSUME NetAssumption ==
  /\ IsFiniteSet(Transition)
  /\ Kind \in [Transition -> NodeKind]
  /\ Rank \in [Transition -> Nat]
  /\ InputPlaces \in [Transition -> SUBSET Place]
  /\ OutputPlaces \in [Transition -> Seq(Place)]
  /\ NoPlace \notin Place
  /\ ErrorPlace \in [Transition -> Place \cup {NoPlace}]
  /\ Color \in [Place -> ColorSet]
  /\ Space \in [Place -> SpaceKind]

ASSUME BehaviourAssumption ==
  /\ ErrorVal \in Val
  /\ \A t \in Transition : \A v \in [InputPlaces[t] -> Val] :
       Outcome(t, v) \subseteq [1..Len(OutputPlaces[t]) -> Shape]
  /\ Faulty \subseteq Transition
  /\ MaxAttempts \in [Transition -> Nat \ {0}]
  /\ RevisionLoop \subseteq Transition
  /\ MaxRevisions \in Nat
  /\ ChildOutcome \in [Transition -> SUBSET (Seq([val : Val, hitl : BOOLEAN]) \ {<<>>})]
  /\ InitialMode \in Mode
  /\ Seeds \subseteq [Place -> Seq([val : Val, hitl : BOOLEAN])]

ASSUME BoundAssumption ==
  /\ IsFiniteSet(Child)
  /\ HITLCap \in Nat \ {0}
  /\ BusCapacity \in Nat
  /\ MaxEvents \in Nat
  /\ MaxRuns \in Nat
  /\ MaxResponses \in Nat
-----------------------------------------------------------------------------
VARIABLES
  marking,        \* Place.Tokens
  state, error,   \* CPN.State, CPN.Error
  mode,           \* CPN.Mode
  pc,             \* where the main goroutine is in Run
  undrained,      \* children whose bus drainObservers has not visited yet
  scan,           \* transitions collectFirable has not looked at yet
  firable,        \* transitions collectFirable found
  todo,           \* firable transitions not yet re-checked
  errs,           \* errCh: failed firings in the order they ended
  result,         \* what Run returned ("running" until it does)
  epoch,          \* number of the current run
  ctxDone,        \* ctx.Done() of the current run is closed
  fire,           \* status of each firing goroutine
  consumed,       \* the tokens each firing consumed
  firedIn,        \* mode in which they were consumed
  res,            \* what the firing is to deposit, per output place
  slot,           \* next output place to deposit into
  attempt,        \* doRetry's attempt
  rounds,         \* fireHITLWithRevision's rounds
  put,            \* places this firing has deposited into (history)
  hitlCh,         \* HITLConfig.Channel: responses not yet received
  sent,           \* number of responses given
  child, owner,   \* child goroutines and the transition that spawned each
  born,           \* the run that spawned it
  pay,            \* terminal tokens of the child
  lot, outbox,    \* tokens and output places still to be deposited
  bus,            \* number of events of the child not yet drained
  emitted,        \* number of events each child put on its bus
  activeChildren  \* CPN.activeChildren

netVars   == <<marking, state, error, mode>>
mainVars  == <<pc, undrained, scan, firable, todo, result>>
ctxVars   == <<epoch, ctxDone>>
fireVars  == <<fire, consumed, firedIn, res, slot, attempt, rounds, put, errs>>
hitlVars  == <<hitlCh, sent>>
childVars == <<child, owner, born, pay, lot, outbox, bus, emitted, activeChildren>>
vars == <<netVars, mainVars, ctxVars, fireVars, hitlVars, childVars>>

NetType ==
  /\ marking \in Marking /\ state \in State /\ mode \in Mode
  /\ error \in Cause /\ (state = "failed" => error # "none")

MainType ==
  /\ pc \in Location
  /\ undrained \subseteq Child
  /\ scan \subseteq Transition /\ firable \subseteq Transition /\ todo \subseteq Transition
  /\ result \in Cause \cup {"running"}
  /\ epoch \in Nat /\ ctxDone \in BOOLEAN

FireType ==
  /\ fire \in [Transition -> FireStatus]
  /\ DOMAIN consumed = Transition /\ DOMAIN res = Transition
  /\ \A t \in Transition :
       /\ fire[t] # "idle" => consumed[t] \in [InputPlaces[t] -> Token]
       /\ fire[t] = "deposit" => /\ res[t] \in [1..Len(OutputPlaces[t]) -> Shape]
                                 /\ slot[t] >= 1
  /\ firedIn \in [Transition -> Mode]
  /\ slot \in [Transition -> Nat] /\ attempt \in [Transition -> Nat]
  /\ rounds \in [Transition -> Nat] /\ put \in [Transition -> Seq(Place)]
  /\ errs \in Seq([t : Transition, err : Failure])

HITLType ==
  /\ hitlCh \in [Transition -> Seq([action : HITLAction, epoch : Nat, live : BOOLEAN])]
  /\ sent \in Nat

ChildType ==
  /\ child \in [Child -> ChildStatus] /\ DOMAIN owner = Child
  /\ \A i \in Child : child[i] # "free" => owner[i] \in Transition
  /\ born \in [Child -> Nat]
  /\ pay \in [Child -> Seq([val : Val, hitl : BOOLEAN])]
  /\ lot \in [Child -> Seq([val : Val, hitl : BOOLEAN])]
  /\ \A i \in Child : child[i] = "deposit" => pay[i] # <<>> /\ lot[i] # <<>>
  /\ outbox \in [Child -> Seq(Place)]
  /\ bus \in [Child -> Nat] /\ emitted \in [Child -> Nat]
  /\ activeChildren \in Int

(* Every variable has its type. *)
TypeOK == NetType /\ MainType /\ FireType /\ HITLType /\ ChildType
-----------------------------------------------------------------------------
(* Tokens and places *)

IsHumanOrigin(tok) == tok.color = "human" \/ tok.hitl

(* Place.Deposit refuses a Surface token on a Computation place, then a     *)
(* wrong colour, then a wrong space; the three checks leave one condition.  *)
Accepts(p, tok) == /\ ~(tok.space = "surface" /\ Space[p] = "computation")
                   /\ tok.color = Color[p]
                   /\ tok.space = Space[p]

Deposit(m, p, tok) == [m EXCEPT ![p] = Append(@, tok)]

(* A token re-stamped with the place's colour and space, as injection and    *)
(* SubNet output do.                                                         *)
Fitted(p, val, hitl, run) ==
  [color |-> Color[p], space |-> Space[p], val |-> val, hitl |-> hitl, epoch |-> run]

(* A token of ColorError in the place's space; its OriginKind is t.Kind.     *)
ErrorToken(t, run) ==
  [color |-> "error", space |-> Space[ErrorPlace[t]], val |-> ErrorVal,
   hitl |-> Kind[t] = "hitl", epoch |-> run]

SeedMarking(s, run) ==
  [p \in Place |-> [i \in 1..Len(s[p]) |-> Fitted(p, s[p][i].val, s[p][i].hitl, run)]]

TerminalPlaces == {p \in Place : \A t \in Transition : p \notin InputPlaces[t]}

IsComplete == /\ TerminalPlaces # {}
              /\ \A p \in TerminalPlaces : marking[p] # <<>>

-----------------------------------------------------------------------------
(* Firability *)

InputTokens(t) == [p \in InputPlaces[t] |-> marking[p]]

HasOrigin(m, human) == \E p \in DOMAIN m : \E i \in DOMAIN m[p] : IsHumanOrigin(m[p][i]) = human

centaurianGuard(m) == HasOrigin(m, TRUE) /\ HasOrigin(m, FALSE)

isComputationTransition(t) ==
  \E i \in DOMAIN OutputPlaces[t] : Space[OutputPlaces[t][i]] = "computation"

(* Slip: the Centaurian guard is not injected. *)
effectiveGuard_Plain(t) == Guard(t, InputTokens(t))

effectiveGuard(t) ==
  /\ Guard(t, InputTokens(t))
  /\ (mode = "centaurian" /\ Kind[t] # "hitl" /\ isComputationTransition(t))
       => centaurianGuard(InputTokens(t))

CanFire(t) == /\ InputPlaces[t] # {}
              /\ \A p \in InputPlaces[t] : marking[p] # <<>>
              /\ Guard(t, InputTokens(t))

effectiveCanFire(t) == /\ InputPlaces[t] # {}
                       /\ \A p \in InputPlaces[t] : marking[p] # <<>>
                       /\ effectiveGuard(t)

(* Validate: a Surface input wired to a Computation output is only allowed   *)
(* on a HITL transition.  Arc references are well formed by NetAssumption.   *)
Validate ==
  \A t \in Transition : Kind[t] # "hitl" =>
    ~ /\ \E p \in InputPlaces[t] : Space[p] = "surface"
      /\ isComputationTransition(t)

Observers == {t \in Transition : Kind[t] = "observer"}

-----------------------------------------------------------------------------
(* The main goroutine *)

setFailed(e) == state' = "failed" /\ error' = e

Return(r) == pc' = "returned" /\ result' = r

RunStart ==
  /\ pc = "ready"
  /\ IF Validate THEN /\ pc' = "loop" /\ state' = "running"
                      /\ UNCHANGED <<error, result>>
                 ELSE setFailed("invalid") /\ Return("invalid")
  /\ UNCHANGED <<marking, mode, undrained, scan, firable, todo, ctxVars, fireVars, hitlVars, childVars>>

LoopTimeout ==
  /\ pc = "loop" /\ ctxDone
  /\ setFailed("timeout") /\ Return("timeout")
  /\ UNCHANGED <<marking, mode, undrained, scan, firable, todo, ctxVars, fireVars, hitlVars, childVars>>

(* drainObservers visits the buses in map order.  Every event goes to every  *)
(* output place of every observer; a place of another colour or space        *)
(* refuses it silently.  A bus that is empty now counts as visited.          *)
EventToken(run) == [color |-> "event", space |-> "observation", val |-> ErrorVal,
                    hitl |-> FALSE, epoch |-> run]

LoopTop ==
  /\ pc = "loop" /\ ~ctxDone
  /\ pc' = "drain"
  /\ undrained' = IF Observers = {} THEN {} ELSE {i \in Child : bus[i] > 0}
  /\ UNCHANGED <<netVars, scan, firable, todo, result, ctxVars, fireVars, hitlVars, childVars>>

(* The observers with an arc to p: each puts a copy of the event there.      *)
Observing(p) == {o \in Observers : \E k \in DOMAIN OutputPlaces[o] : OutputPlaces[o][k] = p}

DrainBus(i) ==
  /\ pc = "drain" /\ i \in undrained
  /\ undrained' = undrained \ {i}
  /\ bus' = [bus EXCEPT ![i] = 0]
  /\ marking' = [p \in Place |->
       IF Accepts(p, EventToken(born[i]))
       THEN marking[p] \o [k \in 1..(bus[i] * Cardinality(Observing(p))) |-> EventToken(born[i])]
       ELSE marking[p]]
  /\ UNCHANGED <<state, error, mode, pc, scan, firable, todo, result, ctxVars, fireVars, hitlVars,
                 child, owner, born, pay, lot, outbox, emitted, activeChildren>>

DrainDone ==
  /\ pc = "drain" /\ undrained = {}
  /\ pc' = "collect" /\ scan' = Transition \ Observers /\ firable' = {}
  /\ UNCHANGED <<netVars, undrained, todo, result, ctxVars, fireVars, hitlVars, childVars>>

(* collectFirable visits the transitions in map order, one at a time: a     *)
(* child may deposit between two visits.                                     *)
Collect(t) ==
  /\ pc = "collect" /\ t \in scan
  /\ scan' = scan \ {t}
  /\ firable' = IF effectiveCanFire(t) THEN firable \cup {t} ELSE firable
  /\ UNCHANGED <<netVars, pc, undrained, todo, result, ctxVars, fireVars, hitlVars, childVars>>

CollectDone ==
  /\ pc = "collect" /\ scan = {}
  /\ todo' = firable
  /\ pc' = IF firable = {} THEN "check" ELSE "consume"
  /\ firable' = {}
  /\ UNCHANGED <<netVars, undrained, scan, result, ctxVars, fireVars, hitlVars, childVars>>

(* Slip: the tokens are read and left where they are. *)
consumeAll_Peek(t) ==
  /\ consumed' = [consumed EXCEPT ![t] = [p \in InputPlaces[t] |-> Head(marking[p])]]
  /\ UNCHANGED marking

consumeAll(t) ==
  /\ consumed' = [consumed EXCEPT ![t] = [p \in InputPlaces[t] |-> Head(marking[p])]]
  /\ marking' = [p \in Place |-> IF p \in InputPlaces[t] THEN Tail(marking[p]) ELSE marking[p]]

(* The firable transitions are re-checked and consume one by one, sorted by  *)
(* ID.                                                                       *)
Consume(t) ==
  /\ pc = "consume" /\ t \in todo
  /\ \A u \in todo : Rank[t] <= Rank[u]
  /\ todo' = todo \ {t}
  /\ IF effectiveCanFire(t)
       THEN /\ consumeAll(t)
            /\ fire' = [fire EXCEPT ![t] = "run"]
            /\ firedIn' = [firedIn EXCEPT ![t] = mode]
            /\ attempt' = [attempt EXCEPT ![t] = 1]
            /\ rounds' = [rounds EXCEPT ![t] = 0]
            /\ put' = [put EXCEPT ![t] = <<>>]
       ELSE UNCHANGED <<marking, consumed, fire, firedIn, attempt, rounds, put>>
  /\ UNCHANGED <<state, error, mode, pc, undrained, scan, firable, result, ctxVars, res, slot, errs,
                 hitlVars, childVars>>

Launch ==
  /\ pc = "consume" /\ todo = {}
  /\ pc' = IF \A t \in Transition : fire[t] = "idle" THEN "check" ELSE "wait"
  /\ UNCHANGED <<netVars, undrained, scan, firable, todo, result, ctxVars, fireVars, hitlVars, childVars>>

(* wg.Wait *)
WaitAll ==
  /\ pc = "wait"
  /\ \A t \in Transition : fire[t] \in Settled
  /\ pc' = "errors"
  /\ UNCHANGED <<netVars, undrained, scan, firable, todo, result, ctxVars, fireVars, hitlVars, childVars>>

(* Slip: an error without an ErrorPlace is dropped. *)
ProcessError_Drop ==
  /\ pc = "errors" /\ errs # <<>>
  /\ errs' = Tail(errs)
  /\ LET t == Head(errs).t
         p == ErrorPlace[t]
     IN marking' = IF p = NoPlace \/ ~Accepts(p, ErrorToken(t, epoch)) THEN marking
                   ELSE Deposit(marking, p, ErrorToken(t, epoch))
  /\ UNCHANGED <<state, error, mode, mainVars, ctxVars, fire, consumed, firedIn, res, slot,
                 attempt, rounds, put, hitlVars, childVars>>

(* One error of errCh: routed to the ErrorPlace, or the end of the run.      *)
ProcessError ==
  /\ pc = "errors" /\ errs # <<>>
  /\ errs' = Tail(errs)
  /\ LET t == Head(errs).t
         p == ErrorPlace[t]
     IN
       IF p = NoPlace
       THEN setFailed(Head(errs).err) /\ Return(Head(errs).err) /\ UNCHANGED marking
       ELSE IF Accepts(p, ErrorToken(t, epoch))
            THEN /\ marking' = Deposit(marking, p, ErrorToken(t, epoch))
                 /\ UNCHANGED <<state, error, pc, result>>
            ELSE setFailed("errplace") /\ Return("errplace") /\ UNCHANGED marking
  /\ UNCHANGED <<mode, undrained, scan, firable, todo, ctxVars, fire, consumed, firedIn, res, slot,
                 attempt, rounds, put, hitlVars, childVars>>

ErrorsDone ==
  /\ pc = "errors" /\ errs = <<>>
  /\ pc' = "mode"
  /\ UNCHANGED <<netVars, undrained, scan, firable, todo, result, ctxVars, fireVars, hitlVars, childVars>>

HumanInComputation ==
  \E p \in Place : /\ Space[p] = "computation"
                   /\ \E i \in DOMAIN marking[p] : IsHumanOrigin(marking[p][i])

ModeAfterRound ==
  IF HumanInComputation THEN "centaurian"
  ELSE IF \E t \in Transition : Kind[t] = "hitl" /\ CanFire(t) THEN mode ELSE "mas"

(* The goroutines of a round are gone with their local variables. *)
NoFirings ==
  /\ fire' = [t \in Transition |-> "idle"] /\ errs' = <<>>
  /\ consumed' = [t \in Transition |-> <<>>] /\ res' = [t \in Transition |-> <<>>]
  /\ firedIn' = [t \in Transition |-> InitialMode]
  /\ slot' = [t \in Transition |-> 0] /\ attempt' = [t \in Transition |-> 0]
  /\ rounds' = [t \in Transition |-> 0] /\ put' = [t \in Transition |-> <<>>]

(* Slip: the loop is not entered again after a round. *)
checkModeSwitch_Once ==
  /\ pc = "mode"
  /\ pc' = "check"
  /\ mode' = ModeAfterRound
  /\ NoFirings
  /\ UNCHANGED <<marking, state, error, undrained, scan, firable, todo, result, ctxVars, hitlVars, childVars>>

checkModeSwitch ==
  /\ pc = "mode"
  /\ pc' = "loop"
  /\ mode' = ModeAfterRound
  /\ NoFirings
  /\ UNCHANGED <<marking, state, error, undrained, scan, firable, todo, result, ctxVars, hitlVars, childVars>>

(* checkCompletionOrDeadlock reads the places, then the counter of children. *)
CheckComplete ==
  /\ pc = "check"
  /\ IF IsComplete THEN state' = "completed" /\ Return("none")
                   ELSE pc' = "load" /\ UNCHANGED <<state, result>>
  /\ UNCHANGED <<marking, error, mode, undrained, scan, firable, todo, ctxVars, fireVars, hitlVars, childVars>>

LoadChildren ==
  /\ pc = "load"
  /\ IF activeChildren > 0 THEN pc' = "childwait" /\ UNCHANGED <<state, error, result>>
                           ELSE setFailed("deadlock") /\ Return("deadlock")
  /\ UNCHANGED <<marking, mode, undrained, scan, firable, todo, ctxVars, fireVars, hitlVars, childVars>>

(* childWg.Wait has returned: no child is left to interfere. *)
ChildrenWait ==
  /\ pc = "childwait"
  /\ \A i \in Child : child[i] = "free"
  /\ IF IsComplete THEN state' = "completed" /\ Return("none")
     ELSE IF state = "failed" THEN Return(error) /\ UNCHANGED state
     ELSE pc' = "loop" /\ UNCHANGED <<state, result>>
  /\ UNCHANGED <<marking, error, mode, undrained, scan, firable, todo, ctxVars, fireVars, hitlVars, childVars>>
-----------------------------------------------------------------------------
(* Firing goroutines: doRetry around dispatch *)

Payloads(t) == [p \in InputPlaces[t] |-> consumed[t][p].val]

(* doRetry after a failed attempt: every error but a cancelled context is    *)
(* retried until MaxAttempts; the last error goes to errCh.                  *)
AttemptFails(t, e) ==
  IF attempt[t] < MaxAttempts[t] /\ e # "canceled"
  THEN fire' = [fire EXCEPT ![t] = "sleep"] /\ UNCHANGED errs
  ELSE /\ fire' = [fire EXCEPT ![t] = "err"]
       /\ errs' = Append(errs, [t |-> t, err |-> e])

StartDeposit(t, r) ==
  /\ r \in Outcome(t, Payloads(t))
  /\ res' = [res EXCEPT ![t] = r]
  /\ slot' = [slot EXCEPT ![t] = 1]
  /\ fire' = [fire EXCEPT ![t] = "deposit"]
  /\ UNCHANGED errs

(* t.Executor, t.ToolHandler or another synchronous node returns a result.   *)
ToolReturns(t) ==
  /\ pc = "wait" /\ fire[t] = "run" /\ Kind[t] = "tool"
  /\ \E r \in Outcome(t, Payloads(t)) : StartDeposit(t, r)
  /\ UNCHANGED <<netVars, mainVars, ctxVars, consumed, firedIn, attempt, rounds, put,
                 hitlVars, childVars>>

ToolFails(t) ==
  /\ pc = "wait" /\ fire[t] = "run" /\ Kind[t] = "tool"
  /\ t \in Faulty \/ ctxDone
  /\ AttemptFails(t, IF ctxDone THEN "canceled" ELSE "fire")
  /\ UNCHANGED <<netVars, mainVars, ctxVars, consumed, firedIn, res, slot, attempt, rounds,
                 put, hitlVars, childVars>>

(* The token for output k: a HITL transition bridges to the place's space.   *)
Stamped(t, k) ==
  LET p == OutputPlaces[t][k] IN
  [color |-> res[t][k].color,
   space |-> IF Kind[t] = "hitl" THEN Space[p] ELSE res[t][k].space,
   val |-> res[t][k].val, hitl |-> Kind[t] = "hitl", epoch |-> epoch]

(* Slip: a refused deposit is ignored. *)
FireDeposit_Ignore(t) ==
  /\ pc = "wait" /\ fire[t] = "deposit" /\ slot[t] <= Len(OutputPlaces[t])
  /\ LET p == OutputPlaces[t][slot[t]] IN
       IF Accepts(p, Stamped(t, slot[t]))
       THEN /\ marking' = Deposit(marking, p, Stamped(t, slot[t]))
            /\ put' = [put EXCEPT ![t] = Append(@, p)]
       ELSE UNCHANGED <<marking, put>>
  /\ slot' = [slot EXCEPT ![t] = @ + 1]
  /\ UNCHANGED <<state, error, mode, mainVars, ctxVars, fire, errs, consumed, firedIn, res, attempt,
                 rounds, hitlVars, childVars>>

FireDeposit(t) ==
  /\ pc = "wait" /\ fire[t] = "deposit" /\ slot[t] <= Len(OutputPlaces[t])
  /\ LET p == OutputPlaces[t][slot[t]] IN
       IF Accepts(p, Stamped(t, slot[t]))
       THEN /\ marking' = Deposit(marking, p, Stamped(t, slot[t]))
            /\ put' = [put EXCEPT ![t] = Append(@, p)]
            /\ slot' = [slot EXCEPT ![t] = @ + 1]
            /\ UNCHANGED <<fire, errs>>
       ELSE AttemptFails(t, "deposit") /\ UNCHANGED <<marking, put, slot>>
  /\ UNCHANGED <<state, error, mode, mainVars, ctxVars, consumed, firedIn, res, attempt, rounds,
                 hitlVars, childVars>>

(* All outputs are deposited; a HITL transition that reached a Computation   *)
(* place switches the CPN to Centaurian mode (switchModeToCentaurian).       *)
FireOk(t) ==
  /\ pc = "wait" /\ fire[t] = "deposit" /\ slot[t] > Len(OutputPlaces[t])
  /\ fire' = [fire EXCEPT ![t] = "ok"]
  /\ mode' = IF Kind[t] = "hitl" /\ isComputationTransition(t) THEN "centaurian" ELSE mode
  /\ UNCHANGED <<marking, state, error, mainVars, ctxVars, consumed, firedIn, res, slot, attempt,
                 rounds, put, errs, hitlVars, childVars>>

(* Slip: attempts are not counted. *)
SleepOver_Same(t) ==
  /\ pc = "wait" /\ fire[t] = "sleep"
  /\ fire' = [fire EXCEPT ![t] = "run"]
  /\ rounds' = [rounds EXCEPT ![t] = 0]
  /\ UNCHANGED <<netVars, mainVars, ctxVars, consumed, firedIn, res, slot, attempt, put, errs,
                 hitlVars, childVars>>

SleepOver(t) ==
  /\ pc = "wait" /\ fire[t] = "sleep"
  /\ fire' = [fire EXCEPT ![t] = "run"]
  /\ attempt' = [attempt EXCEPT ![t] = @ + 1]
  /\ rounds' = [rounds EXCEPT ![t] = 0]
  /\ UNCHANGED <<netVars, mainVars, ctxVars, consumed, firedIn, res, slot, put, errs,
                 hitlVars, childVars>>

SleepCancelled(t) ==
  /\ pc = "wait" /\ fire[t] = "sleep" /\ ctxDone
  /\ fire' = [fire EXCEPT ![t] = "err"]
  /\ errs' = Append(errs, [t |-> t, err |-> "canceled"])
  /\ UNCHANGED <<netVars, mainVars, ctxVars, consumed, firedIn, res, slot, attempt, rounds, put,
                 hitlVars, childVars>>

-----------------------------------------------------------------------------
(* fireHITL and fireHITLWithRevision *)

HITLAsk(t) ==
  /\ pc = "wait" /\ fire[t] = "run" /\ Kind[t] = "hitl"
  /\ fire' = [fire EXCEPT ![t] = "blocked"]
  /\ state' = "waiting"
  /\ UNCHANGED <<marking, error, mode, mainVars, ctxVars, consumed, firedIn, res, slot, attempt,
                 rounds, put, errs, hitlVars, childVars>>

(* A response is received.  fireHITL stays in StateWaiting when it rejects   *)
(* or its OutputBuilder fails, and takes every other action for an approval. *)
HITLResponse(t, action) ==
  \/ /\ action = "reject"
     /\ AttemptFails(t, "rejected") /\ UNCHANGED <<state, res, slot>>
  \/ /\ action # "reject" /\ t \in Faulty
     /\ AttemptFails(t, "fire") /\ UNCHANGED <<state, res, slot>>
  \/ /\ action # "reject"
     /\ state' = "running"
     /\ \E r \in Outcome(t, Payloads(t)) : StartDeposit(t, r)

(* fireHITLWithRevision leaves StateWaiting first, then looks at the action. *)
RevisionResponse(t, action) ==
  /\ state' = "running"
  /\ \/ /\ action = "approve"
        /\ \E r \in Outcome(t, Payloads(t)) : StartDeposit(t, r)
     \/ /\ action = "reject"
        /\ AttemptFails(t, "rejected") /\ UNCHANGED <<res, slot>>
     \/ /\ action = "revise" /\ rounds[t] >= MaxRevisions
        /\ AttemptFails(t, "revisions") /\ UNCHANGED <<res, slot>>
     \/ /\ action = "revise" /\ rounds[t] < MaxRevisions
        /\ fire' = [fire EXCEPT ![t] = "revise"] /\ UNCHANGED <<errs, res, slot>>
     \/ /\ action = "submit"
        /\ AttemptFails(t, "action") /\ UNCHANGED <<res, slot>>

HITLReceive(t) ==
  /\ pc = "wait" /\ fire[t] = "blocked" /\ hitlCh[t] # <<>>
  /\ hitlCh' = [hitlCh EXCEPT ![t] = Tail(@)]
  /\ IF t \in RevisionLoop THEN RevisionResponse(t, Head(hitlCh[t]).action)
                           ELSE HITLResponse(t, Head(hitlCh[t]).action)
  /\ UNCHANGED <<marking, error, mode, mainVars, ctxVars, consumed, firedIn, attempt, rounds, put,
                 sent, childVars>>

(* Slip: the select waits for the channel only. *)
HITLTimeout_Never(t) == t \notin Transition /\ UNCHANGED vars

HITLTimeout(t) ==
  /\ pc = "wait" /\ fire[t] = "blocked" /\ ctxDone
  /\ setFailed("timeout")
  /\ AttemptFails(t, "timeout")
  /\ UNCHANGED <<marking, mode, mainVars, ctxVars, consumed, firedIn, res, slot, attempt, rounds,
                 put, hitlVars, childVars>>

(* Slip: the next round asks without going back to StateWaiting. *)
RevisionReturns_Running(t) ==
  /\ pc = "wait" /\ fire[t] = "revise"
  /\ rounds' = [rounds EXCEPT ![t] = @ + 1]
  /\ fire' = [fire EXCEPT ![t] = "blocked"]
  /\ UNCHANGED <<netVars, mainVars, ctxVars, consumed, firedIn, res, slot, attempt,
                 put, errs, hitlVars, childVars>>

(* fireLLMDirect revised the draft; the next round asks again.               *)
RevisionReturns(t) ==
  /\ pc = "wait" /\ fire[t] = "revise"
  /\ rounds' = [rounds EXCEPT ![t] = @ + 1]
  /\ fire' = [fire EXCEPT ![t] = "blocked"]
  /\ state' = "waiting"
  /\ UNCHANGED <<marking, error, mode, mainVars, ctxVars, consumed, firedIn, res, slot, attempt,
                 put, errs, hitlVars, childVars>>

RevisionFails(t) ==
  /\ pc = "wait" /\ fire[t] = "revise"
  /\ AttemptFails(t, "fire")
  /\ UNCHANGED <<netVars, mainVars, ctxVars, consumed, firedIn, res, slot, attempt, rounds, put,
                 hitlVars, childVars>>

-----------------------------------------------------------------------------
(* fireSubNet and its child goroutine *)

SpawnChild(t, i) ==
  /\ pc = "wait" /\ fire[t] = "run" /\ Kind[t] = "subnet"
  /\ child[i] = "free" /\ bus[i] = 0
  /\ child' = [child EXCEPT ![i] = "run"]
  /\ owner' = [owner EXCEPT ![i] = t]
  /\ born' = [born EXCEPT ![i] = epoch]
  /\ emitted' = [emitted EXCEPT ![i] = 0]
  /\ activeChildren' = activeChildren + 1
  /\ fire' = [fire EXCEPT ![t] = "ok"]
  /\ UNCHANGED <<netVars, mainVars, ctxVars, consumed, firedIn, res, slot, attempt, rounds, put,
                 errs, hitlVars, pay, lot, outbox, bus>>

(* The factory returns nil, or none is configured.                           *)
SpawnFails(t) ==
  /\ pc = "wait" /\ fire[t] = "run" /\ Kind[t] = "subnet" /\ t \in Faulty
  /\ AttemptFails(t, "fire")
  /\ UNCHANGED <<netVars, mainVars, ctxVars, consumed, firedIn, res, slot, attempt, rounds, put,
                 hitlVars, childVars>>

(* The child emits on its bus.  A full bus drops the event, which changes    *)
(* nothing.                                                                  *)
ChildEmit(i) ==
  /\ child[i] = "run" /\ emitted[i] < MaxEvents /\ bus[i] < BusCapacity
  /\ emitted' = [emitted EXCEPT ![i] = @ + 1]
  /\ bus' = [bus EXCEPT ![i] = @ + 1]
  /\ UNCHANGED <<netVars, mainVars, ctxVars, fireVars, hitlVars, child, owner, born, pay, lot,
                 outbox, activeChildren>>

ChildSucceeds(i) ==
  /\ child[i] = "run"
  /\ \E toks \in ChildOutcome[owner[i]] :
       pay' = [pay EXCEPT ![i] = toks] /\ lot' = [lot EXCEPT ![i] = toks]
  /\ outbox' = [outbox EXCEPT ![i] = OutputPlaces[owner[i]]]
  /\ child' = [child EXCEPT ![i] = "deposit"]
  /\ UNCHANGED <<netVars, mainVars, ctxVars, fireVars, hitlVars, owner, born, bus, emitted,
                 activeChildren>>

ChildFails(i) ==
  /\ child[i] = "run" /\ (owner[i] \in Faulty \/ ctxDone \/ pc = "returned" \/ born[i] # epoch)
  /\ child' = [child EXCEPT ![i] = "failing"]
  /\ UNCHANGED <<netVars, mainVars, ctxVars, fireVars, hitlVars, owner, born, pay, lot, outbox,
                 bus, emitted, activeChildren>>

(* A failed child goes to the ErrorPlace of its transition or fails the      *)
(* parent; a refused error token is only reported.                           *)
ChildFailure(i) ==
  /\ child[i] = "failing"
  /\ LET p == ErrorPlace[owner[i]] IN
       IF p = NoPlace THEN setFailed("subnet") /\ UNCHANGED marking
       ELSE /\ marking' = IF Accepts(p, ErrorToken(owner[i], born[i]))
                          THEN Deposit(marking, p, ErrorToken(owner[i], born[i])) ELSE marking
            /\ UNCHANGED <<state, error>>
  /\ child' = [child EXCEPT ![i] = "dereg"]
  /\ UNCHANGED <<mode, mainVars, ctxVars, fireVars, hitlVars, owner, born, pay, lot, outbox, bus,
                 emitted, activeChildren>>

(* One terminal token into one output place, in that place's colour.         *)
ChildDeposit(i) ==
  /\ child[i] = "deposit" /\ outbox[i] # <<>>
  /\ LET p == Head(outbox[i]) IN
       marking' = Deposit(marking, p,
                    Fitted(p, Head(lot[i]).val, Head(lot[i]).hitl, born[i]))
  /\ IF Len(lot[i]) = 1
     THEN /\ outbox' = [outbox EXCEPT ![i] = Tail(@)]
          /\ lot' = [lot EXCEPT ![i] = pay[i]]
     ELSE lot' = [lot EXCEPT ![i] = Tail(@)] /\ UNCHANGED outbox
  /\ UNCHANGED <<state, error, mode, mainVars, ctxVars, fireVars, hitlVars, child, owner, born,
                 pay, bus, emitted, activeChildren>>

ChildDelivered(i) ==
  /\ child[i] = "deposit" /\ outbox[i] = <<>>
  /\ child' = [child EXCEPT ![i] = "dereg"]
  /\ UNCHANGED <<netVars, mainVars, ctxVars, fireVars, hitlVars, owner, born, pay, lot, outbox,
                 bus, emitted, activeChildren>>

(* Group.Deregister, then the deferred calls: close(bus), the counter, Done. *)
ChildUnwind(i, from, to) ==
  /\ child[i] = from
  /\ child' = [child EXCEPT ![i] = to]
  /\ UNCHANGED <<netVars, mainVars, ctxVars, fireVars, hitlVars, owner, born, pay, lot, outbox,
                 bus, emitted>>

(* Slip: a child that failed the parent does not call Done. *)
ChildDone_Leak(i) == ChildUnwind(i, "done", "free") /\ error # "subnet" /\ UNCHANGED activeChildren

ChildDeregister(i) == ChildUnwind(i, "dereg", "close") /\ UNCHANGED activeChildren
ChildCloseBus(i) == ChildUnwind(i, "close", "dec") /\ UNCHANGED activeChildren
ChildDec(i) == ChildUnwind(i, "dec", "done") /\ activeChildren' = activeChildren - 1
ChildDone(i) == ChildUnwind(i, "done", "free") /\ UNCHANGED activeChildren

-----------------------------------------------------------------------------
(* The environment: the human, the caller's context, the next message *)

(* SessionService.ResolveHITL looks at the session's state in a step before, *)
(* so the response may be sent at any later time; Session.ResolveHITL blocks *)
(* while the channel is full.  live records that the transition was waiting  *)
(* when the response was sent (history).                                     *)
Respond(t, action) ==
  /\ Kind[t] = "hitl" /\ sent < MaxResponses /\ Len(hitlCh[t]) < HITLCap
  /\ hitlCh' = [hitlCh EXCEPT ![t] = Append(@, [action |-> action, epoch |-> epoch,
                                                live |-> fire[t] = "blocked"])]
  /\ sent' = sent + 1
  /\ UNCHANGED <<netVars, mainVars, ctxVars, fireVars, childVars>>

Cancel ==
  /\ pc # "returned" /\ ~ctxDone
  /\ ctxDone' = TRUE
  /\ UNCHANGED <<netVars, mainVars, epoch, fireVars, hitlVars, childVars>>

(* SessionService.SendMessage after a Run has returned: Reset, SeedFunc, the *)
(* input token, a fresh context.  HITL channels and children are left alone. *)
Reset ==
  /\ pc = "returned" /\ epoch < MaxRuns
  /\ epoch' = epoch + 1 /\ ctxDone' = FALSE
  /\ state' = "idle" /\ error' = "none" /\ mode' = InitialMode
  /\ \E s \in Seeds : marking' = SeedMarking(s, epoch')
  /\ pc' = "ready" /\ result' = "running"
  /\ todo' = {}
  /\ NoFirings
  /\ UNCHANGED <<undrained, scan, firable, hitlVars, childVars>>

Init ==
  /\ epoch = 1 /\ ctxDone = FALSE
  /\ state = "idle" /\ error = "none" /\ mode = InitialMode
  /\ \E s \in Seeds : marking = SeedMarking(s, 1)
  /\ pc = "ready" /\ result = "running"
  /\ undrained = {} /\ scan = {} /\ firable = {} /\ todo = {} /\ errs = <<>>
  /\ fire = [t \in Transition |-> "idle"]
  /\ consumed = [t \in Transition |-> <<>>] /\ res = [t \in Transition |-> <<>>]
  /\ firedIn = [t \in Transition |-> InitialMode]
  /\ slot = [t \in Transition |-> 0] /\ attempt = [t \in Transition |-> 0]
  /\ rounds = [t \in Transition |-> 0] /\ put = [t \in Transition |-> <<>>]
  /\ hitlCh = [t \in Transition |-> <<>>] /\ sent = 0
  /\ child = [i \in Child |-> "free"]
  /\ owner = [i \in Child |-> <<>>]
  /\ born = [i \in Child |-> 0] /\ pay = [i \in Child |-> <<>>]
  /\ lot = [i \in Child |-> <<>>] /\ outbox = [i \in Child |-> <<>>]
  /\ bus = [i \in Child |-> 0] /\ emitted = [i \in Child |-> 0] /\ activeChildren = 0

Main == \/ RunStart \/ LoopTimeout \/ LoopTop \/ DrainDone \/ CollectDone \/ Launch \/ WaitAll
        \/ ProcessError \/ ErrorsDone \/ checkModeSwitch \/ CheckComplete \/ LoadChildren
        \/ ChildrenWait

Firing(t) == \/ ToolReturns(t) \/ ToolFails(t) \/ FireDeposit(t) \/ FireOk(t)
             \/ SleepOver(t) \/ SleepCancelled(t)
             \/ HITLAsk(t) \/ HITLReceive(t) \/ HITLTimeout(t)
             \/ RevisionReturns(t) \/ RevisionFails(t)
             \/ SpawnFails(t) \/ \E i \in Child : SpawnChild(t, i)

ChildStep(i) == \/ ChildSucceeds(i) \/ ChildFails(i) \/ ChildFailure(i) \/ ChildDeposit(i)
                \/ ChildDelivered(i) \/ ChildDeregister(i) \/ ChildCloseBus(i)
                \/ ChildDec(i) \/ ChildDone(i)

Next ==
  \/ Main
  \/ \E t \in Transition : Collect(t) \/ Consume(t) \/ Firing(t)
  \/ \E i \in Child : DrainBus(i) \/ ChildEmit(i) \/ ChildStep(i)
  \/ \E t \in Transition, a \in HITLAction : Respond(t, a)
  \/ Cancel
  \/ Reset

Spec == Init /\ [][Next]_vars

(* Go schedules every runnable goroutine; calls of a node return.  Nothing   *)
(* makes a human answer, a caller cancel or a next message arrive.           *)
Fairness ==
  /\ WF_vars(Main)
  /\ \A t \in Transition : WF_vars(Collect(t) \/ Consume(t)) /\ WF_vars(Firing(t))
  /\ \A i \in Child : WF_vars(DrainBus(i)) /\ WF_vars(ChildStep(i))

FairSpec == Spec /\ Fairness
-----------------------------------------------------------------------------
(* Safety *)

(* Every token in a place has the place's colour and space, whichever of the *)
(* five writers (seed, firing, error routing, child, observer) put it there: *)
(* Place.Deposit's checks and the writers' re-stamping leave no gap.         *)
PlacesWellTyped ==
  \A p \in Place : \A k \in DOMAIN marking[p] :
    marking[p][k].color = Color[p] /\ marking[p][k].space = Space[p]

(* wg.Wait in Run: outside "wait" no firing goroutine is under way, so the   *)
(* main goroutine judges firability, completion and mode on a marking that   *)
(* no firing of the round is still changing.                                 *)
RoundBarrier ==
  \/ pc \in {"consume", "wait"}
  \/ \A t \in Transition : fire[t] \in Settled

(* The error loop of Run: when a round goes on to checkModeSwitch, every     *)
(* firing that failed in it had an ErrorPlace; no failure is dropped.        *)
FailuresRouted ==
  pc = "mode" => \A t \in Transition : fire[t] = "err" => ErrorPlace[t] # NoPlace

(* fireTool and fireHITL: a firing that ends well without a retry put one    *)
(* token into each output place, in the order of the arcs; one that was      *)
(* retried did so in its last attempt.                                       *)
FiringExact ==
  \A t \in Transition : fire[t] = "ok" /\ Kind[t] # "subnet" =>
    /\ attempt[t] = 1 => put[t] = OutputPlaces[t]
    /\ \E k \in 0..Len(put[t]) : SubSeq(put[t], k + 1, Len(put[t])) = OutputPlaces[t]

(* Run returns nil only on a terminal marking: a place that nobody consumes  *)
(* from exists, and each holds a token.                                      *)
CompletedSound ==
  pc = "returned" /\ result = "none" =>
    LET sinks == {p \in Place : \A t \in Transition : p \notin InputPlaces[t]}
    IN  sinks # {} /\ \A p \in sinks : marking[p] # <<>>

(* Run returns ErrDeadlock only when the net is stuck: no transition can     *)
(* fire in the marking it leaves and the net is not complete.                *)
DeadlockVerdict ==
  pc = "returned" /\ result = "deadlock" =>
    /\ \A t \in Transition \ Observers : ~effectiveCanFire(t)
    /\ ~IsComplete

(* The Centaurian invariant of centaurianGuard, on what is really consumed:  *)
(* in Centaurian mode a computation transition that is not a HITL gate fires *)
(* on tokens of both origins.                                                *)
CoTrigger ==
  \A t \in Transition :
    fire[t] # "idle" /\ firedIn[t] = "centaurian" /\ Kind[t] # "hitl"
      /\ isComputationTransition(t) =>
      \E p, q \in InputPlaces[t] : IsHumanOrigin(consumed[t][p]) /\ ~IsHumanOrigin(consumed[t][q])

(* fireHITL: while the only HITL transition of a round is blocked, the CPN   *)
(* is in StateWaiting, through every revision and retry.  (Two gates in one  *)
(* round share the state: the first answer hides that the other one waits.)  *)
BlockedIsWaiting ==
  \A t \in Transition :
    /\ fire[t] = "blocked"
    /\ \A u \in Transition \ {t} : Kind[u] = "hitl" => fire[u] = "idle"
    => state = "waiting"

(* SessionService.ResolveHITL: a response is applied only if the transition  *)
(* was waiting, in this run, when the human gave it.                         *)
FreshResponse ==
  [][\A t \in Transition : Len(hitlCh'[t]) < Len(hitlCh[t]) =>
       Head(hitlCh[t]).live /\ Head(hitlCh[t]).epoch = epoch]_vars

-----------------------------------------------------------------------------
(* Run implements the token game *)

(* A firing is open until it ended well, its error was dealt with, or the    *)
(* last of its children has decremented the counter.                         *)
Open(t) == (IF fire[t] \in {"idle", "ok"} THEN 0 ELSE 1)
           + Cardinality({i \in Child : child[i] \notin {"free", "done"} /\ owner[i] = t})

Game == INSTANCE TokenGame WITH
  In <- InputPlaces,
  Out <- [t \in Transition |-> {OutputPlaces[t][k] : k \in DOMAIN OutputPlaces[t]}
                                \cup ({ErrorPlace[t]} \ {NoPlace})],
  Watched <- {p \in Place : Observing(p) # {}},
  Starts <- {[p \in Place |-> Len(s[p])] : s \in Seeds},
  tokens <- [p \in Place |-> Len(marking[p])],
  open <- [t \in Transition |-> Open(t)],
  verdict <- CASE result = "running" -> "none" [] result = "none" -> "completed"
               [] result = "deadlock" -> "deadlock" [] OTHER -> "failed"

(* Rounds of goroutines, retries, error routing and children that outlive    *)
(* Run add up to firings of the net: tokens are taken together and only      *)
(* before the verdict, every token put stems from a firing that is under     *)
(* way, nil is returned on a terminal marking only, and ErrDeadlock only     *)
(* when no goroutine is left that could still deliver (the deferred          *)
(* decrement of activeChildren runs after the child's deposits).             *)
PlaysTokenGame == Game!Spec
-----------------------------------------------------------------------------
(* Liveness, under FairSpec *)

(* Run ends by itself when no human is involved: rounds, retries and waits   *)
(* for children all come to an end.                                          *)
RunTerminates == pc = "ready" ~> pc = "returned"

(* Cancelling the context ends Run, also from a HITL wait, a retry's sleep   *)
(* or a wait for children.                                                   *)
CancelEndsRun == ctxDone ~> pc = "returned"
============================================================================
