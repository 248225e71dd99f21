------------------------- MODULE CPNExecutorProofs -------------------------
(***************************************************************************)
(* Proofs about CPNExecutor, for every net, every number of children and   *)
(* every bound: its types, then the round barrier, the routing of          *)
(* failures, the soundness of completion and of the deadlock verdict, the  *)
(* typing of places, what a firing takes and puts, and the state a waiting *)
(* gate shows; then that CPNExecutor implements TokenGame.                 *)
(***************************************************************************)
EXTENDS CPNExecutor, SequenceTheorems, FiniteSetTheorems, TLAPS

(* Depositing a token into a place keeps the marking a marking.             *)
LEMMA DepositType ==
  ASSUME NEW m \in Marking, NEW p \in Place, NEW tok \in Token
  PROVE  Deposit(m, p, tok) \in Marking
BY DEF Deposit, Marking

(* Tokens that injection, SubNet output and error routing make are tokens.  *)
LEMMA FittedType ==
  ASSUME NEW p \in Place, NEW v \in Val, NEW h \in BOOLEAN, NEW n \in Nat
  PROVE  Fitted(p, v, h, n) \in Token
BY NetAssumption DEF Fitted, Token

LEMMA ErrorTokenType ==
  ASSUME NEW t \in Transition, ErrorPlace[t] # NoPlace, NEW n \in Nat
  PROVE  ErrorPlace[t] \in Place /\ ErrorToken(t, n) \in Token
BY NetAssumption, BehaviourAssumption DEF ErrorToken, Token, ColorSet, NodeKind

LEMMA EventTokenType ==
  ASSUME NEW n \in Nat
  PROVE  EventToken(n) \in Token
BY BehaviourAssumption DEF EventToken, Token, ColorSet, SpaceKind

(* The marking a run starts from.                                           *)
LEMMA SeedType ==
  ASSUME NEW s \in Seeds, NEW n \in Nat
  PROVE  SeedMarking(s, n) \in Marking
<1>1. s \in [Place -> Seq([val : Val, hitl : BOOLEAN])]
  BY BehaviourAssumption
<1>2. ASSUME NEW p \in Place
      PROVE  [i \in 1..Len(s[p]) |-> Fitted(p, s[p][i].val, s[p][i].hitl, n)] \in Seq(Token)
  <2>0. s[p] \in Seq([val : Val, hitl : BOOLEAN])
    BY <1>1
  <2>1. \A i \in 1..Len(s[p]) : s[p][i] \in [val : Val, hitl : BOOLEAN]
    BY <2>0, ElementOfSeq
  <2>2. \A i \in 1..Len(s[p]) : Fitted(p, s[p][i].val, s[p][i].hitl, n) \in Token
    BY <2>1, FittedType
  <2>3. Len(s[p]) \in Nat
    BY <2>0
  <2> QED
    BY <2>2, <2>3
<1> QED
  BY <1>2 DEF SeedMarking, Marking

(* Every initial state is well typed.                                       *)
LEMMA InitType == Init => TypeOK
<1> SUFFICES ASSUME Init PROVE TypeOK
  OBVIOUS
<1>1. marking \in Marking
  BY SeedType DEF Init
<1>2. NetType
  BY <1>1, BehaviourAssumption DEF Init, NetType, State, Cause, Failure, Mode
<1>3. MainType
  BY DEF Init, MainType, Location
<1>4. FireType
  BY BehaviourAssumption DEF Init, FireType, FireStatus
<1>5. HITLType
  BY DEF Init, HITLType
<1>6. ChildType
  BY DEF Init, ChildType, ChildStatus
<1> QED
  BY <1>2, <1>3, <1>4, <1>5, <1>6 DEF TypeOK
(* Unchanged groups of variables keep their types.                          *)
LEMMA SameTypes ==
  /\ NetType /\ UNCHANGED netVars => NetType'
  /\ MainType /\ UNCHANGED <<mainVars, ctxVars>> => MainType'
  /\ FireType /\ UNCHANGED fireVars => FireType'
  /\ HITLType /\ UNCHANGED hitlVars => HITLType'
  /\ ChildType /\ UNCHANGED childVars => ChildType'
<1>1. NetType /\ UNCHANGED netVars => NetType'
  BY DEF NetType, netVars
<1>2. MainType /\ UNCHANGED <<mainVars, ctxVars>> => MainType'
  BY DEF MainType, mainVars, ctxVars
<1>3. FireType /\ UNCHANGED fireVars => FireType'
  BY DEF FireType, fireVars
<1>4. HITLType /\ UNCHANGED hitlVars => HITLType'
  BY DEF HITLType, hitlVars
<1>5. ChildType /\ UNCHANGED childVars => ChildType'
  BY DEF ChildType, childVars
<1> QED
  BY <1>1, <1>2, <1>3, <1>4, <1>5

(* An event is copied finitely often.                                       *)
LEMMA CopiesType == \A p \in Place : Cardinality(Observing(p)) \in Nat
<1> SUFFICES ASSUME NEW p \in Place PROVE Cardinality(Observing(p)) \in Nat
  OBVIOUS
<1>1. IsFiniteSet(Observing(p))
  <2>1. Observing(p) \subseteq Transition
    BY DEF Observing, Observers
  <2> QED
    BY <2>1, NetAssumption, FS_Subset
<1> QED
  BY <1>1, FS_CardinalityType

(* Head and tail of a non-empty queue, and an updated function.             *)
LEMMA HeadTail ==
  ASSUME NEW S, NEW q \in Seq(S), q # <<>>
  PROVE  Head(q) \in S /\ Tail(q) \in Seq(S) /\ (Len(q) # 1 => Tail(q) # <<>>)
<1>1. Head(q) \in S /\ Tail(q) \in Seq(S) /\ Len(Tail(q)) = Len(q) - 1
  BY HeadTailProperties
<1>2. Len(q) \in Nat
  OBVIOUS
<1>3. ASSUME Len(q) # 1, Tail(q) = <<>> PROVE FALSE
  <2>1. Len(Tail(q)) = 0
    BY <1>1, <1>3, EmptySeq
  <2> QED
    BY <2>1, <1>1, <1>2, <1>3
<1> QED
  BY <1>1, <1>3

LEMMA Updated ==
  ASSUME NEW D, NEW R, NEW g \in [D -> R], NEW d \in D, NEW v \in R
  PROVE  [g EXCEPT ![d] = v] \in [D -> R]
OBVIOUS

(* The end of a round leaves no firing.                                     *)
LEMMA NoFiringsType == NoFirings => FireType'
BY BehaviourAssumption DEF NoFirings, FireType, FireStatus

(* A failed attempt sleeps or reports an error of the declared kinds.       *)
LEMMA AttemptFailsType ==
  ASSUME FireType, NEW t \in Transition, NEW e \in Failure, AttemptFails(t, e),
         fire[t] # "idle",
         UNCHANGED <<consumed, firedIn, res, slot, attempt, rounds, put>>
  PROVE  FireType'
<1>1. fire' \in [Transition -> FireStatus]
  BY DEF AttemptFails, FireType, FireStatus
<1>2. errs' \in Seq([t : Transition, err : Failure])
  <2>1. errs \in Seq([t : Transition, err : Failure])
    BY DEF FireType
  <2>2. [t |-> t, err |-> e] \in [t : Transition, err : Failure]
    OBVIOUS
  <2>3. Append(errs, [t |-> t, err |-> e]) \in Seq([t : Transition, err : Failure])
    BY <2>1, <2>2, AppendProperties
  <2> QED
    BY <2>1, <2>3 DEF AttemptFails
<1>3. \A u \in Transition : (fire'[u] # "idle" => fire[u] # "idle")
                           /\ (fire'[u] = "deposit" => fire[u] = "deposit")
  BY DEF AttemptFails, FireType
<1> QED
  BY <1>1, <1>2, <1>3 DEF FireType

(* The token a firing deposits next is a token for an output place.         *)
LEMMA StampedType ==
  ASSUME FireType, MainType, NEW t \in Transition, fire[t] = "deposit",
         slot[t] <= Len(OutputPlaces[t])
  PROVE  OutputPlaces[t][slot[t]] \in Place /\ Stamped(t, slot[t]) \in Token
<1>1. OutputPlaces[t] \in Seq(Place)
  BY NetAssumption
<1>2. slot[t] \in 1..Len(OutputPlaces[t])
  BY <1>1 DEF FireType
<1>3. OutputPlaces[t][slot[t]] \in Place
  BY <1>1, <1>2, ElementOfSeq
<1>4. res[t][slot[t]] \in Shape
  BY <1>2 DEF FireType
<1>5. epoch \in Nat /\ Space[OutputPlaces[t][slot[t]]] \in SpaceKind /\ (Kind[t] = "hitl") \in BOOLEAN
  BY <1>3, NetAssumption DEF MainType
<1>6. Stamped(t, slot[t]) \in Token
  BY <1>4, <1>5 DEF Stamped, Token, Shape
<1> QED
  BY <1>3, <1>6

(* A node's result is what Outcome allows for the tokens it consumed.       *)
LEMMA StartDepositType ==
  ASSUME FireType, NEW t \in Transition, NEW r, StartDeposit(t, r), fire[t] # "idle",
         UNCHANGED <<consumed, firedIn, attempt, rounds, put>>
  PROVE  FireType'
<1>1. Payloads(t) \in [InputPlaces[t] -> Val]
  BY DEF Payloads, FireType, Token
<1>2. r \in [1..Len(OutputPlaces[t]) -> Shape]
  BY <1>1, BehaviourAssumption DEF StartDeposit
<1>3. fire' \in [Transition -> FireStatus] /\ slot' \in [Transition -> Nat]
  BY DEF StartDeposit, FireType, FireStatus
<1>4. DOMAIN res' = Transition
  BY DEF StartDeposit, FireType
<1>5. \A u \in Transition : fire'[u] # "idle" => fire[u] # "idle"
  BY DEF StartDeposit, FireType
<1>6. \A u \in Transition : fire'[u] = "deposit" =>
        res'[u] \in [1..Len(OutputPlaces[u]) -> Shape] /\ slot'[u] >= 1
  BY <1>2 DEF StartDeposit, FireType
<1> QED
  BY <1>3, <1>4, <1>5, <1>6 DEF StartDeposit, FireType

(* Run validates and starts.                                                 *)
LEMMA RunStartType ==
  ASSUME TypeOK, RunStart
  PROVE  TypeOK'
<1> NetType /\ MainType /\ FireType /\ HITLType /\ ChildType
  BY DEF TypeOK
<1>1. FireType' /\ HITLType' /\ ChildType'
  BY SameTypes DEF RunStart
<1>2. NetType'
  BY DEF RunStart, setFailed, NetType, State, Cause, Failure
<1>3. MainType'
  BY DEF RunStart, Return, MainType, Location, Cause, Failure, ctxVars
<1> QED
  BY <1>1, <1>2, <1>3 DEF TypeOK

(* The loop finds the context done.                                          *)
LEMMA LoopTimeoutType ==
  ASSUME TypeOK, LoopTimeout
  PROVE  TypeOK'
<1> NetType /\ MainType /\ FireType /\ HITLType /\ ChildType
  BY DEF TypeOK
<1>1. FireType' /\ HITLType' /\ ChildType'
  BY SameTypes DEF LoopTimeout
<1>2. NetType'
  BY DEF LoopTimeout, setFailed, NetType, State, Cause, Failure
<1>3. MainType'
  BY DEF LoopTimeout, Return, MainType, Location, Cause, Failure, ctxVars
<1> QED
  BY <1>1, <1>2, <1>3 DEF TypeOK

(* The loop starts a round.                                                  *)
LEMMA LoopTopType ==
  ASSUME TypeOK, LoopTop
  PROVE  TypeOK'
<1> NetType /\ MainType /\ FireType /\ HITLType /\ ChildType
  BY DEF TypeOK
<1>1. NetType' /\ FireType' /\ HITLType' /\ ChildType'
  BY SameTypes DEF LoopTop
<1>2. MainType'
  BY DEF LoopTop, MainType, Location, ctxVars
<1> QED
  BY <1>1, <1>2 DEF TypeOK

(* One bus is drained into the observers' places.                            *)
LEMMA DrainBusType ==
  ASSUME TypeOK, NEW i \in Child, DrainBus(i)
  PROVE  TypeOK'
<1> NetType /\ MainType /\ FireType /\ HITLType /\ ChildType
  BY DEF TypeOK
<1>1. FireType' /\ HITLType'
  BY SameTypes DEF DrainBus
<1>2. NetType'
  <2>1. EventToken(born[i]) \in Token
    BY EventTokenType DEF ChildType
  <2>3. \A p \in Place : marking'[p] \in Seq(Token)
    <3> SUFFICES ASSUME NEW p \in Place PROVE marking'[p] \in Seq(Token)
      OBVIOUS
    <3>1. marking[p] \in Seq(Token)
      BY DEF NetType, Marking
    <3> DEFINE n == bus[i] * Cardinality(Observing(p))
               d == [k \in 1..n |-> EventToken(born[i])]
    <3>a. n \in Nat
      <4>1. bus[i] \in Nat
        BY DEF ChildType
      <4>2. Cardinality(Observing(p)) \in Nat
        BY CopiesType
      <4> QED
        BY <4>1, <4>2
    <3>2. d \in Seq(Token)
      <4> HIDE DEF n
      <4> QED
        BY <2>1, <3>a
    <3>3. marking[p] \o d \in Seq(Token)
      BY <3>1, <3>2
    <3> QED
      BY <3>1, <3>3 DEF DrainBus
  <2>4. marking' \in Marking
    BY <2>3 DEF DrainBus, Marking
  <2> QED
    BY <2>4 DEF DrainBus, NetType
<1>3. MainType'
  BY DEF DrainBus, MainType, Location, ctxVars
<1>4. ChildType'
  BY DEF DrainBus, ChildType
<1> QED
  BY <1>1, <1>2, <1>3, <1>4 DEF TypeOK

(* All buses are drained.                                                    *)
LEMMA DrainDoneType ==
  ASSUME TypeOK, DrainDone
  PROVE  TypeOK'
<1> NetType /\ MainType /\ FireType /\ HITLType /\ ChildType
  BY DEF TypeOK
<1>1. NetType' /\ FireType' /\ HITLType' /\ ChildType'
  BY SameTypes DEF DrainDone
<1>2. MainType'
  BY DEF DrainDone, MainType, Location, ctxVars
<1> QED
  BY <1>1, <1>2 DEF TypeOK

(* One transition is judged firable or not.                                  *)
LEMMA CollectType ==
  ASSUME TypeOK, NEW t \in Transition, Collect(t)
  PROVE  TypeOK'
<1> NetType /\ MainType /\ FireType /\ HITLType /\ ChildType
  BY DEF TypeOK
<1>1. NetType' /\ FireType' /\ HITLType' /\ ChildType'
  BY SameTypes DEF Collect
<1>2. MainType'
  BY DEF Collect, MainType, Location, ctxVars
<1> QED
  BY <1>1, <1>2 DEF TypeOK

(* All transitions are judged.                                               *)
LEMMA CollectDoneType ==
  ASSUME TypeOK, CollectDone
  PROVE  TypeOK'
<1> NetType /\ MainType /\ FireType /\ HITLType /\ ChildType
  BY DEF TypeOK
<1>1. NetType' /\ FireType' /\ HITLType' /\ ChildType'
  BY SameTypes DEF CollectDone
<1>2. MainType'
  BY DEF CollectDone, MainType, Location, ctxVars
<1> QED
  BY <1>1, <1>2 DEF TypeOK

(* One firable transition is re-checked and consumes.                        *)
LEMMA ConsumeType ==
  ASSUME TypeOK, NEW t \in Transition, Consume(t)
  PROVE  TypeOK'
<1> NetType /\ MainType /\ FireType /\ HITLType /\ ChildType
  BY DEF TypeOK
<1>1. HITLType' /\ ChildType'
  BY SameTypes DEF Consume
<1>2. NetType'
  <2>1. CASE effectiveCanFire(t)
    <3>1. \A p \in Place : marking'[p] \in Seq(Token)
      <4> SUFFICES ASSUME NEW p \in Place PROVE marking'[p] \in Seq(Token)
        OBVIOUS
      <4>1. marking[p] \in Seq(Token)
        BY DEF NetType, Marking
      <4>2. marking[p] # <<>> => Tail(marking[p]) \in Seq(Token)
        BY <4>1
      <4> QED
        BY <2>1, <4>1, <4>2 DEF Consume, consumeAll, effectiveCanFire
    <3> QED
      BY <2>1, <3>1 DEF Consume, consumeAll, NetType, Marking
  <2>2. CASE ~effectiveCanFire(t)
    BY <2>2 DEF Consume, NetType
  <2> QED
    BY <2>1, <2>2
<1>3. MainType'
  BY DEF Consume, MainType, Location, ctxVars
<1>4. FireType'
  <2>1. CASE effectiveCanFire(t)
    <3>1. \A p \in InputPlaces[t] : Head(marking[p]) \in Token
      <4> SUFFICES ASSUME NEW p \in InputPlaces[t] PROVE Head(marking[p]) \in Token
        OBVIOUS
      <4>1. marking[p] \in Seq(Token) /\ marking[p] # <<>>
        BY <2>1, NetAssumption DEF NetType, Marking, effectiveCanFire
      <4> QED
        BY <4>1
    <3>2. DOMAIN consumed' = Transition /\ DOMAIN res' = Transition
      BY <2>1 DEF Consume, consumeAll, FireType
    <3>3. fire' \in [Transition -> FireStatus]
      BY <2>1 DEF Consume, FireType, FireStatus
    <3>4. \A u \in Transition : fire'[u] # "idle" => consumed'[u] \in [InputPlaces[u] -> Token]
      <4> SUFFICES ASSUME NEW u \in Transition, fire'[u] # "idle"
                   PROVE  consumed'[u] \in [InputPlaces[u] -> Token]
        OBVIOUS
      <4>1. CASE u = t
        <5>1. consumed'[t] = [p \in InputPlaces[t] |-> Head(marking[p])]
          BY <2>1 DEF Consume, consumeAll, FireType
        <5> QED
          BY <4>1, <5>1, <3>1
      <4>2. CASE u # t
        <5>1. consumed'[u] = consumed[u] /\ fire'[u] = fire[u]
          BY <2>1, <4>2 DEF Consume, consumeAll, FireType
        <5> QED
          BY <5>1 DEF FireType
      <4> QED
        BY <4>1, <4>2
    <3>5. \A u \in Transition : fire'[u] = "deposit" =>
            res'[u] \in [1..Len(OutputPlaces[u]) -> Shape] /\ slot'[u] >= 1
      BY <2>1 DEF Consume, FireType
    <3>6. firedIn' \in [Transition -> Mode] /\ attempt' \in [Transition -> Nat]
          /\ rounds' \in [Transition -> Nat] /\ put' \in [Transition -> Seq(Place)]
      <4>1. firedIn' \in [Transition -> Mode]
        BY <2>1 DEF Consume, FireType, NetType
      <4>2. attempt' \in [Transition -> Nat] /\ rounds' \in [Transition -> Nat]
        <5>1. /\ attempt' = [attempt EXCEPT ![t] = 1] /\ rounds' = [rounds EXCEPT ![t] = 0]
              /\ attempt \in [Transition -> Nat] /\ rounds \in [Transition -> Nat]
          BY <2>1 DEF Consume, FireType
        <5> QED
          BY <5>1
      <4>3. put' \in [Transition -> Seq(Place)]
        <5>1. <<>> \in Seq(Place)
          OBVIOUS
        <5> QED
          BY <2>1, <5>1 DEF Consume, FireType
      <4> QED
        BY <4>1, <4>2, <4>3
    <3> QED
      BY <3>2, <3>3, <3>4, <3>5, <3>6 DEF Consume, FireType
  <2>2. CASE ~effectiveCanFire(t)
    BY <2>2 DEF Consume, FireType
  <2> QED
    BY <2>1, <2>2
<1> QED
  BY <1>1, <1>2, <1>3, <1>4 DEF TypeOK

(* The goroutines are launched.                                              *)
LEMMA LaunchType ==
  ASSUME TypeOK, Launch
  PROVE  TypeOK'
<1> NetType /\ MainType /\ FireType /\ HITLType /\ ChildType
  BY DEF TypeOK
<1>1. NetType' /\ FireType' /\ HITLType' /\ ChildType'
  BY SameTypes DEF Launch
<1>2. MainType'
  BY DEF Launch, MainType, Location, ctxVars
<1> QED
  BY <1>1, <1>2 DEF TypeOK

(* All firings have ended.                                                   *)
LEMMA WaitAllType ==
  ASSUME TypeOK, WaitAll
  PROVE  TypeOK'
<1> NetType /\ MainType /\ FireType /\ HITLType /\ ChildType
  BY DEF TypeOK
<1>1. NetType' /\ FireType' /\ HITLType' /\ ChildType'
  BY SameTypes DEF WaitAll
<1>2. MainType'
  BY DEF WaitAll, MainType, Location, ctxVars
<1> QED
  BY <1>1, <1>2 DEF TypeOK

(* All errors are routed.                                                    *)
LEMMA ErrorsDoneType ==
  ASSUME TypeOK, ErrorsDone
  PROVE  TypeOK'
<1> NetType /\ MainType /\ FireType /\ HITLType /\ ChildType
  BY DEF TypeOK
<1>1. NetType' /\ FireType' /\ HITLType' /\ ChildType'
  BY SameTypes DEF ErrorsDone
<1>2. MainType'
  BY DEF ErrorsDone, MainType, Location, ctxVars
<1> QED
  BY <1>1, <1>2 DEF TypeOK

(* One error of errCh is routed or ends the run.                             *)
LEMMA ProcessErrorType ==
  ASSUME TypeOK, ProcessError
  PROVE  TypeOK'
<1> NetType /\ MainType /\ FireType /\ HITLType /\ ChildType
  BY DEF TypeOK
<1>1. HITLType' /\ ChildType'
  BY SameTypes DEF ProcessError
<1>2. NetType'
  <2> DEFINE t == Head(errs).t
  <2>1. Head(errs) \in [t : Transition, err : Failure]
    BY HeadTail DEF ProcessError, FireType
  <2>2. t \in Transition /\ Head(errs).err \in Failure
    BY <2>1
  <2>3. CASE ErrorPlace[t] = NoPlace
    BY <2>2, <2>3 DEF ProcessError, setFailed, NetType, State, Cause, Failure
  <2>4. CASE ErrorPlace[t] # NoPlace
    <3>1. ErrorPlace[t] \in Place /\ ErrorToken(t, epoch) \in Token
      BY <2>2, <2>4, ErrorTokenType DEF MainType
    <3>2. Deposit(marking, ErrorPlace[t], ErrorToken(t, epoch)) \in Marking
      BY <3>1, DepositType DEF NetType
    <3> QED
      BY <2>4, <3>2 DEF ProcessError, setFailed, NetType, State, Cause, Failure
  <2> QED
    BY <2>3, <2>4
<1>3. MainType'
  <2>1. Head(errs) \in [t : Transition, err : Failure]
    BY HeadTail DEF ProcessError, FireType
  <2>2. Head(errs).err \in Failure
    BY <2>1
  <2> QED
    BY <2>2 DEF ProcessError, Return, MainType, Location, Cause, Failure, ctxVars
<1>4. FireType'
  <2>1. Tail(errs) \in Seq([t : Transition, err : Failure])
    BY DEF ProcessError, FireType
  <2> QED
    BY <2>1 DEF ProcessError, FireType
<1> QED
  BY <1>1, <1>2, <1>3, <1>4 DEF TypeOK

(* The round ends with a new mode.                                           *)
LEMMA checkModeSwitchType ==
  ASSUME TypeOK, checkModeSwitch
  PROVE  TypeOK'
<1> NetType /\ MainType /\ FireType /\ HITLType /\ ChildType
  BY DEF TypeOK
<1>1. HITLType' /\ ChildType'
  BY SameTypes DEF checkModeSwitch
<1>2. NetType'
  BY DEF checkModeSwitch, ModeAfterRound, NetType, Mode
<1>3. MainType'
  BY DEF checkModeSwitch, MainType, Location, ctxVars
<1>4. FireType'
  BY NoFiringsType DEF checkModeSwitch
<1> QED
  BY <1>1, <1>2, <1>3, <1>4 DEF TypeOK

(* Nothing can fire; the terminal places are read.                           *)
LEMMA CheckCompleteType ==
  ASSUME TypeOK, CheckComplete
  PROVE  TypeOK'
<1> NetType /\ MainType /\ FireType /\ HITLType /\ ChildType
  BY DEF TypeOK
<1>1. FireType' /\ HITLType' /\ ChildType'
  BY SameTypes DEF CheckComplete
<1>2. NetType'
  BY DEF CheckComplete, NetType, State
<1>3. MainType'
  BY DEF CheckComplete, Return, MainType, Location, Cause, Failure, ctxVars
<1> QED
  BY <1>1, <1>2, <1>3 DEF TypeOK

(* The counter of children decides between waiting and deadlock.             *)
LEMMA LoadChildrenType ==
  ASSUME TypeOK, LoadChildren
  PROVE  TypeOK'
<1> NetType /\ MainType /\ FireType /\ HITLType /\ ChildType
  BY DEF TypeOK
<1>1. FireType' /\ HITLType' /\ ChildType'
  BY SameTypes DEF LoadChildren
<1>2. NetType'
  BY DEF LoadChildren, setFailed, NetType, State, Cause, Failure
<1>3. MainType'
  BY DEF LoadChildren, Return, MainType, Location, Cause, Failure, ctxVars
<1> QED
  BY <1>1, <1>2, <1>3 DEF TypeOK

(* All children are done.                                                    *)
LEMMA ChildrenWaitType ==
  ASSUME TypeOK, ChildrenWait
  PROVE  TypeOK'
<1> NetType /\ MainType /\ FireType /\ HITLType /\ ChildType
  BY DEF TypeOK
<1>1. FireType' /\ HITLType' /\ ChildType'
  BY SameTypes DEF ChildrenWait
<1>2. NetType'
  BY DEF ChildrenWait, NetType, State
<1>3. MainType'
  BY DEF ChildrenWait, Return, NetType, MainType, Location, Cause, Failure, ctxVars
<1> QED
  BY <1>1, <1>2, <1>3 DEF TypeOK

(* A synchronous node returns.                                               *)
LEMMA ToolReturnsType ==
  ASSUME TypeOK, NEW t \in Transition, ToolReturns(t)
  PROVE  TypeOK'
<1> NetType /\ MainType /\ FireType /\ HITLType /\ ChildType
  BY DEF TypeOK
<1>1. NetType' /\ MainType' /\ HITLType' /\ ChildType'
  BY SameTypes DEF ToolReturns
<1>2. FireType'
  <2>1. PICK r \in Outcome(t, Payloads(t)) : StartDeposit(t, r)
    BY DEF ToolReturns
  <2> QED
    BY <2>1, StartDepositType DEF ToolReturns
<1> QED
  BY <1>1, <1>2 DEF TypeOK

(* A synchronous node fails.                                                 *)
LEMMA ToolFailsType ==
  ASSUME TypeOK, NEW t \in Transition, ToolFails(t)
  PROVE  TypeOK'
<1> NetType /\ MainType /\ FireType /\ HITLType /\ ChildType
  BY DEF TypeOK
<1>1. NetType' /\ MainType' /\ HITLType' /\ ChildType'
  BY SameTypes DEF ToolFails
<1>2. FireType'
  <2>1. PICK e \in Failure : AttemptFails(t, e)
    BY DEF ToolFails, Cause, Failure
  <2> QED
    BY <2>1, AttemptFailsType DEF ToolFails
<1> QED
  BY <1>1, <1>2 DEF TypeOK

(* One output token is deposited or refused.                                 *)
LEMMA FireDepositType ==
  ASSUME TypeOK, NEW t \in Transition, FireDeposit(t)
  PROVE  TypeOK'
<1> NetType /\ MainType /\ FireType /\ HITLType /\ ChildType
  BY DEF TypeOK
<1>1. MainType' /\ HITLType' /\ ChildType'
  BY SameTypes DEF FireDeposit
<1>2. NetType'
  <2> DEFINE p == OutputPlaces[t][slot[t]]
  <2>1. p \in Place /\ Stamped(t, slot[t]) \in Token
    BY StampedType DEF FireDeposit
  <2>2. Deposit(marking, p, Stamped(t, slot[t])) \in Marking
    BY <2>1, DepositType DEF NetType
  <2> QED
    BY <2>2 DEF FireDeposit, NetType
<1>3. FireType'
  <2> DEFINE p == OutputPlaces[t][slot[t]]
  <2>1. p \in Place
    BY StampedType DEF FireDeposit
  <2>2. CASE Accepts(p, Stamped(t, slot[t]))
    <3>1. put' \in [Transition -> Seq(Place)]
      <4>1. put' = [put EXCEPT ![t] = Append(put[t], p)]
        BY <2>2 DEF FireDeposit
      <4>2. put \in [Transition -> Seq(Place)]
        BY DEF FireType
      <4> HIDE DEF p
      <4>3. Append(put[t], p) \in Seq(Place)
        BY <2>1, <4>2, AppendProperties
      <4> QED
        BY <4>1, <4>2, <4>3, Updated
    <3>2. slot' \in [Transition -> Nat] /\ \A u \in Transition : slot[u] >= 1 => slot'[u] >= 1
      <4>1. slot' = [slot EXCEPT ![t] = slot[t] + 1]
        BY <2>2 DEF FireDeposit
      <4>2. slot \in [Transition -> Nat]
        BY DEF FireType
      <4> QED
        BY <4>1, <4>2
    <3> QED
      BY <2>2, <3>1, <3>2 DEF FireDeposit, FireType
  <2>3. CASE ~Accepts(p, Stamped(t, slot[t]))
    <3>1. AttemptFails(t, "deposit") /\ UNCHANGED <<put, slot>>
      BY <2>3 DEF FireDeposit
    <3> QED
      BY <3>1, AttemptFailsType DEF FireDeposit, Cause, Failure
  <2> QED
    BY <2>2, <2>3
<1> QED
  BY <1>1, <1>2, <1>3 DEF TypeOK

(* A firing has deposited all its outputs.                                   *)
LEMMA FireOkType ==
  ASSUME TypeOK, NEW t \in Transition, FireOk(t)
  PROVE  TypeOK'
<1> NetType /\ MainType /\ FireType /\ HITLType /\ ChildType
  BY DEF TypeOK
<1>1. MainType' /\ HITLType' /\ ChildType'
  BY SameTypes DEF FireOk
<1>2. NetType'
  BY DEF FireOk, NetType, Mode
<1>3. FireType'
  BY DEF FireOk, FireType, FireStatus
<1> QED
  BY <1>1, <1>2, <1>3 DEF TypeOK

(* A retry starts.                                                           *)
LEMMA SleepOverType ==
  ASSUME TypeOK, NEW t \in Transition, SleepOver(t)
  PROVE  TypeOK'
<1> NetType /\ MainType /\ FireType /\ HITLType /\ ChildType
  BY DEF TypeOK
<1>1. NetType' /\ MainType' /\ HITLType' /\ ChildType'
  BY SameTypes DEF SleepOver
<1>2. FireType'
  <2>1. /\ fire' = [fire EXCEPT ![t] = "run"]
        /\ attempt' = [attempt EXCEPT ![t] = attempt[t] + 1]
        /\ rounds' = [rounds EXCEPT ![t] = 0]
    BY DEF SleepOver
  <2>2. /\ fire \in [Transition -> FireStatus] /\ "run" \in FireStatus
        /\ attempt \in [Transition -> Nat] /\ rounds \in [Transition -> Nat]
    BY DEF FireType, FireStatus
  <2>3. /\ fire' \in [Transition -> FireStatus]
        /\ attempt' \in [Transition -> Nat] /\ rounds' \in [Transition -> Nat]
    BY <2>1, <2>2
  <2>4. \A u \in Transition : (fire'[u] # "idle" => fire[u] # "idle")
                             /\ (fire'[u] = "deposit" => fire[u] = "deposit")
    BY <2>1, <2>2 DEF SleepOver
  <2> QED
    BY <2>3, <2>4 DEF SleepOver, FireType
<1> QED
  BY <1>1, <1>2 DEF TypeOK

(* A sleeping retry is cancelled.                                            *)
LEMMA SleepCancelledType ==
  ASSUME TypeOK, NEW t \in Transition, SleepCancelled(t)
  PROVE  TypeOK'
<1> NetType /\ MainType /\ FireType /\ HITLType /\ ChildType
  BY DEF TypeOK
<1>1. NetType' /\ MainType' /\ HITLType' /\ ChildType'
  BY SameTypes DEF SleepCancelled
<1>2. FireType'
  <2>1. errs' \in Seq([t : Transition, err : Failure])
    <3>1. errs \in Seq([t : Transition, err : Failure])
      BY DEF FireType
    <3>2. [t |-> t, err |-> "canceled"] \in [t : Transition, err : Failure]
      BY DEF Cause, Failure
    <3> QED
      BY <3>1, <3>2, AppendProperties DEF SleepCancelled
  <2>2. fire' \in [Transition -> FireStatus]
    BY DEF SleepCancelled, FireType, FireStatus
  <2>3. \A u \in Transition : (fire'[u] # "idle" => fire[u] # "idle")
                             /\ (fire'[u] = "deposit" => fire[u] = "deposit")
    BY DEF SleepCancelled, FireType
  <2> QED
    BY <2>1, <2>2, <2>3 DEF SleepCancelled, FireType
<1> QED
  BY <1>1, <1>2 DEF TypeOK

(* A HITL transition asks.                                                   *)
LEMMA HITLAskType ==
  ASSUME TypeOK, NEW t \in Transition, HITLAsk(t)
  PROVE  TypeOK'
<1> NetType /\ MainType /\ FireType /\ HITLType /\ ChildType
  BY DEF TypeOK
<1>1. MainType' /\ HITLType' /\ ChildType'
  BY SameTypes DEF HITLAsk
<1>2. NetType'
  BY DEF HITLAsk, NetType, State
<1>3. FireType'
  BY DEF HITLAsk, FireType, FireStatus
<1> QED
  BY <1>1, <1>2, <1>3 DEF TypeOK

(* A HITL transition receives a response.                                    *)
LEMMA HITLReceiveType ==
  ASSUME TypeOK, NEW t \in Transition, HITLReceive(t)
  PROVE  TypeOK'
<1> NetType /\ MainType /\ FireType /\ HITLType /\ ChildType
  BY DEF TypeOK
<1>1. MainType' /\ ChildType'
  BY SameTypes DEF HITLReceive
<1>2. NetType'
  BY DEF HITLReceive, HITLResponse, RevisionResponse, NetType, State
<1>3. FireType'
  <2> DEFINE a == Head(hitlCh[t]).action
  <2>1. fire[t] = "blocked"
    BY DEF HITLReceive
  <2>2. ASSUME NEW r \in Outcome(t, Payloads(t)), StartDeposit(t, r)
        PROVE  FireType'
    BY <2>1, <2>2, StartDepositType DEF HITLReceive
  <2>3. ASSUME NEW e \in Failure, AttemptFails(t, e), UNCHANGED <<res, slot>>
        PROVE  FireType'
    BY <2>1, <2>3, AttemptFailsType DEF HITLReceive
  <2>4. CASE t \in RevisionLoop
    <3>1. CASE a = "revise" /\ rounds[t] < MaxRevisions
               /\ fire' = [fire EXCEPT ![t] = "revise"] /\ UNCHANGED <<errs, res, slot>>
      BY <3>1, <2>1 DEF HITLReceive, FireType, FireStatus
    <3>2. \/ \E r \in Outcome(t, Payloads(t)) : StartDeposit(t, r)
          \/ \E e \in Failure : AttemptFails(t, e) /\ UNCHANGED <<res, slot>>
          \/ /\ a = "revise" /\ rounds[t] < MaxRevisions
             /\ fire' = [fire EXCEPT ![t] = "revise"] /\ UNCHANGED <<errs, res, slot>>
      BY <2>4 DEF HITLReceive, RevisionResponse, Cause, Failure
    <3> QED
      BY <3>1, <3>2, <2>2, <2>3
  <2>5. CASE t \notin RevisionLoop
    <3>1. \/ \E r \in Outcome(t, Payloads(t)) : StartDeposit(t, r)
          \/ \E e \in Failure : AttemptFails(t, e) /\ UNCHANGED <<res, slot>>
      BY <2>5 DEF HITLReceive, HITLResponse, Cause, Failure
    <3> QED
      BY <3>1, <2>2, <2>3
  <2> QED
    BY <2>4, <2>5
<1>4. HITLType'
  <2>1. Tail(hitlCh[t]) \in Seq([action : HITLAction, epoch : Nat, live : BOOLEAN])
    BY HeadTail DEF HITLReceive, HITLType
  <2> QED
    BY <2>1 DEF HITLReceive, HITLType
<1> QED
  BY <1>1, <1>2, <1>3, <1>4 DEF TypeOK

(* A HITL wait ends with the context.                                        *)
LEMMA HITLTimeoutType ==
  ASSUME TypeOK, NEW t \in Transition, HITLTimeout(t)
  PROVE  TypeOK'
<1> NetType /\ MainType /\ FireType /\ HITLType /\ ChildType
  BY DEF TypeOK
<1>1. MainType' /\ HITLType' /\ ChildType'
  BY SameTypes DEF HITLTimeout
<1>2. NetType'
  BY DEF HITLTimeout, setFailed, NetType, State, Cause, Failure
<1>3. FireType'
  <2>1. PICK e \in Failure : AttemptFails(t, e)
    BY DEF HITLTimeout, Cause, Failure
  <2> QED
    BY <2>1, AttemptFailsType DEF HITLTimeout
<1> QED
  BY <1>1, <1>2, <1>3 DEF TypeOK

(* A draft is revised and the next round asks.                               *)
LEMMA RevisionReturnsType ==
  ASSUME TypeOK, NEW t \in Transition, RevisionReturns(t)
  PROVE  TypeOK'
<1> NetType /\ MainType /\ FireType /\ HITLType /\ ChildType
  BY DEF TypeOK
<1>1. MainType' /\ HITLType' /\ ChildType'
  BY SameTypes DEF RevisionReturns
<1>2. NetType'
  BY DEF RevisionReturns, NetType, State
<1>3. FireType'
  BY DEF RevisionReturns, FireType, FireStatus
<1> QED
  BY <1>1, <1>2, <1>3 DEF TypeOK

(* A revision fails.                                                         *)
LEMMA RevisionFailsType ==
  ASSUME TypeOK, NEW t \in Transition, RevisionFails(t)
  PROVE  TypeOK'
<1> NetType /\ MainType /\ FireType /\ HITLType /\ ChildType
  BY DEF TypeOK
<1>1. NetType' /\ MainType' /\ HITLType' /\ ChildType'
  BY SameTypes DEF RevisionFails
<1>2. FireType'
  <2>1. PICK e \in Failure : AttemptFails(t, e)
    BY DEF RevisionFails, Cause, Failure
  <2> QED
    BY <2>1, AttemptFailsType DEF RevisionFails
<1> QED
  BY <1>1, <1>2 DEF TypeOK

(* A child cannot be made.                                                   *)
LEMMA SpawnFailsType ==
  ASSUME TypeOK, NEW t \in Transition, SpawnFails(t)
  PROVE  TypeOK'
<1> NetType /\ MainType /\ FireType /\ HITLType /\ ChildType
  BY DEF TypeOK
<1>1. NetType' /\ MainType' /\ HITLType' /\ ChildType'
  BY SameTypes DEF SpawnFails
<1>2. FireType'
  <2>1. PICK e \in Failure : AttemptFails(t, e)
    BY DEF SpawnFails, Cause, Failure
  <2> QED
    BY <2>1, AttemptFailsType DEF SpawnFails
<1> QED
  BY <1>1, <1>2 DEF TypeOK

(* A child goroutine starts.                                                 *)
LEMMA SpawnChildType ==
  ASSUME TypeOK, NEW t \in Transition, NEW i \in Child, SpawnChild(t, i)
  PROVE  TypeOK'
<1> NetType /\ MainType /\ FireType /\ HITLType /\ ChildType
  BY DEF TypeOK
<1>1. NetType' /\ MainType' /\ HITLType'
  BY SameTypes DEF SpawnChild
<1>2. FireType'
  BY DEF SpawnChild, FireType, FireStatus
<1>3. ChildType'
  <2>1. child' \in [Child -> ChildStatus] /\ DOMAIN owner' = Child
    BY DEF SpawnChild, ChildType, ChildStatus
  <2>2. \A j \in Child : child'[j] # "free" => owner'[j] \in Transition
    BY DEF SpawnChild, ChildType
  <2>3. \A j \in Child : child'[j] = "deposit" => child[j] = "deposit"
    BY DEF SpawnChild, ChildType
  <2>4. born' \in [Child -> Nat] /\ emitted' \in [Child -> Nat] /\ activeChildren' \in Int
    BY DEF SpawnChild, ChildType, MainType
  <2> QED
    BY <2>1, <2>2, <2>3, <2>4 DEF SpawnChild, ChildType
<1> QED
  BY <1>1, <1>2, <1>3 DEF TypeOK

(* A child emits an event.                                                   *)
LEMMA ChildEmitType ==
  ASSUME TypeOK, NEW i \in Child, ChildEmit(i)
  PROVE  TypeOK'
<1> NetType /\ MainType /\ FireType /\ HITLType /\ ChildType
  BY DEF TypeOK
<1>1. NetType' /\ MainType' /\ FireType' /\ HITLType'
  BY SameTypes DEF ChildEmit
<1>2. ChildType'
  <2>1. bus' \in [Child -> Nat]
    BY BoundAssumption DEF ChildEmit, ChildType
  <2>2. emitted' \in [Child -> Nat]
    BY DEF ChildEmit, ChildType
  <2> QED
    BY <2>1, <2>2 DEF ChildEmit, ChildType
<1> QED
  BY <1>1, <1>2 DEF TypeOK

(* A child run ends well.                                                    *)
LEMMA ChildSucceedsType ==
  ASSUME TypeOK, NEW i \in Child, ChildSucceeds(i)
  PROVE  TypeOK'
<1> NetType /\ MainType /\ FireType /\ HITLType /\ ChildType
  BY DEF TypeOK
<1>1. NetType' /\ MainType' /\ FireType' /\ HITLType'
  BY SameTypes DEF ChildSucceeds
<1>2. ChildType'
  <2>1. owner[i] \in Transition
    BY DEF ChildSucceeds, ChildType
  <2>2. PICK toks \in ChildOutcome[owner[i]] :
          pay' = [pay EXCEPT ![i] = toks] /\ lot' = [lot EXCEPT ![i] = toks]
    BY DEF ChildSucceeds
  <2>3. toks \in Seq([val : Val, hitl : BOOLEAN]) /\ toks # <<>>
    BY <2>1, BehaviourAssumption
  <2>4. OutputPlaces[owner[i]] \in Seq(Place)
    BY <2>1, NetAssumption
  <2>5. \A j \in Child : (child'[j] # "free" => child[j] # "free")
                        /\ (child'[j] = "deposit" => j = i \/ child[j] = "deposit")
    BY DEF ChildSucceeds, ChildType
  <2>6. \A j \in Child : child'[j] = "deposit" => pay'[j] # <<>> /\ lot'[j] # <<>>
    BY <2>2, <2>3, <2>5 DEF ChildType
  <2>7. /\ pay' \in [Child -> Seq([val : Val, hitl : BOOLEAN])]
        /\ lot' \in [Child -> Seq([val : Val, hitl : BOOLEAN])]
    BY <2>2, <2>3 DEF ChildType
  <2>8. outbox' \in [Child -> Seq(Place)] /\ child' \in [Child -> ChildStatus]
    BY <2>4 DEF ChildSucceeds, ChildType, ChildStatus
  <2> QED
    BY <2>5, <2>6, <2>7, <2>8 DEF ChildSucceeds, ChildType
<1> QED
  BY <1>1, <1>2 DEF TypeOK

(* A child run fails.                                                        *)
LEMMA ChildFailsType ==
  ASSUME TypeOK, NEW i \in Child, ChildFails(i)
  PROVE  TypeOK'
<1> NetType /\ MainType /\ FireType /\ HITLType /\ ChildType
  BY DEF TypeOK
<1>1. NetType' /\ MainType' /\ FireType' /\ HITLType'
  BY SameTypes DEF ChildFails
<1>2. ChildType'
  BY DEF ChildFails, ChildType, ChildStatus
<1> QED
  BY <1>1, <1>2 DEF TypeOK

(* A failed child reports to its parent.                                     *)
LEMMA ChildFailureType ==
  ASSUME TypeOK, NEW i \in Child, ChildFailure(i)
  PROVE  TypeOK'
<1> NetType /\ MainType /\ FireType /\ HITLType /\ ChildType
  BY DEF TypeOK
<1>1. MainType' /\ FireType' /\ HITLType'
  BY SameTypes DEF ChildFailure
<1>2. NetType'
  <2>1. owner[i] \in Transition
    BY DEF ChildFailure, ChildType
  <2>2. CASE ErrorPlace[owner[i]] = NoPlace
    BY <2>2 DEF ChildFailure, setFailed, NetType, State, Cause, Failure
  <2>3. CASE ErrorPlace[owner[i]] # NoPlace
    <3>1. ErrorPlace[owner[i]] \in Place /\ ErrorToken(owner[i], born[i]) \in Token
      BY <2>1, <2>3, ErrorTokenType DEF ChildType
    <3>2. Deposit(marking, ErrorPlace[owner[i]], ErrorToken(owner[i], born[i])) \in Marking
      BY <3>1, DepositType DEF NetType
    <3> QED
      BY <2>3, <3>2 DEF ChildFailure, NetType
  <2> QED
    BY <2>2, <2>3
<1>3. ChildType'
  BY DEF ChildFailure, ChildType, ChildStatus
<1> QED
  BY <1>1, <1>2, <1>3 DEF TypeOK

(* A child deposits one token.                                               *)
LEMMA ChildDepositType ==
  ASSUME TypeOK, NEW i \in Child, ChildDeposit(i)
  PROVE  TypeOK'
<1> NetType /\ MainType /\ FireType /\ HITLType /\ ChildType
  BY DEF TypeOK
<1>1. MainType' /\ FireType' /\ HITLType'
  BY SameTypes DEF ChildDeposit
<1>2. NetType'
  <2>1. Head(outbox[i]) \in Place
    BY DEF ChildDeposit, ChildType
  <2>2. Head(lot[i]) \in [val : Val, hitl : BOOLEAN]
    BY HeadTail DEF ChildDeposit, ChildType
  <2>3. Fitted(Head(outbox[i]), Head(lot[i]).val, Head(lot[i]).hitl, born[i]) \in Token
    BY <2>1, <2>2, FittedType DEF ChildType
  <2> QED
    BY <2>1, <2>3, DepositType DEF ChildDeposit, NetType
<1>3. ChildType'
  <2>1. pay[i] \in Seq([val : Val, hitl : BOOLEAN]) /\ pay[i] # <<>>
    BY DEF ChildDeposit, ChildType
  <2>2. lot[i] \in Seq([val : Val, hitl : BOOLEAN]) /\ lot[i] # <<>>
    BY DEF ChildDeposit, ChildType
  <2>3. /\ Tail(lot[i]) \in Seq([val : Val, hitl : BOOLEAN])
        /\ Len(lot[i]) # 1 => Tail(lot[i]) # <<>>
    BY <2>2, HeadTail
  <2>4. Tail(outbox[i]) \in Seq(Place)
    BY DEF ChildDeposit, ChildType
  <2>5. lot' \in [Child -> Seq([val : Val, hitl : BOOLEAN])]
    BY <2>1, <2>3 DEF ChildDeposit, ChildType
  <2>6. \A j \in Child : child[j] = "deposit" => lot'[j] # <<>>
    BY <2>1, <2>3 DEF ChildDeposit, ChildType
  <2>7. outbox' \in [Child -> Seq(Place)]
    BY <2>4 DEF ChildDeposit, ChildType
  <2> QED
    BY <2>5, <2>6, <2>7 DEF ChildDeposit, ChildType
<1> QED
  BY <1>1, <1>2, <1>3 DEF TypeOK

(* A child has deposited everything.                                         *)
LEMMA ChildDeliveredType ==
  ASSUME TypeOK, NEW i \in Child, ChildDelivered(i)
  PROVE  TypeOK'
<1> NetType /\ MainType /\ FireType /\ HITLType /\ ChildType
  BY DEF TypeOK
<1>1. NetType' /\ MainType' /\ FireType' /\ HITLType'
  BY SameTypes DEF ChildDelivered
<1>2. ChildType'
  BY DEF ChildDelivered, ChildType, ChildStatus
<1> QED
  BY <1>1, <1>2 DEF TypeOK

(* A child leaves the group.                                                 *)
LEMMA ChildDeregisterType ==
  ASSUME TypeOK, NEW i \in Child, ChildDeregister(i)
  PROVE  TypeOK'
<1> NetType /\ MainType /\ FireType /\ HITLType /\ ChildType
  BY DEF TypeOK
<1>1. NetType' /\ MainType' /\ FireType' /\ HITLType'
  BY SameTypes DEF ChildDeregister, ChildUnwind
<1>2. ChildType'
  <2>1. child' \in [Child -> ChildStatus] /\ activeChildren' \in Int
    BY DEF ChildDeregister, ChildUnwind, ChildType, ChildStatus
  <2>2. \A j \in Child : (child'[j] # "free" => child[j] # "free")
                        /\ (child'[j] = "deposit" => child[j] = "deposit")
    BY DEF ChildDeregister, ChildUnwind, ChildType
  <2> QED
    BY <2>1, <2>2 DEF ChildDeregister, ChildUnwind, ChildType
<1> QED
  BY <1>1, <1>2 DEF TypeOK

(* A child closes its bus.                                                   *)
LEMMA ChildCloseBusType ==
  ASSUME TypeOK, NEW i \in Child, ChildCloseBus(i)
  PROVE  TypeOK'
<1> NetType /\ MainType /\ FireType /\ HITLType /\ ChildType
  BY DEF TypeOK
<1>1. NetType' /\ MainType' /\ FireType' /\ HITLType'
  BY SameTypes DEF ChildCloseBus, ChildUnwind
<1>2. ChildType'
  <2>1. child' \in [Child -> ChildStatus] /\ activeChildren' \in Int
    BY DEF ChildCloseBus, ChildUnwind, ChildType, ChildStatus
  <2>2. \A j \in Child : (child'[j] # "free" => child[j] # "free")
                        /\ (child'[j] = "deposit" => child[j] = "deposit")
    BY DEF ChildCloseBus, ChildUnwind, ChildType
  <2> QED
    BY <2>1, <2>2 DEF ChildCloseBus, ChildUnwind, ChildType
<1> QED
  BY <1>1, <1>2 DEF TypeOK

(* A child leaves the counter.                                               *)
LEMMA ChildDecType ==
  ASSUME TypeOK, NEW i \in Child, ChildDec(i)
  PROVE  TypeOK'
<1> NetType /\ MainType /\ FireType /\ HITLType /\ ChildType
  BY DEF TypeOK
<1>1. NetType' /\ MainType' /\ FireType' /\ HITLType'
  BY SameTypes DEF ChildDec, ChildUnwind
<1>2. ChildType'
  <2>1. child' \in [Child -> ChildStatus] /\ activeChildren' \in Int
    BY DEF ChildDec, ChildUnwind, ChildType, ChildStatus
  <2>2. \A j \in Child : (child'[j] # "free" => child[j] # "free")
                        /\ (child'[j] = "deposit" => child[j] = "deposit")
    BY DEF ChildDec, ChildUnwind, ChildType
  <2> QED
    BY <2>1, <2>2 DEF ChildDec, ChildUnwind, ChildType
<1> QED
  BY <1>1, <1>2 DEF TypeOK

(* A child goroutine ends.                                                   *)
LEMMA ChildDoneType ==
  ASSUME TypeOK, NEW i \in Child, ChildDone(i)
  PROVE  TypeOK'
<1> NetType /\ MainType /\ FireType /\ HITLType /\ ChildType
  BY DEF TypeOK
<1>1. NetType' /\ MainType' /\ FireType' /\ HITLType'
  BY SameTypes DEF ChildDone, ChildUnwind
<1>2. ChildType'
  <2>1. child' \in [Child -> ChildStatus] /\ activeChildren' \in Int
    BY DEF ChildDone, ChildUnwind, ChildType, ChildStatus
  <2>2. \A j \in Child : (child'[j] # "free" => child[j] # "free")
                        /\ (child'[j] = "deposit" => child[j] = "deposit")
    BY DEF ChildDone, ChildUnwind, ChildType
  <2> QED
    BY <2>1, <2>2 DEF ChildDone, ChildUnwind, ChildType
<1> QED
  BY <1>1, <1>2 DEF TypeOK

(* A human answers.                                                          *)
LEMMA RespondType ==
  ASSUME TypeOK, NEW t \in Transition, NEW a \in HITLAction, Respond(t, a)
  PROVE  TypeOK'
<1> NetType /\ MainType /\ FireType /\ HITLType /\ ChildType
  BY DEF TypeOK
<1>1. NetType' /\ MainType' /\ FireType' /\ ChildType'
  BY SameTypes DEF Respond
<1>2. HITLType'
  <2>1. [action |-> a, epoch |-> epoch, live |-> fire[t] = "blocked"]
          \in [action : HITLAction, epoch : Nat, live : BOOLEAN]
    BY DEF MainType
  <2>2. hitlCh[t] \in Seq([action : HITLAction, epoch : Nat, live : BOOLEAN])
    BY DEF HITLType
  <2>3. Append(hitlCh[t], [action |-> a, epoch |-> epoch, live |-> fire[t] = "blocked"])
          \in Seq([action : HITLAction, epoch : Nat, live : BOOLEAN])
    BY <2>1, <2>2, AppendProperties
  <2>4. hitlCh' \in [Transition -> Seq([action : HITLAction, epoch : Nat, live : BOOLEAN])]
    BY <2>3, Updated DEF Respond, HITLType
  <2>5. sent' \in Nat
    <3>1. sent \in Nat /\ sent' = sent + 1
      BY DEF Respond, HITLType
    <3> QED
      BY <3>1
  <2> QED
    BY <2>4, <2>5 DEF HITLType
<1> QED
  BY <1>1, <1>2 DEF TypeOK

(* The context is cancelled.                                                 *)
LEMMA CancelType ==
  ASSUME TypeOK, Cancel
  PROVE  TypeOK'
<1> NetType /\ MainType /\ FireType /\ HITLType /\ ChildType
  BY DEF TypeOK
<1>1. NetType' /\ FireType' /\ HITLType' /\ ChildType'
  BY SameTypes DEF Cancel
<1>2. MainType'
  BY DEF Cancel, MainType, mainVars
<1> QED
  BY <1>1, <1>2 DEF TypeOK

(* The next message resets the net.                                          *)
LEMMA ResetType ==
  ASSUME TypeOK, Reset
  PROVE  TypeOK'
<1> NetType /\ MainType /\ FireType /\ HITLType /\ ChildType
  BY DEF TypeOK
<1>1. HITLType' /\ ChildType'
  BY SameTypes DEF Reset
<1>2. NetType'
  <2>1. epoch' \in Nat
    BY DEF Reset, MainType
  <2>2. marking' \in Marking
    BY <2>1, SeedType DEF Reset
  <2> QED
    BY <2>2, BehaviourAssumption DEF Reset, NetType, State, Cause, Failure
<1>3. MainType'
  <2>1. /\ epoch' = epoch + 1 /\ ctxDone' = FALSE /\ pc' = "ready"
        /\ result' = "running" /\ todo' = {} /\ UNCHANGED <<undrained, scan, firable>>
    BY DEF Reset
  <2>2. epoch' \in Nat
    BY <2>1 DEF MainType
  <2>3. ctxDone' \in BOOLEAN
    BY <2>1
  <2>4. pc' \in Location /\ result' \in Cause \cup {"running"} /\ todo' \subseteq Transition
    BY <2>1 DEF Location
  <2>5. undrained' \subseteq Child /\ scan' \subseteq Transition /\ firable' \subseteq Transition
    BY <2>1 DEF MainType
  <2> QED
    BY <2>2, <2>3, <2>4, <2>5 DEF MainType
<1>4. FireType'
  BY NoFiringsType DEF Reset
<1> QED
  BY <1>1, <1>2, <1>3, <1>4 DEF TypeOK

(* Every step keeps the types.                                              *)
LEMMA StepType == TypeOK /\ [Next]_vars => TypeOK'
<1> SUFFICES ASSUME TypeOK, [Next]_vars PROVE TypeOK'
  OBVIOUS
<1>1. CASE Main
  BY <1>1,
     RunStartType, LoopTimeoutType, LoopTopType, DrainDoneType, CollectDoneType, LaunchType,
     WaitAllType, ProcessErrorType, ErrorsDoneType, checkModeSwitchType, CheckCompleteType,
     LoadChildrenType, ChildrenWaitType
  DEF Main
<1>2. ASSUME NEW t \in Transition, Collect(t) \/ Consume(t) PROVE TypeOK'
  BY <1>2, CollectType, ConsumeType
<1>3. ASSUME NEW t \in Transition, Firing(t) PROVE TypeOK'
  BY <1>3, SpawnChildType,
     ToolReturnsType, ToolFailsType, FireDepositType, FireOkType, SleepOverType,
     SleepCancelledType, HITLAskType, HITLReceiveType, HITLTimeoutType, RevisionReturnsType,
     RevisionFailsType, SpawnFailsType
  DEF Firing
<1>4. ASSUME NEW i \in Child, DrainBus(i) \/ ChildEmit(i) PROVE TypeOK'
  BY <1>4, DrainBusType, ChildEmitType
<1>5. ASSUME NEW i \in Child, ChildStep(i) PROVE TypeOK'
  BY <1>5,
     ChildSucceedsType, ChildFailsType, ChildFailureType, ChildDepositType, ChildDeliveredType,
     ChildDeregisterType, ChildCloseBusType, ChildDecType, ChildDoneType
  DEF ChildStep
<1>6. ASSUME NEW t \in Transition, NEW a \in HITLAction, Respond(t, a) PROVE TypeOK'
  BY <1>6, RespondType
<1>7. CASE Cancel
  BY <1>7, CancelType
<1>8. CASE Reset
  BY <1>8, ResetType
<1>9. CASE UNCHANGED vars
  BY <1>9, SameTypes DEF TypeOK, vars
<1> QED
  BY <1>1, <1>2, <1>3, <1>4, <1>5, <1>6, <1>7, <1>8, <1>9 DEF Next

(* The executor is type correct: every token, queue, counter and goroutine  *)
(* status stays in its declared range in every run of every net.            *)
THEOREM TypeCorrect == Spec => []TypeOK
<1>1. Init => TypeOK
  BY InitType
<1>2. TypeOK /\ [Next]_vars => TypeOK'
  BY StepType
<1> QED
  BY <1>1, <1>2, PTL DEF Spec
-----------------------------------------------------------------------------
(* Where the firings of a round stand at each location of Run.              *)
FiringPhase ==
  /\ pc \in {"ready", "loop", "drain", "collect", "check", "load", "childwait"} =>
       \A t \in Transition : fire[t] = "idle"
  /\ pc = "consume" => \A t \in Transition : fire[t] \in {"idle", "run"}
  /\ pc \in {"errors", "mode", "returned"} => \A t \in Transition : fire[t] \in Settled

(* A failed firing without an ErrorPlace still has its error in errCh.      *)
ErrorsPending ==
  pc \in {"wait", "errors"} =>
    \A t \in Transition : fire[t] = "err" =>
      ErrorPlace[t] # NoPlace \/ \E k \in 1..Len(errs) : errs[k].t = t

(* What a step of a firing goroutine does to the statuses and to errCh.     *)
FiringEffect(t, s) ==
  /\ fire' = [fire EXCEPT ![t] = s]
  /\ s = "err" => \E e : errs' = Append(errs, [t |-> t, err |-> e])
  /\ s # "err" => UNCHANGED errs

(* Every step of a firing goroutine has such an effect and leaves the main  *)
(* goroutine where it waits.                                                *)
LEMMA FiringShape ==
  ASSUME FireType, NEW t \in Transition, Firing(t)
  PROVE  pc = "wait" /\ UNCHANGED mainVars /\ \E s \in FireStatus : FiringEffect(t, s)
<1>1. ASSUME NEW e, AttemptFails(t, e)
      PROVE  \E s \in FireStatus : FiringEffect(t, s)
  <2>1. FiringEffect(t, "sleep") \/ FiringEffect(t, "err")
    BY <1>1 DEF AttemptFails, FiringEffect
  <2> QED
    BY <2>1 DEF FireStatus
<1>2. ASSUME NEW r, StartDeposit(t, r)
      PROVE  \E s \in FireStatus : FiringEffect(t, s)
  <2>1. FiringEffect(t, "deposit")
    BY <1>2 DEF StartDeposit, FiringEffect
  <2> QED
    BY <2>1 DEF FireStatus
<1>3. pc = "wait" /\ UNCHANGED mainVars
  BY DEF Firing, ToolReturns, ToolFails, FireDeposit, FireOk, SleepOver, SleepCancelled, HITLAsk,
         HITLReceive, HITLTimeout, RevisionReturns, RevisionFails, SpawnFails, SpawnChild
<1>4. CASE ToolReturns(t)
  BY <1>2, <1>3, <1>4 DEF ToolReturns
<1>5. CASE ToolFails(t) \/ HITLTimeout(t) \/ RevisionFails(t) \/ SpawnFails(t)
  BY <1>1, <1>3, <1>5 DEF ToolFails, HITLTimeout, RevisionFails, SpawnFails
<1>6. CASE FireDeposit(t)
  <2>1. CASE Accepts(OutputPlaces[t][slot[t]], Stamped(t, slot[t]))
    <3>1. UNCHANGED <<fire, errs>> /\ fire[t] = "deposit"
      BY <1>6, <2>1 DEF FireDeposit
    <3>2. FiringEffect(t, "deposit")
      BY <3>1 DEF FiringEffect, FireType
    <3> QED
      BY <1>3, <3>2 DEF FireStatus
  <2>2. CASE ~Accepts(OutputPlaces[t][slot[t]], Stamped(t, slot[t]))
    BY <1>1, <1>3, <1>6, <2>2 DEF FireDeposit
  <2> QED
    BY <2>1, <2>2
<1>7. CASE FireOk(t) \/ SleepOver(t) \/ HITLAsk(t) \/ RevisionReturns(t)
           \/ \E i \in Child : SpawnChild(t, i)
  <2>1. FiringEffect(t, "ok") \/ FiringEffect(t, "run") \/ FiringEffect(t, "blocked")
    BY <1>7 DEF FireOk, SleepOver, HITLAsk, RevisionReturns, SpawnChild, FiringEffect
  <2> QED
    BY <1>3, <2>1 DEF FireStatus
<1>8. CASE SleepCancelled(t)
  <2>1. FiringEffect(t, "err")
    BY <1>8 DEF SleepCancelled, FiringEffect
  <2> QED
    BY <1>3, <2>1 DEF FireStatus
<1>9. CASE HITLReceive(t)
  <2>1. CASE t \in RevisionLoop
    <3>1. \/ \E r : StartDeposit(t, r)
          \/ \E e : AttemptFails(t, e)
          \/ FiringEffect(t, "revise")
      BY <1>9, <2>1 DEF HITLReceive, RevisionResponse, FiringEffect
    <3> QED
      BY <1>1, <1>2, <1>3, <3>1 DEF FireStatus
  <2>2. CASE t \notin RevisionLoop
    <3>1. (\E r : StartDeposit(t, r)) \/ (\E e : AttemptFails(t, e))
      BY <1>9, <2>2 DEF HITLReceive, HITLResponse
    <3> QED
      BY <1>1, <1>2, <1>3, <3>1
  <2> QED
    BY <2>1, <2>2
<1> QED
  BY <1>4, <1>5, <1>6, <1>7, <1>8, <1>9 DEF Firing

(* The other goroutines and the environment touch no firing.                *)
LEMMA OtherShape ==
  ASSUME \/ \E t \in Transition : Collect(t) \/ \E a \in HITLAction : Respond(t, a)
         \/ \E i \in Child : DrainBus(i) \/ ChildEmit(i) \/ ChildStep(i)
         \/ Cancel
         \/ UNCHANGED vars
  PROVE  UNCHANGED <<pc, fire, errs>>
BY DEF Collect, Respond, DrainBus, ChildEmit, ChildStep, ChildSucceeds, ChildFails, ChildFailure,
       ChildDeposit, ChildDelivered, ChildDeregister, ChildCloseBus, ChildDec, ChildDone,
       ChildUnwind, Cancel, vars, mainVars, fireVars

(* The phases of a round are kept by every step.                            *)
LEMMA PhaseStep == TypeOK /\ FiringPhase /\ [Next]_vars => FiringPhase'
<1> SUFFICES ASSUME TypeOK, FiringPhase, [Next]_vars PROVE FiringPhase'
  OBVIOUS
<1>0. FireType /\ fire \in [Transition -> FireStatus]
  BY DEF TypeOK, FireType
<1>1. CASE Main
  <2>1. CASE WaitAll
    BY <2>1 DEF WaitAll, FiringPhase, fireVars, Settled
  <2>2. CASE checkModeSwitch
    BY <2>2 DEF checkModeSwitch, NoFirings, FiringPhase
  <2>3. CASE Launch
    BY <2>3 DEF Launch, FiringPhase, fireVars
  <2>4. CASE ProcessError
    BY <2>4 DEF ProcessError, Return, FiringPhase
  <2>5. CASE RunStart \/ LoopTimeout \/ LoopTop \/ DrainDone \/ CollectDone \/ ErrorsDone
             \/ CheckComplete \/ LoadChildren \/ ChildrenWait
    <3>1. UNCHANGED fire
      BY <2>5 DEF RunStart, LoopTimeout, LoopTop, DrainDone, CollectDone, ErrorsDone, CheckComplete,
                  LoadChildren, ChildrenWait, fireVars
    <3>2. \/ /\ pc \in {"ready", "loop", "drain", "collect", "check", "load", "childwait"}
             /\ pc' \in Location
          \/ pc = "errors" /\ pc' = "mode"
      BY <2>5, TypeOK, StepType DEF RunStart, LoopTimeout, LoopTop, DrainDone, CollectDone, ErrorsDone,
            CheckComplete, LoadChildren, ChildrenWait, TypeOK, MainType
    <3> QED
      BY <3>1, <3>2 DEF FiringPhase, Settled, Location
  <2> QED
    BY <1>1, <2>1, <2>2, <2>3, <2>4, <2>5 DEF Main
<1>2. ASSUME NEW t \in Transition, Consume(t) PROVE FiringPhase'
  <2>1. pc = "consume" /\ UNCHANGED pc
    BY <1>2 DEF Consume
  <2>2. UNCHANGED fire \/ fire' = [fire EXCEPT ![t] = "run"]
    BY <1>2 DEF Consume
  <2> QED
    BY <1>0, <2>1, <2>2 DEF FiringPhase
<1>3. ASSUME NEW t \in Transition, Firing(t) PROVE FiringPhase'
  BY <1>0, <1>3, FiringShape DEF mainVars, FiringPhase
<1>4. CASE \/ \E t \in Transition : Collect(t) \/ \E a \in HITLAction : Respond(t, a)
           \/ \E i \in Child : DrainBus(i) \/ ChildEmit(i) \/ ChildStep(i)
           \/ Cancel
           \/ UNCHANGED vars
  BY <1>4, OtherShape DEF FiringPhase
<1>5. CASE Reset
  BY <1>5 DEF Reset, NoFirings, FiringPhase
<1> QED
  BY <1>1, <1>2, <1>3, <1>4, <1>5 DEF Next

(* RoundBarrier: whenever the main goroutine judges firability, completion  *)
(* or mode, the goroutines of the last round have all ended.                *)
THEOREM RoundBarrierHolds == Spec => []RoundBarrier
<1>1. Init => FiringPhase
  BY DEF Init, FiringPhase
<1>2. TypeOK /\ FiringPhase => RoundBarrier
  BY DEF TypeOK, MainType, Location, FiringPhase, RoundBarrier, Settled
<1> QED
  BY <1>1, <1>2, TypeCorrect, PhaseStep, PTL DEF Spec

(* Errors stay pending until they are routed.                               *)
LEMMA PendingStep ==
  TypeOK /\ FiringPhase /\ ErrorsPending /\ FailuresRouted /\ [Next]_vars =>
    ErrorsPending' /\ FailuresRouted'
<1> SUFFICES ASSUME TypeOK, FiringPhase, ErrorsPending, FailuresRouted, [Next]_vars
             PROVE  ErrorsPending' /\ FailuresRouted'
  OBVIOUS
<1>0. FireType /\ fire \in [Transition -> FireStatus] /\ errs \in Seq([t : Transition, err : Failure])
  BY DEF TypeOK, FireType
<1>1. CASE Main
  <2>1. CASE ProcessError
    <3>1. errs # <<>> /\ errs' = Tail(errs) /\ UNCHANGED fire /\ pc = "errors"
      BY <2>1 DEF ProcessError
    <3>2. pc' # "mode"
      BY <2>1, <3>1 DEF ProcessError, Return
    <3>3. CASE pc' = "returned"
      BY <3>3 DEF ErrorsPending, FailuresRouted
    <3>4. CASE pc' = "errors"
      <4>1. ErrorPlace[Head(errs).t] # NoPlace
        BY <2>1, <3>4 DEF ProcessError, Return
      <4> SUFFICES ASSUME NEW t \in Transition, fire[t] = "err", ErrorPlace[t] = NoPlace
                   PROVE  \E k \in 1..Len(errs') : errs'[k].t = t
        BY <3>1, <3>2 DEF ErrorsPending, FailuresRouted
      <4>2. PICK k \in 1..Len(errs) : errs[k].t = t
        BY <3>1 DEF ErrorsPending
      <4>3. k # 1
        BY <4>1, <4>2, <1>0, <3>1
      <4>4. /\ Len(Tail(errs)) = Len(errs) - 1 /\ Len(errs) \in Nat
            /\ \A n \in 1..Len(Tail(errs)) : Tail(errs)[n] = errs[n + 1]
        BY <1>0, <3>1, HeadTailProperties
      <4>5. k - 1 \in 1..Len(Tail(errs)) /\ Tail(errs)[k - 1] = errs[k]
        BY <4>2, <4>3, <4>4
      <4> QED
        BY <3>1, <4>2, <4>5
    <3> QED
      BY <2>1, <3>3, <3>4, <3>1 DEF ProcessError, Return
  <2>2. CASE ErrorsDone
    <3>1. UNCHANGED fire /\ pc = "errors" /\ errs = <<>> /\ pc' = "mode"
      BY <2>2 DEF ErrorsDone, fireVars
    <3>2. Len(errs) = 0
      BY <1>0, <3>1, EmptySeq
    <3> QED
      BY <3>1, <3>2 DEF ErrorsPending, FailuresRouted
  <2>3. CASE WaitAll
    BY <2>3 DEF WaitAll, fireVars, ErrorsPending, FailuresRouted
  <2>4. CASE checkModeSwitch
    BY <2>4 DEF checkModeSwitch, ErrorsPending, FailuresRouted
  <2>5. CASE Launch
    BY <2>5 DEF Launch, fireVars, FiringPhase, ErrorsPending, FailuresRouted
  <2>6. CASE RunStart \/ LoopTimeout \/ LoopTop \/ DrainDone \/ CollectDone
             \/ CheckComplete \/ LoadChildren \/ ChildrenWait
    <3>1. pc' \notin {"wait", "errors", "mode"}
      BY <2>6 DEF RunStart, LoopTimeout, LoopTop, DrainDone, CollectDone, CheckComplete, LoadChildren,
                  ChildrenWait, Return
    <3> QED
      BY <3>1 DEF ErrorsPending, FailuresRouted
  <2> QED
    BY <1>1, <2>1, <2>2, <2>3, <2>4, <2>5, <2>6 DEF Main
<1>2. ASSUME NEW t \in Transition, Consume(t) PROVE ErrorsPending' /\ FailuresRouted'
  BY <1>2 DEF Consume, ErrorsPending, FailuresRouted
<1>3. ASSUME NEW t \in Transition, Firing(t) PROVE ErrorsPending' /\ FailuresRouted'
  <2>1. pc = "wait" /\ pc' = "wait"
    BY <1>0, <1>3, FiringShape DEF mainVars
  <2>2. PICK s \in FireStatus : FiringEffect(t, s)
    BY <1>0, <1>3, FiringShape
  <2>3. CASE s # "err"
    BY <1>0, <2>1, <2>2, <2>3 DEF FiringEffect, ErrorsPending, FailuresRouted
  <2>4. CASE s = "err"
    <3>1. PICK e : errs' = Append(errs, [t |-> t, err |-> e])
      BY <2>2, <2>4 DEF FiringEffect
    <3>2. /\ Len(errs') = Len(errs) + 1 /\ Len(errs) \in Nat
          /\ errs'[Len(errs) + 1] = [t |-> t, err |-> e]
          /\ \A k \in 1..Len(errs) : errs'[k] = errs[k]
      BY <1>0, <3>1
    <3>3. \E k \in 1..Len(errs') : errs'[k].t = t
      BY <3>2
    <3>4. \A u \in Transition : (\E k \in 1..Len(errs) : errs[k].t = u) =>
                                 \E k \in 1..Len(errs') : errs'[k].t = u
      BY <3>2
    <3>5. \A u \in Transition \ {t} : fire'[u] = fire[u]
      BY <1>0, <2>2 DEF FiringEffect
    <3> QED
      BY <2>1, <3>3, <3>4, <3>5 DEF ErrorsPending, FailuresRouted
  <2> QED
    BY <2>3, <2>4
<1>4. CASE \/ \E t \in Transition : Collect(t) \/ \E a \in HITLAction : Respond(t, a)
           \/ \E i \in Child : DrainBus(i) \/ ChildEmit(i) \/ ChildStep(i)
           \/ Cancel
           \/ UNCHANGED vars
  BY <1>4, OtherShape DEF ErrorsPending, FailuresRouted
<1>5. CASE Reset
  BY <1>5 DEF Reset, ErrorsPending, FailuresRouted
<1> QED
  BY <1>1, <1>2, <1>3, <1>4, <1>5 DEF Next

(* FailuresRouted: no round goes on with a failure that nobody handled.     *)
THEOREM FailuresRoutedHolds == Spec => []FailuresRouted
<1>1. Init => FiringPhase /\ ErrorsPending /\ FailuresRouted
  BY DEF Init, FiringPhase, ErrorsPending, FailuresRouted
<1> QED
  BY <1>1, TypeCorrect, PhaseStep, PendingStep, PTL DEF Spec
-----------------------------------------------------------------------------
(* A step that adds one accepted token to one place.                        *)
Deposits(p, tok) == Accepts(p, tok) /\ marking' = Deposit(marking, p, tok)

(* The four writers that deposit one token at a time: firings, error        *)
(* routing, failed children and finished children.                          *)
LEMMA WriterShape ==
  ASSUME TypeOK,
         \/ ProcessError
         \/ \E t \in Transition : FireDeposit(t)
         \/ \E i \in Child : ChildFailure(i) \/ ChildDeposit(i)
  PROVE  UNCHANGED marking \/ \E p \in Place : \E tok \in Token : Deposits(p, tok)
<1>0. NetType /\ MainType /\ FireType /\ ChildType
  BY DEF TypeOK
<1>1. CASE ProcessError
  <2> DEFINE t == Head(errs).t
  <2>1. t \in Transition
    <3>1. Head(errs) \in [t : Transition, err : Failure]
      BY <1>0, <1>1, HeadTail DEF ProcessError, FireType
    <3> QED
      BY <3>1
  <2>2. CASE ErrorPlace[t] # NoPlace /\ Accepts(ErrorPlace[t], ErrorToken(t, epoch))
    <3>1. ErrorPlace[t] \in Place /\ ErrorToken(t, epoch) \in Token
      BY <1>0, <2>1, <2>2, ErrorTokenType DEF MainType
    <3>2. Deposits(ErrorPlace[t], ErrorToken(t, epoch))
      BY <1>1, <2>2 DEF ProcessError, Deposits
    <3> QED
      BY <3>1, <3>2
  <2>3. CASE ~(ErrorPlace[t] # NoPlace /\ Accepts(ErrorPlace[t], ErrorToken(t, epoch)))
    BY <1>1, <2>3 DEF ProcessError
  <2> QED
    BY <2>2, <2>3
<1>2. ASSUME NEW t \in Transition, FireDeposit(t)
      PROVE  UNCHANGED marking \/ \E p \in Place : \E tok \in Token : Deposits(p, tok)
  <2>1. OutputPlaces[t][slot[t]] \in Place /\ Stamped(t, slot[t]) \in Token
    BY <1>0, <1>2, StampedType DEF FireDeposit
  <2>2. UNCHANGED marking \/ Deposits(OutputPlaces[t][slot[t]], Stamped(t, slot[t]))
    BY <1>2 DEF FireDeposit, Deposits
  <2> QED
    BY <2>1, <2>2
<1>3. ASSUME NEW i \in Child, ChildFailure(i)
      PROVE  UNCHANGED marking \/ \E p \in Place : \E tok \in Token : Deposits(p, tok)
  <2>1. owner[i] \in Transition /\ born[i] \in Nat
    BY <1>0, <1>3 DEF ChildFailure, ChildType
  <2>2. CASE ErrorPlace[owner[i]] # NoPlace
    <3>1. ErrorPlace[owner[i]] \in Place /\ ErrorToken(owner[i], born[i]) \in Token
      BY <2>1, <2>2, ErrorTokenType
    <3>2. UNCHANGED marking \/ Deposits(ErrorPlace[owner[i]], ErrorToken(owner[i], born[i]))
      BY <1>3, <2>2 DEF ChildFailure, Deposits
    <3> QED
      BY <3>1, <3>2
  <2>3. CASE ErrorPlace[owner[i]] = NoPlace
    BY <1>3, <2>3 DEF ChildFailure
  <2> QED
    BY <2>2, <2>3
<1>4. ASSUME NEW i \in Child, ChildDeposit(i)
      PROVE  UNCHANGED marking \/ \E p \in Place : \E tok \in Token : Deposits(p, tok)
  <2> DEFINE p == Head(outbox[i])
             tok == Fitted(p, Head(lot[i]).val, Head(lot[i]).hitl, born[i])
  <2>1. p \in Place
    BY <1>0, <1>4, HeadTail DEF ChildDeposit, ChildType
  <2>2. Head(lot[i]) \in [val : Val, hitl : BOOLEAN]
    BY <1>0, <1>4, HeadTail DEF ChildDeposit, ChildType
  <2>3. tok \in Token
    BY <1>0, <2>1, <2>2, FittedType DEF ChildType
  <2>4. Deposits(p, tok)
    BY <1>4 DEF ChildDeposit, Deposits, Accepts, Fitted
  <2> QED
    BY <2>1, <2>3, <2>4
<1> QED
  BY <1>1, <1>2, <1>3, <1>4

(* Every other step that is not a consumption, a drain or a Reset leaves    *)
(* the marking alone.                                                       *)
LEMMA MarkingShape ==
  ASSUME TypeOK, [Next]_vars
  PROVE  \/ UNCHANGED marking
         \/ \E p \in Place : \E tok \in Token : Deposits(p, tok)
         \/ \E t \in Transition : Consume(t)
         \/ \E i \in Child : DrainBus(i)
         \/ Reset
<1>1. CASE Main
  BY <1>1, WriterShape
  DEF Main, RunStart, LoopTimeout, LoopTop, DrainDone, CollectDone, Launch, WaitAll, ErrorsDone,
      checkModeSwitch, CheckComplete, LoadChildren, ChildrenWait, netVars
<1>2. ASSUME NEW t \in Transition, Firing(t), ~FireDeposit(t) PROVE UNCHANGED marking
  BY <1>2
  DEF Firing, ToolReturns, ToolFails, FireOk, SleepOver, SleepCancelled, HITLAsk, HITLReceive,
      HITLTimeout, RevisionReturns, RevisionFails, SpawnFails, SpawnChild, netVars
<1>3. ASSUME NEW i \in Child, ChildEmit(i) \/ ChildStep(i), ~ChildFailure(i), ~ChildDeposit(i)
      PROVE  UNCHANGED marking
  BY <1>3
  DEF ChildEmit, ChildStep, ChildSucceeds, ChildFails, ChildDelivered, ChildDeregister,
      ChildCloseBus, ChildDec, ChildDone, ChildUnwind, netVars
<1>4. ASSUME NEW t \in Transition, Collect(t) \/ \E a \in HITLAction : Respond(t, a)
      PROVE  UNCHANGED marking
  BY <1>4 DEF Collect, Respond, netVars
<1>5. CASE Cancel
  BY <1>5 DEF Cancel, netVars
<1>6. CASE UNCHANGED vars
  BY <1>6 DEF vars, netVars
<1> QED
  BY <1>1, <1>2, <1>3, <1>4, <1>5, <1>6, WriterShape DEF Next

(* What an append does to the elements of a queue.                          *)
LEMMA AppendElements ==
  ASSUME NEW S, NEW q \in Seq(S), NEW x \in S
  PROVE  /\ Append(q, x) \in Seq(S) /\ Append(q, x) # <<>>
         /\ \A k \in DOMAIN Append(q, x) : Append(q, x)[k] = x \/ \E n \in DOMAIN q : Append(q, x)[k] = q[n]
<1>1. /\ Len(q) \in Nat /\ Len(Append(q, x)) = Len(q) + 1 /\ Append(q, x) \in Seq(S)
      /\ Append(q, x)[Len(q) + 1] = x /\ \A k \in 1..Len(q) : Append(q, x)[k] = q[k]
  BY AppendProperties
<1>2. DOMAIN q = 1..Len(q) /\ DOMAIN Append(q, x) = 1..(Len(q) + 1)
  BY <1>1
<1>3. Append(q, x) # <<>>
  BY <1>1, EmptySeq
<1> QED
  BY <1>1, <1>2, <1>3

(* What a head removal does to the elements of a queue.                     *)
LEMMA TailElements ==
  ASSUME NEW S, NEW q \in Seq(S), q # <<>>
  PROVE  \A k \in DOMAIN Tail(q) : \E n \in DOMAIN q : Tail(q)[k] = q[n]
<1>1. /\ Len(q) \in Nat /\ Tail(q) \in Seq(S) /\ Len(Tail(q)) = Len(q) - 1
      /\ \A k \in 1..Len(Tail(q)) : Tail(q)[k] = q[k + 1]
  BY HeadTailProperties
<1>2. DOMAIN q = 1..Len(q) /\ DOMAIN Tail(q) = 1..(Len(q) - 1)
  BY <1>1
<1> SUFFICES ASSUME NEW k \in DOMAIN Tail(q) PROVE \E n \in DOMAIN q : Tail(q)[k] = q[n]
  OBVIOUS
<1>3. k + 1 \in DOMAIN q /\ Tail(q)[k] = q[k + 1]
  BY <1>1, <1>2
<1> QED
  BY <1>3

(* What a concatenation does to the elements of a queue.                    *)
LEMMA ConcatElements ==
  ASSUME NEW S, NEW q \in Seq(S), NEW n \in Nat, NEW x \in S
  PROVE  LET r == q \o [k \in 1..n |-> x]
         IN  \A k \in DOMAIN r : r[k] = x \/ \E m \in DOMAIN q : r[k] = q[m]
<1> DEFINE d == [k \in 1..n |-> x]
           r == q \o d
<1>1. d \in Seq(S) /\ Len(d) = n /\ \A k \in 1..n : d[k] = x
  OBVIOUS
<1> HIDE DEF d
<1>2. /\ Len(q) \in Nat /\ Len(r) = Len(q) + n /\ r \in Seq(S)
      /\ \A k \in 1..(Len(q) + n) : r[k] = IF k <= Len(q) THEN q[k] ELSE d[k - Len(q)]
  <2>1. /\ q \o d \in Seq(S) /\ Len(q \o d) = Len(q) + Len(d)
        /\ \A k \in 1..(Len(q) + Len(d)) :
             (q \o d)[k] = IF k <= Len(q) THEN q[k] ELSE d[k - Len(q)]
    BY <1>1, ConcatProperties
  <2> QED
    BY <1>1, <2>1
<1>3. DOMAIN q = 1..Len(q) /\ DOMAIN r = 1..(Len(q) + n)
  BY <1>2
<1>4. ASSUME NEW k \in DOMAIN r PROVE r[k] = x \/ \E m \in DOMAIN q : r[k] = q[m]
  <2> HIDE DEF r
  <2>1. k \in 1..(Len(q) + n)
    BY <1>3
  <2>2. CASE k <= Len(q)
    BY <1>2, <1>3, <2>1, <2>2
  <2>3. CASE ~(k <= Len(q))
    <3>1. k - Len(q) \in 1..n /\ r[k] = d[k - Len(q)]
      BY <1>2, <2>1, <2>3
    <3> QED
      BY <1>1, <3>1
  <2> QED
    BY <2>2, <2>3
<1> QED
  BY <1>4 DEF d

(* Every step keeps the places well typed.                                  *)
LEMMA WellTypedStep == TypeOK /\ PlacesWellTyped /\ [Next]_vars => PlacesWellTyped'
<1> SUFFICES ASSUME TypeOK, PlacesWellTyped, [Next]_vars,
                    NEW p \in Place, NEW k \in DOMAIN marking'[p]
             PROVE  marking'[p][k].color = Color[p] /\ marking'[p][k].space = Space[p]
  BY DEF PlacesWellTyped
<1>0. marking \in [Place -> Seq(Token)] /\ marking[p] \in Seq(Token)
  BY DEF TypeOK, NetType, Marking
<1>1. ASSUME \E n \in DOMAIN marking[p] : marking'[p][k] = marking[p][n]
      PROVE  marking'[p][k].color = Color[p] /\ marking'[p][k].space = Space[p]
  BY <1>1 DEF PlacesWellTyped
<1>2. CASE UNCHANGED marking
  BY <1>1, <1>2
<1>3. ASSUME NEW q \in Place, NEW tok \in Token, Deposits(q, tok)
      PROVE  marking'[p][k].color = Color[p] /\ marking'[p][k].space = Space[p]
  <2>1. CASE p # q
    <3>1. marking'[p] = marking[p]
      BY <1>0, <1>3, <2>1 DEF Deposits, Deposit
    <3> QED
      BY <1>1, <3>1
  <2>2. CASE p = q
    <3>1. marking'[p] = Append(marking[p], tok)
      BY <1>0, <1>3, <2>2 DEF Deposits, Deposit
    <3>2. marking'[p][k] = tok \/ \E n \in DOMAIN marking[p] : marking'[p][k] = marking[p][n]
      BY <1>0, <3>1, AppendElements
    <3>3. tok.color = Color[p] /\ tok.space = Space[p]
      BY <1>3, <2>2 DEF Deposits, Accepts
    <3> QED
      BY <1>1, <3>2, <3>3
  <2> QED
    BY <2>1, <2>2
<1>4. ASSUME NEW t \in Transition, Consume(t)
      PROVE  marking'[p][k].color = Color[p] /\ marking'[p][k].space = Space[p]
  <2>1. \/ marking'[p] = marking[p]
        \/ marking[p] # <<>> /\ marking'[p] = Tail(marking[p])
    <3>1. CASE effectiveCanFire(t)
      BY <1>4, <3>1 DEF Consume, consumeAll, effectiveCanFire
    <3>2. CASE ~effectiveCanFire(t)
      BY <1>4, <3>2 DEF Consume
    <3> QED
      BY <3>1, <3>2
  <2>2. marking'[p] = Tail(marking[p]) /\ marking[p] # <<>> =>
          \E n \in DOMAIN marking[p] : marking'[p][k] = marking[p][n]
    BY <1>0, TailElements
  <2> QED
    BY <1>1, <2>1, <2>2
<1>5. ASSUME NEW i \in Child, DrainBus(i)
      PROVE  marking'[p][k].color = Color[p] /\ marking'[p][k].space = Space[p]
  <2> DEFINE n == bus[i] * Cardinality(Observing(p))
             e == EventToken(born[i])
  <2>1. e \in Token /\ n \in Nat
    <3>1. bus[i] \in Nat /\ born[i] \in Nat
      BY DEF TypeOK, ChildType
    <3>2. Cardinality(Observing(p)) \in Nat
      BY CopiesType
    <3> QED
      BY <3>1, <3>2, EventTokenType
  <2>2. CASE Accepts(p, e)
    <3>1. marking'[p] = marking[p] \o [j \in 1..n |-> e]
      BY <1>5, <2>2 DEF DrainBus
    <3> HIDE DEF n, e
    <3>2. marking'[p][k] = e \/ \E m \in DOMAIN marking[p] : marking'[p][k] = marking[p][m]
      BY <1>0, <2>1, <3>1, ConcatElements
    <3>3. e.color = Color[p] /\ e.space = Space[p]
      BY <2>2 DEF Accepts
    <3> QED
      BY <1>1, <3>2, <3>3
  <2>3. CASE ~Accepts(p, e)
    <3>1. marking'[p] = marking[p]
      BY <1>5, <2>3 DEF DrainBus
    <3> QED
      BY <1>1, <3>1
  <2> QED
    BY <2>2, <2>3
<1>6. CASE Reset
  <2>1. PICK s \in Seeds : marking' = SeedMarking(s, epoch')
    BY <1>6 DEF Reset
  <2>2. marking'[p][k].color = Color[p] /\ marking'[p][k].space = Space[p]
    BY <2>1 DEF SeedMarking, Fitted
  <2> QED
    BY <2>2
<1> QED
  BY <1>2, <1>3, <1>4, <1>5, <1>6, MarkingShape

(* PlacesWellTyped: in every run of every net a place holds only tokens of  *)
(* its colour and its space, whoever deposited them.                        *)
THEOREM PlacesWellTypedHolds == Spec => []PlacesWellTyped
<1>1. Init => PlacesWellTyped
  BY DEF Init, PlacesWellTyped, SeedMarking, Fitted
<1> QED
  BY <1>1, TypeCorrect, WellTypedStep, PTL DEF Spec
-----------------------------------------------------------------------------
(* Run has a result exactly when it has returned.                           *)
ResultPhase == pc # "returned" => result = "running"

(* The location and the result change only in Run itself and in Reset.      *)
LEMMA ReturnShape ==
  ASSUME TypeOK, [Next]_vars, ~Main, ~Reset
  PROVE  UNCHANGED <<pc, result>>
<1>1. ASSUME NEW t \in Transition, Firing(t) PROVE UNCHANGED <<pc, result>>
  BY <1>1, FiringShape DEF TypeOK, mainVars
<1>2. ASSUME NEW t \in Transition, Collect(t) \/ Consume(t) \/ \E a \in HITLAction : Respond(t, a)
      PROVE  UNCHANGED <<pc, result>>
  BY <1>2 DEF Collect, Consume, Respond, mainVars
<1>3. ASSUME NEW i \in Child, DrainBus(i) \/ ChildEmit(i) \/ ChildStep(i)
      PROVE  UNCHANGED <<pc, result>>
  BY <1>3 DEF DrainBus, ChildEmit, ChildStep, ChildSucceeds, ChildFails, ChildFailure, ChildDeposit,
              ChildDelivered, ChildDeregister, ChildCloseBus, ChildDec, ChildDone, ChildUnwind, mainVars
<1>4. CASE Cancel \/ UNCHANGED vars
  BY <1>4 DEF Cancel, vars, mainVars
<1> QED
  BY <1>1, <1>2, <1>3, <1>4 DEF Next

(* When Run returns nil it has just seen the net complete.                  *)
LEMMA MainReturns ==
  ASSUME TypeOK, ResultPhase, Main
  PROVE  /\ pc # "returned"
         /\ ResultPhase'
         /\ pc' = "returned" /\ result' = "none" => IsComplete /\ UNCHANGED marking
<1>0. ResultPhase /\ NetType /\ FireType
  BY DEF TypeOK
<1>1. CASE ProcessError
  <2>1. Head(errs).err \in Failure
    <3>1. Head(errs) \in [t : Transition, err : Failure]
      BY <1>0, <1>1, HeadTail DEF ProcessError, FireType
    <3> QED
      BY <3>1
  <2> QED
    BY <1>0, <1>1, <2>1 DEF ProcessError, Return, ResultPhase, Failure
<1>2. CASE ChildrenWait
  BY <1>0, <1>2 DEF ChildrenWait, Return, ResultPhase, NetType
<1>3. CASE CheckComplete \/ LoadChildren \/ RunStart \/ LoopTimeout
  BY <1>0, <1>3 DEF CheckComplete, LoadChildren, RunStart, LoopTimeout, Return, ResultPhase
<1>4. CASE LoopTop \/ DrainDone \/ CollectDone \/ Launch \/ WaitAll \/ ErrorsDone \/ checkModeSwitch
  BY <1>0, <1>4 DEF LoopTop, DrainDone, CollectDone, Launch, WaitAll, ErrorsDone, checkModeSwitch,
                    ResultPhase
<1> QED
  BY <1>1, <1>2, <1>3, <1>4 DEF Main

(* Completion, once reported, is not undone by children that are still at   *)
(* work: they only add tokens.                                              *)
LEMMA CompletedStep ==
  TypeOK /\ ResultPhase /\ CompletedSound /\ [Next]_vars => ResultPhase' /\ CompletedSound'
<1> SUFFICES ASSUME TypeOK, ResultPhase, CompletedSound, [Next]_vars
             PROVE  ResultPhase' /\ CompletedSound'
  OBVIOUS
<1> DEFINE sinks == {p \in Place : \A t \in Transition : p \notin InputPlaces[t]}
<1>0. marking \in [Place -> Seq(Token)]
  BY DEF TypeOK, NetType, Marking
<1>1. CASE Main
  <2>1. pc' = "returned" /\ result' = "none" => sinks # {} /\ \A p \in sinks : marking'[p] # <<>>
    BY <1>1, MainReturns DEF IsComplete, TerminalPlaces
  <2> QED
    BY <1>1, <2>1, MainReturns DEF CompletedSound
<1>2. CASE Reset
  BY <1>2 DEF Reset, ResultPhase, CompletedSound
<1>3. CASE ~Main /\ ~Reset
  <2>1. UNCHANGED <<pc, result>>
    BY <1>3, ReturnShape
  <2>2. ASSUME pc = "returned", result = "none"
        PROVE  \A p \in sinks : marking'[p] # <<>>
    <3>0. \A p \in sinks : marking[p] # <<>>
      BY <2>2 DEF CompletedSound
    <3>1. CASE UNCHANGED marking
      BY <3>0, <3>1
    <3>2. ASSUME NEW q \in Place, NEW tok \in Token, Deposits(q, tok)
          PROVE  \A p \in sinks : marking'[p] # <<>>
      <4> SUFFICES ASSUME NEW p \in sinks PROVE marking'[p] # <<>>
        OBVIOUS
      <4>1. marking'[p] = marking[p] \/ marking'[p] = Append(marking[p], tok)
        BY <1>0, <3>2 DEF Deposits, Deposit
      <4>2. Append(marking[p], tok) # <<>>
        BY <1>0, AppendElements
      <4> QED
        BY <3>0, <4>1, <4>2
    <3>3. ASSUME NEW t \in Transition, Consume(t) PROVE FALSE
      BY <2>2, <3>3 DEF Consume
    <3>4. ASSUME NEW i \in Child, DrainBus(i) PROVE FALSE
      BY <2>2, <3>4 DEF DrainBus
    <3> QED
      BY <1>3, <3>1, <3>2, <3>3, <3>4, MarkingShape
  <2> QED
    BY <2>1, <2>2 DEF ResultPhase, CompletedSound
<1> QED
  BY <1>1, <1>2, <1>3

(* CompletedSound: Run reports success only on a terminal marking, and no   *)
(* child that outlives Run can take that marking away.                      *)
THEOREM CompletedSoundHolds == Spec => []CompletedSound
<1>1. Init => ResultPhase /\ CompletedSound
  BY DEF Init, ResultPhase, CompletedSound
<1> QED
  BY <1>1, TypeCorrect, CompletedStep, PTL DEF Spec
-----------------------------------------------------------------------------
(* Nets without SubNet transitions: Child = {}.                             *)

(* Firability and completion depend on marking and mode alone.              *)
LEMMA FirableSame ==
  ASSUME UNCHANGED <<marking, mode>>
  PROVE  /\ \A t \in Transition : effectiveCanFire(t)' <=> effectiveCanFire(t)
         /\ IsComplete' <=> IsComplete
<1>1. ASSUME NEW t \in Transition PROVE effectiveCanFire(t)' <=> effectiveCanFire(t)
  <2>1. InputTokens(t)' = InputTokens(t)
    BY DEF InputTokens
  <2>2. effectiveGuard(t)' <=> effectiveGuard(t)
    BY <2>1 DEF effectiveGuard
  <2> QED
    BY <2>2 DEF effectiveCanFire
<1>2. IsComplete' <=> IsComplete
  BY DEF IsComplete, TerminalPlaces
<1> QED
  BY <1>1, <1>2

Candidates == Transition \ Observers

(* What the main goroutine knows about the marking at each location, when   *)
(* no child interferes.                                                     *)
Judged ==
  /\ pc = "collect" => /\ scan \subseteq Candidates /\ firable \subseteq Candidates \ scan
                       /\ \A t \in Candidates \ scan : t \in firable <=> effectiveCanFire(t)
  /\ pc = "consume" /\ (\A t \in Transition : fire[t] = "idle") =>
       todo # {} /\ \A t \in todo : effectiveCanFire(t)
  /\ pc \in {"check", "load"} => \A t \in Candidates : ~effectiveCanFire(t)
  /\ pc = "load" => ~IsComplete
  /\ pc # "childwait" /\ activeChildren = 0

(* The steps that leave marking, mode and the judgements alone.             *)
LEMMA JudgedSame ==
  ASSUME TypeOK, Judged, DeadlockVerdict,
         UNCHANGED <<marking, mode, pc, scan, firable, todo, fire, result, activeChildren>>
  PROVE  Judged' /\ DeadlockVerdict'
<1>1. \A t \in Transition : effectiveCanFire(t)' <=> effectiveCanFire(t)
  BY FirableSame
<1>2. IsComplete' <=> IsComplete
  BY FirableSame
<1>3. Candidates' = Candidates /\ Candidates \subseteq Transition
  BY DEF Candidates, Observers
<1>4. pc = "collect" => /\ scan' \subseteq Candidates' /\ firable' \subseteq Candidates' \ scan'
                        /\ \A t \in Candidates' \ scan' : t \in firable' <=> effectiveCanFire(t)'
  BY <1>1, <1>3 DEF Judged
<1>5. pc = "consume" /\ (\A t \in Transition : fire[t] = "idle") =>
        todo' # {} /\ \A t \in todo' : effectiveCanFire(t)'
  <2> SUFFICES ASSUME pc = "consume", \A t \in Transition : fire[t] = "idle"
               PROVE  todo' # {} /\ \A t \in todo' : effectiveCanFire(t)'
    OBVIOUS
  <2>1. todo # {} /\ \A t \in todo : effectiveCanFire(t)
    BY DEF Judged
  <2> QED
    BY <1>1, <2>1 DEF TypeOK, MainType
<1>6. pc \in {"check", "load"} => \A t \in Candidates' : ~effectiveCanFire(t)'
  BY <1>1, <1>3 DEF Judged
<1>7. pc = "load" => ~IsComplete'
  BY <1>2 DEF Judged
<1>8. Judged'
  BY <1>4, <1>5, <1>6, <1>7 DEF Judged
<1>9. DeadlockVerdict'
  BY <1>1, <1>2, <1>3 DEF DeadlockVerdict, Candidates
<1> QED
  BY <1>8, <1>9

(* Every step keeps the judgements and the verdict.                         *)
LEMMA JudgedStep ==
  Child = {} /\ TypeOK /\ FiringPhase /\ ResultPhase /\ Judged /\ DeadlockVerdict /\ [Next]_vars =>
    Judged' /\ DeadlockVerdict'
<1> SUFFICES ASSUME Child = {}, TypeOK, FiringPhase, ResultPhase, Judged, DeadlockVerdict, [Next]_vars
             PROVE  Judged' /\ DeadlockVerdict'
  OBVIOUS
<1>0. FireType /\ NetType /\ fire \in [Transition -> FireStatus]
  BY DEF TypeOK, FireType
<1>1. CASE Main
  <2>1. CASE CollectDone
    <3>1. UNCHANGED <<marking, mode, fire, result, activeChildren>> /\ pc = "collect" /\ scan = {}
      BY <2>1 DEF CollectDone, netVars, fireVars, childVars
    <3>2. \A t \in Candidates : t \in firable <=> effectiveCanFire(t)
      BY <3>1 DEF Judged
    <3>3. todo' = firable /\ firable \subseteq Candidates
          /\ pc' = IF firable = {} THEN "check" ELSE "consume"
      BY <2>1, <3>1 DEF CollectDone, Judged
    <3> QED
      BY <3>1, <3>2, <3>3, FirableSame DEF Judged, DeadlockVerdict, Candidates, Observers
  <2>2. CASE Launch
    <3>1. UNCHANGED <<marking, mode, fire, todo, activeChildren>> /\ pc = "consume" /\ todo = {}
      BY <2>2 DEF Launch, netVars, fireVars, childVars
    <3>2. ~(\A t \in Transition : fire[t] = "idle")
      BY <3>1 DEF Judged
    <3>3. pc' = "wait"
      BY <2>2, <3>2 DEF Launch
    <3> QED
      BY <3>1, <3>3 DEF Judged, DeadlockVerdict
  <2>3. CASE CheckComplete
    <3>1. UNCHANGED <<marking, mode, activeChildren>> /\ pc = "check"
      BY <2>3 DEF CheckComplete, childVars
    <3>2. IF IsComplete THEN pc' = "returned" /\ result' = "none" ELSE pc' = "load"
      BY <2>3 DEF CheckComplete, Return
    <3> QED
      BY <3>1, <3>2, FirableSame DEF Judged, DeadlockVerdict, Candidates, Observers
  <2>4. CASE LoadChildren
    <3>1. UNCHANGED <<marking, mode, activeChildren>> /\ pc = "load" /\ activeChildren = 0
      BY <2>4 DEF LoadChildren, childVars, Judged
    <3>2. pc' = "returned" /\ result' = "deadlock"
      BY <2>4, <3>1 DEF LoadChildren, Return
    <3> QED
      BY <3>1, <3>2, FirableSame DEF Judged, DeadlockVerdict, Candidates, Observers
  <2>5. CASE ProcessError
    <3>1. Head(errs).err \in Failure
      <4>1. Head(errs) \in [t : Transition, err : Failure]
        BY <1>0, <2>5, HeadTail DEF ProcessError, FireType
      <4> QED
        BY <4>1
    <3>2. UNCHANGED activeChildren /\ pc' \in {"errors", "returned"}
      BY <2>5 DEF ProcessError, Return, childVars
    <3>3. pc' = "returned" => result' # "deadlock"
      <4> DEFINE t == Head(errs).t
      <4>1. CASE ErrorPlace[t] = NoPlace
        BY <2>5, <3>1, <4>1 DEF ProcessError, Return, Failure
      <4>2. CASE ErrorPlace[t] # NoPlace /\ Accepts(ErrorPlace[t], ErrorToken(t, epoch))
        BY <2>5, <4>2 DEF ProcessError
      <4>3. CASE ErrorPlace[t] # NoPlace /\ ~Accepts(ErrorPlace[t], ErrorToken(t, epoch))
        BY <2>5, <4>3 DEF ProcessError, Return
      <4> QED
        BY <4>1, <4>2, <4>3
    <3> QED
      BY <3>2, <3>3 DEF Judged, DeadlockVerdict
  <2>6. CASE DrainDone
    <3>1. /\ UNCHANGED <<marking, mode, activeChildren>> /\ pc' = "collect"
          /\ scan' = Candidates /\ firable' = {}
      BY <2>6 DEF DrainDone, netVars, childVars, Candidates
    <3> QED
      BY <3>1 DEF Judged, DeadlockVerdict, Candidates, Observers
  <2>7. CASE LoopTop \/ WaitAll \/ ErrorsDone \/ checkModeSwitch
    <3>1. UNCHANGED activeChildren /\ pc' \in {"drain", "errors", "mode", "loop"}
      BY <2>7 DEF LoopTop, WaitAll, ErrorsDone, checkModeSwitch, childVars
    <3> QED
      BY <3>1 DEF Judged, DeadlockVerdict
  <2>8. CASE RunStart \/ LoopTimeout
    <3>1. UNCHANGED activeChildren /\ pc' \in {"loop", "returned"}
      BY <2>8 DEF RunStart, LoopTimeout, Return, childVars
    <3>2. pc' = "returned" => result' # "deadlock"
      BY <2>8 DEF RunStart, LoopTimeout, Return
    <3> QED
      BY <3>1, <3>2 DEF Judged, DeadlockVerdict
  <2>9. CASE ChildrenWait
    BY <2>9 DEF ChildrenWait, Judged
  <2> QED
    BY <1>1, <2>1, <2>2, <2>3, <2>4, <2>5, <2>6, <2>7, <2>8, <2>9 DEF Main
<1>2. ASSUME NEW t \in Transition, Consume(t) PROVE Judged' /\ DeadlockVerdict'
  <2>1. pc = "consume" /\ UNCHANGED <<pc, activeChildren>> /\ t \in todo
    BY <1>2 DEF Consume, childVars
  <2>2. CASE effectiveCanFire(t)
    <3>1. fire'[t] = "run"
      BY <1>0, <1>2, <2>2 DEF Consume
    <3> QED
      BY <2>1, <3>1 DEF Judged, DeadlockVerdict
  <2>3. CASE ~effectiveCanFire(t)
    <3>1. UNCHANGED fire
      BY <1>2, <2>3 DEF Consume
    <3>2. ~(\A u \in Transition : fire[u] = "idle")
      BY <2>1, <2>3 DEF Judged
    <3> QED
      BY <2>1, <3>1, <3>2 DEF Judged, DeadlockVerdict
  <2> QED
    BY <2>2, <2>3
<1>3. ASSUME NEW t \in Transition, Collect(t) PROVE Judged' /\ DeadlockVerdict'
  <2>1. UNCHANGED <<marking, mode, pc, activeChildren>> /\ pc = "collect"
    BY <1>3 DEF Collect, netVars, childVars
  <2>2. t \in scan /\ scan' = scan \ {t} /\ t \in Candidates
    BY <1>3, <2>1 DEF Collect, Judged
  <2>3. firable' = IF effectiveCanFire(t) THEN firable \cup {t} ELSE firable
    BY <1>3 DEF Collect
  <2>4. \A u \in Candidates \ scan' : u \in firable' <=> effectiveCanFire(u)
    <3> SUFFICES ASSUME NEW u \in Candidates \ scan' PROVE u \in firable' <=> effectiveCanFire(u)
      OBVIOUS
    <3>0. firable \subseteq Candidates \ scan /\ \A v \in Candidates \ scan : v \in firable <=> effectiveCanFire(v)
      BY <2>1 DEF Judged
    <3>1. CASE u = t
      BY <2>2, <2>3, <3>0, <3>1
    <3>2. CASE u # t
      BY <2>2, <2>3, <3>0, <3>2
    <3> QED
      BY <3>1, <3>2
  <2> QED
    BY <2>1, <2>2, <2>3, <2>4, FirableSame DEF Judged, DeadlockVerdict, Candidates, Observers
<1>4. ASSUME NEW t \in Transition, Firing(t) PROVE Judged' /\ DeadlockVerdict'
  <2>1. pc = "wait" /\ pc' = "wait"
    BY <1>0, <1>4, FiringShape DEF mainVars
  <2>2. UNCHANGED activeChildren
    BY <1>4 DEF Firing, ToolReturns, ToolFails, FireDeposit, FireOk, SleepOver, SleepCancelled, HITLAsk,
                HITLReceive, HITLTimeout, RevisionReturns, RevisionFails, SpawnFails, childVars
  <2> QED
    BY <2>1, <2>2 DEF Judged, DeadlockVerdict
<1>5. ASSUME NEW t \in Transition, NEW a \in HITLAction, Respond(t, a)
      PROVE  Judged' /\ DeadlockVerdict'
  BY <1>5, JudgedSame DEF Respond, netVars, mainVars, fireVars, childVars
<1>6. CASE Cancel \/ UNCHANGED vars
  BY <1>6, JudgedSame DEF Cancel, vars, netVars, mainVars, fireVars, childVars
<1>7. CASE Reset
  <2>1. pc' = "ready" /\ UNCHANGED activeChildren
    BY <1>7 DEF Reset, childVars
  <2> QED
    BY <2>1 DEF Judged, DeadlockVerdict
<1> QED
  BY <1>1, <1>2, <1>3, <1>4, <1>5, <1>6, <1>7 DEF Next

(* DeadlockVerdict for nets without SubNets: when Run returns ErrDeadlock,  *)
(* no transition can fire.  With children the verdict can be wrong: one may *)
(* deliver and exit between the scan and the look at activeChildren.        *)
THEOREM DeadlockVerdictHolds == Child = {} => (Spec => []DeadlockVerdict)
<1>1. Init => FiringPhase /\ ResultPhase /\ Judged /\ DeadlockVerdict
  BY DEF Init, FiringPhase, ResultPhase, Judged, DeadlockVerdict
<1>2. TypeOK /\ ResultPhase /\ [Next]_vars => ResultPhase'
  <2> SUFFICES ASSUME TypeOK, ResultPhase, [Next]_vars PROVE ResultPhase'
    OBVIOUS
  <2>1. CASE Reset
    BY <2>1 DEF Reset, ResultPhase
  <2>2. CASE ~Main /\ ~Reset
    BY <2>2, ReturnShape DEF ResultPhase
  <2> QED
    BY <2>1, <2>2, MainReturns
<1> SUFFICES ASSUME Child = {} PROVE Spec => []DeadlockVerdict
  OBVIOUS
<1>3. FiringPhase /\ ResultPhase /\ Judged /\ DeadlockVerdict /\ TypeOK /\ [Next]_vars =>
        Judged' /\ DeadlockVerdict'
  BY JudgedStep
<1> QED
  BY <1>1, <1>2, <1>3, TypeCorrect, PhaseStep, PTL DEF Spec
-----------------------------------------------------------------------------
(* The main loop, children and the environment leave the records of the     *)
(* firings alone, or clear all of them.                                     *)
LEMMA FiringsKept ==
  ASSUME [Next]_vars, \A t \in Transition : ~Consume(t) /\ ~Firing(t)
  PROVE  UNCHANGED <<fire, consumed, firedIn, slot, attempt, put>> \/ NoFirings
<1>1. CASE Main
  BY <1>1 DEF Main, RunStart, LoopTimeout, LoopTop, DrainDone, CollectDone, Launch, WaitAll,
              ProcessError, ErrorsDone, checkModeSwitch, CheckComplete, LoadChildren, ChildrenWait,
              fireVars
<1>2. ASSUME NEW t \in Transition, Collect(t) \/ \E a \in HITLAction : Respond(t, a)
      PROVE  UNCHANGED fireVars
  BY <1>2 DEF Collect, Respond
<1>3. ASSUME NEW i \in Child, DrainBus(i) \/ ChildEmit(i) \/ ChildStep(i)
      PROVE  UNCHANGED fireVars
  BY <1>3 DEF DrainBus, ChildEmit, ChildStep, ChildSucceeds, ChildFails, ChildFailure, ChildDeposit,
              ChildDelivered, ChildDeregister, ChildCloseBus, ChildDec, ChildDone, ChildUnwind
<1>4. CASE Cancel \/ Reset \/ UNCHANGED vars
  BY <1>4 DEF Cancel, Reset, vars, fireVars
<1> QED
  BY <1>1, <1>2, <1>3, <1>4 DEF Next, fireVars

(* A firing keeps what it consumed and the mode it consumed it in.          *)
LEMMA FiringKeepsInput ==
  ASSUME NEW t \in Transition, Firing(t)
  PROVE  UNCHANGED <<consumed, firedIn>> /\ fire[t] # "idle"
BY DEF Firing, ToolReturns, ToolFails, FireDeposit, FireOk, SleepOver, SleepCancelled, HITLAsk,
       HITLReceive, HITLTimeout, RevisionReturns, RevisionFails, SpawnFails, SpawnChild

(* No place that feeds computation mixes the tokens of humans with those of *)
(* agents.                                                                  *)
OneOrigin ==
  \A t \in Transition : Kind[t] # "hitl" /\ isComputationTransition(t) =>
    \A p \in InputPlaces[t] : \A j, k \in DOMAIN marking[p] :
      IsHumanOrigin(marking[p][j]) <=> IsHumanOrigin(marking[p][k])

(* The heads that consumeAll takes show what centaurianGuard saw.           *)
LEMMA HeadsShow ==
  ASSUME TypeOK, OneOrigin, NEW t \in Transition, effectiveCanFire(t),
         mode = "centaurian", Kind[t] # "hitl", isComputationTransition(t)
  PROVE  \E p, q \in InputPlaces[t] :
           IsHumanOrigin(Head(marking[p])) /\ ~IsHumanOrigin(Head(marking[q]))
<1>1. centaurianGuard(InputTokens(t))
  BY DEF effectiveCanFire, effectiveGuard
<1>2. ASSUME NEW p \in InputPlaces[t], NEW i \in DOMAIN marking[p]
      PROVE  IsHumanOrigin(Head(marking[p])) <=> IsHumanOrigin(marking[p][i])
  <2>1. p \in Place /\ marking[p] \in Seq(Token)
    BY NetAssumption DEF TypeOK, NetType, Marking
  <2>2. 1 \in DOMAIN marking[p] /\ Head(marking[p]) = marking[p][1]
    BY <2>1, <1>2
  <2> QED
    BY <2>1, <2>2 DEF OneOrigin
<1>3. PICK p \in InputPlaces[t] : \E i \in DOMAIN marking[p] : IsHumanOrigin(marking[p][i]) = TRUE
  BY <1>1 DEF centaurianGuard, HasOrigin, InputTokens
<1>4. PICK q \in InputPlaces[t] : \E i \in DOMAIN marking[q] : IsHumanOrigin(marking[q][i]) = FALSE
  BY <1>1 DEF centaurianGuard, HasOrigin, InputTokens
<1>5. IsHumanOrigin(Head(marking[p]))
  BY <1>2, <1>3
<1>6. ~IsHumanOrigin(Head(marking[q]))
  BY <1>2, <1>4
<1> QED
  BY <1>5, <1>6

LEMMA CoTriggerStep ==
  TypeOK /\ OneOrigin /\ CoTrigger /\ [Next]_vars => CoTrigger'
<1> SUFFICES ASSUME TypeOK, OneOrigin, CoTrigger, [Next]_vars PROVE CoTrigger'
  OBVIOUS
<1>0. /\ fire \in [Transition -> FireStatus] /\ firedIn \in [Transition -> Mode]
      /\ DOMAIN consumed = Transition
  BY DEF TypeOK, FireType
<1>1. ASSUME NEW t \in Transition, Consume(t) PROVE CoTrigger'
  <2>1. CASE effectiveCanFire(t)
    <3>1. /\ consumed' = [consumed EXCEPT ![t] = [p \in InputPlaces[t] |-> Head(marking[p])]]
          /\ fire' = [fire EXCEPT ![t] = "run"]
          /\ firedIn' = [firedIn EXCEPT ![t] = mode]
      BY <1>1, <2>1 DEF Consume, consumeAll
    <3>2. \A u \in Transition \ {t} : /\ consumed'[u] = consumed[u] /\ fire'[u] = fire[u]
                                      /\ firedIn'[u] = firedIn[u]
      BY <1>0, <3>1
    <3>3. firedIn'[t] = mode /\ \A p \in InputPlaces[t] : consumed'[t][p] = Head(marking[p])
      BY <1>0, <3>1
    <3>4. ASSUME mode = "centaurian", Kind[t] # "hitl", isComputationTransition(t)
          PROVE  \E p, q \in InputPlaces[t] :
                   IsHumanOrigin(consumed'[t][p]) /\ ~IsHumanOrigin(consumed'[t][q])
      <4>1. PICK p, q \in InputPlaces[t] :
              IsHumanOrigin(Head(marking[p])) /\ ~IsHumanOrigin(Head(marking[q]))
        BY <2>1, <3>4, HeadsShow
      <4>2. consumed'[t][p] = Head(marking[p]) /\ consumed'[t][q] = Head(marking[q])
        BY <3>3
      <4> QED
        BY <4>1, <4>2
    <3> QED
      BY <3>2, <3>3, <3>4 DEF CoTrigger, isComputationTransition, IsHumanOrigin
  <2>2. CASE ~effectiveCanFire(t)
    <3>1. UNCHANGED <<consumed, fire, firedIn>>
      BY <1>1, <2>2 DEF Consume
    <3> QED
      BY <3>1 DEF CoTrigger, isComputationTransition, IsHumanOrigin
  <2> QED
    BY <2>1, <2>2
<1>2. ASSUME NEW t \in Transition, Firing(t) PROVE CoTrigger'
  <2>1. UNCHANGED <<consumed, firedIn>> /\ fire[t] # "idle"
    BY <1>2, FiringKeepsInput
  <2>2. PICK s \in FireStatus : fire' = [fire EXCEPT ![t] = s]
    BY <1>2, FiringShape DEF TypeOK, FiringEffect
  <2>3. \A u \in Transition : fire'[u] # "idle" => fire[u] # "idle"
    BY <1>0, <2>1, <2>2
  <2> QED
    BY <2>1, <2>3 DEF CoTrigger, isComputationTransition, IsHumanOrigin
<1>3. CASE NoFirings
  BY <1>3 DEF NoFirings, CoTrigger
<1>4. CASE UNCHANGED <<fire, consumed, firedIn>>
  BY <1>4 DEF CoTrigger, isComputationTransition, IsHumanOrigin
<1> QED
  BY <1>1, <1>2, <1>3, <1>4, FiringsKept

(* CoTrigger, for every net in which no place that feeds computation mixes   *)
(* origins: centaurianGuard looks at all the tokens of the input places and  *)
(* consumeAll takes the heads, so a place that holds both kinds lets         *)
(* computation run on one.                                                   *)
THEOREM CoTriggerHolds == Spec /\ []OneOrigin => []CoTrigger
<1>1. Init => CoTrigger
  BY DEF Init, CoTrigger
<1> QED
  BY <1>1, TypeCorrect, CoTriggerStep, PTL DEF Spec
-----------------------------------------------------------------------------
(* Only gates wait for a human, and only children of SubNet transitions run. *)
Gates ==
  /\ \A t \in Transition : fire[t] \in {"blocked", "revise"} => Kind[t] = "hitl"
  /\ \A i \in Child : child[i] # "free" => Kind[owner[i]] = "subnet"

(* Failures of children are routed.                                          *)
ChildrenRouted == \A t \in Transition : Kind[t] = "subnet" => ErrorPlace[t] # NoPlace

LEMMA GatesStep == TypeOK /\ Gates /\ [Next]_vars => Gates'
<1> SUFFICES ASSUME TypeOK, Gates, [Next]_vars PROVE Gates'
  OBVIOUS
<1> DEFINE Humans == \A t \in Transition : fire[t] \in {"blocked", "revise"} => Kind[t] = "hitl"
           Spawned == \A i \in Child : child[i] # "free" => Kind[owner[i]] = "subnet"
<1>0. fire \in [Transition -> FireStatus] /\ child \in [Child -> ChildStatus] /\ DOMAIN owner = Child
  BY DEF TypeOK, FireType, ChildType
<1>1. Humans'
  <2>1. ASSUME NEW t \in Transition, Consume(t) PROVE Humans'
    <3>1. UNCHANGED fire \/ fire' = [fire EXCEPT ![t] = "run"]
      BY <2>1 DEF Consume
    <3> QED
      BY <1>0, <3>1 DEF Gates
  <2>2. ASSUME NEW t \in Transition, Firing(t) PROVE Humans'
    <3>1. PICK s \in FireStatus : fire' = [fire EXCEPT ![t] = s]
      BY <2>2, FiringShape DEF TypeOK, FiringEffect
    <3>2. fire'[t] \in {"blocked", "revise"} =>
            \/ HITLAsk(t) \/ RevisionReturns(t) \/ HITLReceive(t)
      BY <1>0, <2>2 DEF Firing, ToolReturns, ToolFails, FireDeposit, FireOk, SleepOver,
           SleepCancelled, HITLTimeout, RevisionFails, SpawnFails, SpawnChild, AttemptFails,
           StartDeposit
    <3>3. HITLAsk(t) \/ RevisionReturns(t) \/ HITLReceive(t) => Kind[t] = "hitl"
      BY DEF HITLAsk, RevisionReturns, HITLReceive, Gates
    <3> QED
      BY <1>0, <3>1, <3>2, <3>3 DEF Gates
  <2>3. CASE NoFirings
    BY <2>3 DEF NoFirings
  <2>4. CASE UNCHANGED fire
    BY <2>4 DEF Gates
  <2> QED
    BY <2>1, <2>2, <2>3, <2>4, FiringsKept
<1>2. Spawned'
  <2>1. ASSUME NEW t \in Transition, NEW i \in Child, SpawnChild(t, i) PROVE Spawned'
    BY <1>0, <2>1 DEF SpawnChild, Gates
  <2>2. ASSUME NEW i \in Child, DrainBus(i) \/ ChildEmit(i) \/ ChildStep(i) PROVE Spawned'
    <3>1. UNCHANGED owner /\ \A j \in Child : child'[j] # "free" => child[j] # "free"
      BY <1>0, <2>2 DEF DrainBus, ChildEmit, ChildStep, ChildSucceeds, ChildFails, ChildFailure,
           ChildDeposit, ChildDelivered, ChildDeregister, ChildCloseBus, ChildDec, ChildDone,
           ChildUnwind
    <3> QED
      BY <3>1 DEF Gates
  <2>3. CASE UNCHANGED <<child, owner>>
    BY <2>3 DEF Gates
  <2>4. ASSUME NEW t \in Transition, Firing(t), \A i \in Child : ~SpawnChild(t, i)
        PROVE  UNCHANGED <<child, owner>>
    BY <2>4 DEF Firing, ToolReturns, ToolFails, FireDeposit, FireOk, SleepOver, SleepCancelled,
         HITLAsk, HITLReceive, HITLTimeout, RevisionReturns, RevisionFails, SpawnFails, childVars
  <2>5. ASSUME NEW t \in Transition, Collect(t) \/ Consume(t) \/ \E a \in HITLAction : Respond(t, a)
        PROVE  UNCHANGED <<child, owner>>
    BY <2>5 DEF Collect, Consume, Respond, childVars
  <2>6. CASE Main
    BY <2>6, <2>3 DEF Main, RunStart, LoopTimeout, LoopTop, DrainDone, CollectDone, Launch, WaitAll,
         ProcessError, ErrorsDone, checkModeSwitch, CheckComplete, LoadChildren, ChildrenWait,
         childVars
  <2>7. CASE Cancel \/ Reset \/ UNCHANGED vars
    BY <2>7, <2>3 DEF Cancel, Reset, vars, childVars
  <2> QED
    BY <2>1, <2>2, <2>3, <2>4, <2>5, <2>6, <2>7 DEF Next
<1> QED
  BY <1>1, <1>2 DEF Gates

(* A firing goroutine that takes a step is not gone afterwards.             *)
LEMMA FiringStays ==
  ASSUME FireType, NEW t \in Transition, Firing(t)
  PROVE  fire'[t] # "idle"
<1>0. fire \in [Transition -> FireStatus]
  BY DEF FireType
<1>1. CASE HITLReceive(t)
  <2>1. \/ fire' = [fire EXCEPT ![t] = "sleep"] \/ fire' = [fire EXCEPT ![t] = "err"]
        \/ fire' = [fire EXCEPT ![t] = "deposit"] \/ fire' = [fire EXCEPT ![t] = "revise"]
    BY <1>1 DEF HITLReceive, AttemptFails, StartDeposit, HITLResponse, RevisionResponse
  <2> QED
    BY <1>0, <2>1
<1>2. CASE ~HITLReceive(t)
  BY <1>0, <1>2 DEF Firing, ToolReturns, ToolFails, FireDeposit, FireOk, SleepOver,
       SleepCancelled, HITLAsk, RevisionReturns, HITLTimeout, RevisionFails, SpawnFails,
       SpawnChild, AttemptFails, StartDeposit
<1> QED
  BY <1>1, <1>2

(* Who changes the state of the CPN while a round is waited for.            *)
LEMMA StateWriters ==
  ASSUME TypeOK, Gates, ChildrenRouted, [Next]_vars, pc = "wait"
  PROVE  \/ UNCHANGED state
         \/ state' = "waiting"
         \/ \E t \in Transition : /\ fire[t] = "blocked" /\ Firing(t)
                                  /\ Kind[t] = "hitl" /\ fire'[t] # "blocked"
<1>0. fire \in [Transition -> FireStatus] /\ \A i \in Child : child[i] # "free" => owner[i] \in Transition
  BY DEF TypeOK, FireType, ChildType
<1>1. CASE Main
  BY <1>1 DEF Main, RunStart, LoopTimeout, LoopTop, DrainDone, CollectDone, Launch, WaitAll,
       ProcessError, ErrorsDone, checkModeSwitch, CheckComplete, LoadChildren, ChildrenWait,
       netVars
<1>3. ASSUME NEW t \in Transition, HITLReceive(t) \/ HITLTimeout(t)
      PROVE  fire[t] = "blocked" /\ Kind[t] = "hitl" /\ fire'[t] # "blocked"
  <2>1. fire[t] = "blocked" /\ Kind[t] = "hitl"
    BY <1>3 DEF HITLReceive, HITLTimeout, Gates
  <2>2. \/ fire' = [fire EXCEPT ![t] = "sleep"] \/ fire' = [fire EXCEPT ![t] = "err"]
        \/ fire' = [fire EXCEPT ![t] = "deposit"] \/ fire' = [fire EXCEPT ![t] = "revise"]
    BY <1>3 DEF HITLReceive, HITLTimeout, AttemptFails, StartDeposit, HITLResponse, RevisionResponse
  <2> QED
    BY <1>0, <2>1, <2>2
<1>4. ASSUME NEW t \in Transition, Firing(t), ~HITLReceive(t), ~HITLTimeout(t)
      PROVE  UNCHANGED state \/ state' = "waiting"
  BY <1>4 DEF Firing, ToolReturns, ToolFails, FireDeposit, FireOk, SleepOver, SleepCancelled,
         HITLAsk, RevisionReturns, RevisionFails, SpawnFails, SpawnChild, netVars
<1>5. ASSUME NEW i \in Child, DrainBus(i) \/ ChildEmit(i) \/ ChildStep(i) PROVE UNCHANGED state
  <2>1. CASE ChildFailure(i)
    <3>1. owner[i] \in Transition /\ Kind[owner[i]] = "subnet"
      BY <1>0, <2>1 DEF ChildFailure, Gates
    <3> QED
      BY <2>1, <3>1 DEF ChildFailure, ChildrenRouted
  <2> QED
    BY <1>5, <2>1 DEF DrainBus, ChildEmit, ChildStep, ChildSucceeds, ChildFails, 
           ChildDeposit, ChildDelivered, ChildDeregister, ChildCloseBus, ChildDec, ChildDone,
           ChildUnwind, netVars
<1>6. ASSUME NEW t \in Transition, Collect(t) \/ Consume(t) \/ \E a \in HITLAction : Respond(t, a)
      PROVE  UNCHANGED state
  BY <1>6 DEF Collect, Consume, Respond, netVars
<1>7. CASE Cancel \/ Reset \/ UNCHANGED vars
  BY <1>7 DEF Cancel, Reset, vars, netVars
<1> QED
  BY <1>1, <1>3, <1>4, <1>5, <1>6, <1>7 DEF Next, Firing

LEMMA BlockedStep ==
  ChildrenRouted /\ TypeOK /\ FiringPhase /\ Gates /\ BlockedIsWaiting /\ [Next]_vars =>
    BlockedIsWaiting'
<1> SUFFICES ASSUME ChildrenRouted, TypeOK, FiringPhase, Gates, BlockedIsWaiting, [Next]_vars,
                    NEW t \in Transition, fire'[t] = "blocked",
                    \A u \in Transition \ {t} : Kind[u] = "hitl" => fire'[u] = "idle"
             PROVE  state' = "waiting"
  BY DEF BlockedIsWaiting
<1>0. fire \in [Transition -> FireStatus]
  BY DEF TypeOK, FireType
<1>1. CASE pc # "wait"
  <2>1. fire[t] # "blocked"
    BY <1>1 DEF FiringPhase, Settled, TypeOK, MainType, Location
  <2>2. ASSUME NEW u \in Transition, Firing(u) PROVE FALSE
    BY <1>1, <2>2, FiringShape DEF TypeOK
  <2>3. ASSUME NEW u \in Transition, Consume(u) PROVE fire'[t] # "blocked"
    <3>1. UNCHANGED fire \/ fire' = [fire EXCEPT ![u] = "run"]
      BY <2>3 DEF Consume
    <3> QED
      BY <1>0, <2>1, <3>1
  <2> QED
    BY <2>1, <2>2, <2>3, FiringsKept DEF NoFirings
<1>2. CASE pc = "wait"
  <2>1. ASSUME NEW u \in Transition, Firing(u), u # t PROVE Kind[u] # "hitl" /\ fire'[u] # "idle"
    BY <1>0, <2>1, FiringStays DEF TypeOK
  <2>2. ASSUME NEW u \in Transition, Firing(u), NEW v \in Transition \ {u} PROVE fire'[v] = fire[v]
    <3>1. PICK s \in FireStatus : fire' = [fire EXCEPT ![u] = s]
      BY <2>2, FiringShape DEF TypeOK, FiringEffect
    <3> QED
      BY <1>0, <3>1
  <2>3. ~NoFirings
    BY DEF NoFirings
  <2>4. ASSUME NEW u \in Transition, Consume(u) PROVE FALSE
    BY <1>2, <2>4 DEF Consume
  <2>5. \A v \in Transition \ {t} : Kind[v] = "hitl" => fire[v] = "idle"
    BY <2>1, <2>2, <2>3, <2>4, FiringsKept
  <2>6. CASE fire[t] = "blocked"
    <3>1. state = "waiting"
      BY <2>5, <2>6 DEF BlockedIsWaiting
    <3>2. ASSUME NEW w \in Transition, fire[w] = "blocked", Kind[w] = "hitl" PROVE w = t
      BY <2>5, <3>2
    <3> QED
      BY <1>2, <3>1, <3>2, StateWriters
  <2>7. CASE fire[t] # "blocked"
    <3>1. Firing(t)
      BY <2>2, <2>3, <2>4, <2>7, FiringsKept
    <3>2. HITLAsk(t) \/ RevisionReturns(t)
      BY <1>0, <2>7, <3>1 DEF Firing, ToolReturns, ToolFails, FireDeposit, FireOk, SleepOver,
           SleepCancelled, HITLReceive, HITLTimeout, RevisionFails, SpawnFails, SpawnChild,
           AttemptFails, StartDeposit
    <3> QED
      BY <3>2 DEF HITLAsk, RevisionReturns
  <2> QED
    BY <2>6, <2>7
<1> QED
  BY <1>1, <1>2

(* BlockedIsWaiting, for every net whose SubNet transitions have an          *)
(* ErrorPlace: without one, a child that fails sets StateFailed over the     *)
(* gate's StateWaiting.                                                      *)
THEOREM BlockedIsWaitingHolds == ChildrenRouted => (Spec => []BlockedIsWaiting)
<1> SUFFICES ASSUME ChildrenRouted PROVE Spec => []BlockedIsWaiting
  OBVIOUS
<1>1. Init => FiringPhase /\ Gates /\ BlockedIsWaiting
  BY DEF Init, FiringPhase, Gates, BlockedIsWaiting
<1>2. TypeOK /\ FiringPhase /\ Gates /\ BlockedIsWaiting /\ [Next]_vars => BlockedIsWaiting'
  BY BlockedStep
<1> QED
  BY <1>1, <1>2, TypeCorrect, PhaseStep, GatesStep, PTL DEF Spec
-----------------------------------------------------------------------------
(* How far a firing has come with its outputs: nothing is put before the     *)
(* first attempt has a result, and while it deposits, the last places put    *)
(* into are the first output places of the transition.                       *)
Progress(t) ==
  /\ fire[t] # "idle" => attempt[t] >= 1
  /\ fire[t] \in {"run", "blocked", "revise"} /\ attempt[t] = 1 => put[t] = <<>>
  /\ fire[t] = "deposit" =>
       /\ slot[t] <= Len(OutputPlaces[t]) + 1
       /\ slot[t] - 1 <= Len(put[t])
       /\ attempt[t] = 1 => slot[t] - 1 = Len(put[t])
       /\ \A j \in 1..(slot[t] - 1) : put[t][Len(put[t]) - (slot[t] - 1) + j] = OutputPlaces[t][j]

(* FiringExact, of one transition. *)
Exact(t) ==
  fire[t] = "ok" /\ Kind[t] # "subnet" =>
    /\ attempt[t] = 1 => put[t] = OutputPlaces[t]
    /\ \E k \in 0..Len(put[t]) : SubSeq(put[t], k + 1, Len(put[t])) = OutputPlaces[t]

(* All outputs are put.                                                      *)
LEMMA PutAll ==
  ASSUME NEW S, NEW q \in Seq(S), NEW out \in Seq(S), Len(out) <= Len(q),
         \A j \in 1..Len(out) : q[Len(q) - Len(out) + j] = out[j]
  PROVE  /\ Len(q) = Len(out) => q = out
         /\ \E k \in 0..Len(q) : SubSeq(q, k + 1, Len(q)) = out
<1>1. Len(q) \in Nat /\ Len(out) \in Nat
  OBVIOUS
<1>2. ASSUME Len(q) = Len(out) PROVE q = out
  <2>1. \A j \in 1..Len(q) : q[j] = out[j]
    BY <1>1, <1>2
  <2> QED
    BY <1>2, <2>1, SeqEqual
<1>3. \E k \in 0..Len(q) : SubSeq(q, k + 1, Len(q)) = out
  <2> DEFINE k == Len(q) - Len(out)
             suffix == SubSeq(q, k + 1, Len(q))
  <2>1. k \in 0..Len(q) /\ k + 1 \in 1..(Len(q) + 1) /\ Len(q) - (k + 1) + 1 = Len(out)
    BY <1>1
  <2>2. /\ suffix \in Seq(S) /\ Len(suffix) = Len(out)
        /\ \A j \in 1..Len(out) : suffix[j] = q[k + j]
    BY <1>1, <2>1
  <2>3. suffix = out
    BY <2>2, SeqEqual
  <2> QED
    BY <2>1, <2>3
<1> QED
  BY <1>2, <1>3

(* An untouched record says the same.                                        *)
LEMMA ProgressSame ==
  ASSUME NEW t \in Transition, UNCHANGED <<fire[t], slot[t], attempt[t], put[t]>>
  PROVE  (Progress(t) => Progress(t)') /\ (Exact(t) => Exact(t)')
BY DEF Progress, Exact

(* A firing touches the record of no other firing.                           *)
LEMMA FiringLocal ==
  ASSUME FireType, NEW t \in Transition, Firing(t), NEW u \in Transition \ {t}
  PROVE  UNCHANGED <<fire[u], slot[u], attempt[u], put[u]>>
<1>0. /\ fire \in [Transition -> FireStatus] /\ slot \in [Transition -> Nat]
      /\ attempt \in [Transition -> Nat] /\ put \in [Transition -> Seq(Place)]
  BY DEF FireType
<1>1. UNCHANGED fire[u]
  <2>1. PICK s \in FireStatus : fire' = [fire EXCEPT ![t] = s]
    BY FiringShape DEF FiringEffect
  <2> QED
    BY <1>0, <2>1
<1>2. UNCHANGED <<slot[u], attempt[u], put[u]>>
  <2>1. CASE HITLReceive(t)
    <3>1. UNCHANGED <<attempt, put>> /\ (UNCHANGED slot \/ slot' = [slot EXCEPT ![t] = 1])
      BY <2>1 DEF HITLReceive, HITLResponse, RevisionResponse, StartDeposit
    <3> QED
      BY <1>0, <3>1
  <2>2. CASE FireDeposit(t)
    BY <1>0, <2>2 DEF FireDeposit
  <2>3. CASE ToolReturns(t) \/ SleepOver(t)
    BY <1>0, <2>3 DEF ToolReturns, SleepOver, StartDeposit
  <2> QED
    BY <2>1, <2>2, <2>3 DEF Firing, ToolFails, FireOk, SleepCancelled, HITLAsk, RevisionReturns,
         HITLTimeout, RevisionFails, SpawnFails, SpawnChild
<1> QED
  BY <1>1, <1>2

LEMMA ProgressStep ==
  ASSUME FireType, NEW t \in Transition, Firing(t), Progress(t), Exact(t)
  PROVE  Progress(t)' /\ Exact(t)'
<1> DEFINE out == OutputPlaces[t]
<1>0. /\ fire \in [Transition -> FireStatus] /\ slot \in [Transition -> Nat]
      /\ attempt \in [Transition -> Nat] /\ put \in [Transition -> Seq(Place)]
      /\ out \in Seq(Place) /\ Len(out) \in Nat /\ Len(put[t]) \in Nat
      /\ attempt[t] >= 1
  BY NetAssumption, FiringKeepsInput DEF FireType, Progress
<1>1. ASSUME NEW e, AttemptFails(t, e), UNCHANGED <<slot, attempt, put>>
      PROVE  Progress(t)' /\ Exact(t)'
  <2>1. fire'[t] \in {"sleep", "err"}
    BY <1>0, <1>1 DEF AttemptFails
  <2> QED
    BY <1>0, <1>1, <2>1 DEF Progress, Exact
<1>2. ASSUME NEW r, StartDeposit(t, r), UNCHANGED <<attempt, put>>,
             fire[t] \in {"run", "blocked", "revise"}
      PROVE  Progress(t)' /\ Exact(t)'
  <2>1. fire'[t] = "deposit" /\ slot'[t] = 1
    BY <1>0, <1>2 DEF StartDeposit
  <2>2. attempt[t] = 1 => Len(put[t]) = 0
    BY <1>0, <1>2, EmptySeq DEF Progress
  <2> QED
    BY <1>0, <1>2, <2>1, <2>2 DEF Progress, Exact
<1>3. CASE ToolReturns(t)
  BY <1>2, <1>3 DEF ToolReturns
<1>4. CASE ToolFails(t) \/ HITLTimeout(t) \/ RevisionFails(t) \/ SpawnFails(t)
  BY <1>1, <1>4 DEF ToolFails, HITLTimeout, RevisionFails, SpawnFails
<1>5. CASE FireDeposit(t)
  <2>0. /\ fire[t] = "deposit" /\ slot[t] \in 1..Len(out)
        /\ out[slot[t]] \in Place
    BY <1>0, <1>5 DEF FireDeposit, FireType
  <2>1. CASE Accepts(out[slot[t]], Stamped(t, slot[t]))
    <3>1. /\ put'[t] = Append(put[t], out[slot[t]]) /\ slot'[t] = slot[t] + 1
          /\ UNCHANGED <<fire, attempt>>
      BY <1>0, <1>5, <2>1 DEF FireDeposit
    <3>2. /\ slot[t] - 1 <= Len(put[t])
          /\ attempt[t] = 1 => slot[t] - 1 = Len(put[t])
          /\ \A j \in 1..(slot[t] - 1) : put[t][Len(put[t]) - (slot[t] - 1) + j] = out[j]
      BY <2>0 DEF Progress
    <3>3. /\ Len(put'[t]) = Len(put[t]) + 1
          /\ \A j \in 1..slot[t] : put'[t][Len(put[t]) + 1 - slot[t] + j] = out[j]
      <4>1. /\ Len(put'[t]) = Len(put[t]) + 1 /\ put'[t][Len(put[t]) + 1] = out[slot[t]]
            /\ \A i \in 1..Len(put[t]) : put'[t][i] = put[t][i]
        BY <1>0, <2>0, <3>1, AppendProperties
      <4>2. ASSUME NEW j \in 1..slot[t] PROVE put'[t][Len(put[t]) + 1 - slot[t] + j] = out[j]
        <5>1. CASE j = slot[t]
          <6>1. Len(put[t]) + 1 - slot[t] + j = Len(put[t]) + 1
            BY <1>0, <5>1
          <6> QED
            BY <4>1, <5>1, <6>1
        <5>2. CASE j # slot[t]
          <6>1. /\ j \in 1..(slot[t] - 1)
                /\ Len(put[t]) + 1 - slot[t] + j = Len(put[t]) - (slot[t] - 1) + j
                /\ Len(put[t]) - (slot[t] - 1) + j \in 1..Len(put[t])
            BY <1>0, <2>0, <3>2, <5>2
          <6> QED
            BY <3>2, <4>1, <6>1
        <5> QED
          BY <5>1, <5>2
      <4> QED
        BY <4>1, <4>2
    <3>4. slot'[t] - 1 = slot[t] /\ \A j \in 1..slot[t] :
             Len(put'[t]) - (slot'[t] - 1) + j = Len(put[t]) + 1 - slot[t] + j
      <4>1. slot[t] \in Nat /\ slot'[t] = slot[t] + 1
        BY <2>0, <3>1
      <4>2. PICK n \in Nat : n = Len(put[t])
        BY <1>0
      <4>3. Len(put'[t]) = n + 1
        BY <3>3, <4>2
      <4>4. slot'[t] - 1 = slot[t]
        BY <4>1
      <4>5. ASSUME NEW j \in 1..slot[t]
            PROVE  Len(put'[t]) - (slot'[t] - 1) + j = Len(put[t]) + 1 - slot[t] + j
        BY <4>1, <4>2, <4>3, <4>4
      <4> QED
        BY <4>4, <4>5
    <3>5. /\ slot'[t] <= Len(out) + 1 /\ slot'[t] - 1 <= Len(put'[t])
          /\ attempt'[t] = 1 => slot'[t] - 1 = Len(put'[t])
      BY <1>0, <2>0, <3>1, <3>2, <3>3
    <3> QED
      BY <1>0, <2>0, <3>1, <3>3, <3>4, <3>5 DEF Progress, Exact
  <2>2. CASE ~Accepts(out[slot[t]], Stamped(t, slot[t]))
    BY <1>1, <1>5, <2>2 DEF FireDeposit
  <2> QED
    BY <2>1, <2>2
<1>6. CASE FireOk(t)
  <2>1. /\ fire'[t] = "ok" /\ UNCHANGED <<attempt, put>>
        /\ fire[t] = "deposit" /\ slot[t] > Len(out)
    BY <1>0, <1>6 DEF FireOk
  <2>2. slot[t] - 1 = Len(out)
    BY <1>0, <2>1 DEF Progress
  <2>3. /\ Len(out) <= Len(put[t]) /\ (attempt[t] = 1 => Len(out) = Len(put[t]))
        /\ \A j \in 1..Len(out) : put[t][Len(put[t]) - Len(out) + j] = out[j]
    BY <2>1, <2>2 DEF Progress
  <2>4. /\ Len(put[t]) = Len(out) => put[t] = out
        /\ \E k \in 0..Len(put[t]) : SubSeq(put[t], k + 1, Len(put[t])) = out
    <3> DEFINE q == put[t]
    <3>1. q \in Seq(Place) /\ out \in Seq(Place)
      BY <1>0
    <3> HIDE DEF q, out
    <3>2. Len(out) <= Len(q) /\ \A j \in 1..Len(out) : q[Len(q) - Len(out) + j] = out[j]
      BY <2>3 DEF q
    <3>3. /\ Len(q) = Len(out) => q = out
          /\ \E k \in 0..Len(q) : SubSeq(q, k + 1, Len(q)) = out
      BY <3>1, <3>2, PutAll
    <3> QED
      BY <3>3 DEF q
  <2> QED
    BY <1>0, <2>1, <2>3, <2>4 DEF Progress, Exact
<1>7. CASE SleepOver(t)
  BY <1>0, <1>7 DEF SleepOver, Progress, Exact
<1>8. CASE SleepCancelled(t)
  BY <1>0, <1>8 DEF SleepCancelled, Progress, Exact
<1>9. CASE HITLAsk(t) \/ RevisionReturns(t)
  <2>1. /\ fire'[t] = "blocked" /\ UNCHANGED <<attempt, put>>
        /\ fire[t] \in {"run", "blocked", "revise"}
    BY <1>0, <1>9 DEF HITLAsk, RevisionReturns
  <2> QED
    BY <1>0, <2>1 DEF Progress, Exact
<1>10. CASE HITLReceive(t)
  <2>1. fire[t] = "blocked" /\ UNCHANGED <<attempt, put>>
    BY <1>10 DEF HITLReceive
  <2>2. \/ \E r : StartDeposit(t, r)
        \/ (\E e : AttemptFails(t, e)) /\ UNCHANGED slot
        \/ fire' = [fire EXCEPT ![t] = "revise"]
    BY <1>10 DEF HITLReceive, HITLResponse, RevisionResponse
  <2>3. CASE fire' = [fire EXCEPT ![t] = "revise"]
    BY <1>0, <2>1, <2>3 DEF Progress, Exact
  <2> QED
    BY <1>1, <1>2, <2>1, <2>2, <2>3
<1>11. CASE \E i \in Child : SpawnChild(t, i)
  BY <1>0, <1>11 DEF SpawnChild, Progress, Exact
<1> QED
  BY <1>3, <1>4, <1>5, <1>6, <1>7, <1>8, <1>9, <1>10, <1>11 DEF Firing

(* FiringExact: a transition that is not a SubNet and ends well has put one  *)
(* token into each output place, in order; with no retry before, it has put  *)
(* nothing else.                                                             *)
THEOREM FiringExactHolds == Spec => []FiringExact
<1> DEFINE IInv == \A t \in Transition : Progress(t) /\ Exact(t)
<1>1. Init => IInv
  BY DEF Init, Progress, Exact
<1>2. TypeOK /\ IInv /\ [Next]_vars => IInv'
  <2> SUFFICES ASSUME TypeOK, IInv, [Next]_vars, NEW t \in Transition PROVE Progress(t)' /\ Exact(t)'
    OBVIOUS
  <2>0. FireType /\ Progress(t) /\ Exact(t)
    BY DEF TypeOK
  <2>1. CASE Firing(t)
    BY <2>0, <2>1, ProgressStep
  <2>2. ASSUME NEW u \in Transition \ {t}, Firing(u) PROVE Progress(t)' /\ Exact(t)'
    BY <2>0, <2>2, FiringLocal, ProgressSame
  <2>3. ASSUME NEW u \in Transition, Consume(u) PROVE Progress(t)' /\ Exact(t)'
    <3>1. /\ fire \in [Transition -> FireStatus] /\ attempt \in [Transition -> Nat]
          /\ put \in [Transition -> Seq(Place)]
      BY <2>0 DEF FireType
    <3>2. CASE t = u /\ effectiveCanFire(t)
      <4>1. fire'[t] = "run" /\ attempt'[t] = 1 /\ put'[t] = <<>>
        BY <2>3, <3>1, <3>2 DEF Consume
      <4> QED
        BY <4>1 DEF Progress, Exact
    <3>3. CASE ~(t = u /\ effectiveCanFire(t))
      <4>1. UNCHANGED <<fire[t], slot[t], attempt[t], put[t]>>
        BY <2>3, <3>1, <3>3 DEF Consume
      <4> QED
        BY <2>0, <4>1, ProgressSame
    <3> QED
      BY <3>2, <3>3
  <2>4. CASE NoFirings
    BY <2>4 DEF NoFirings, Progress, Exact
  <2>5. CASE UNCHANGED <<fire, consumed, firedIn, slot, attempt, put>>
    BY <2>0, <2>5, ProgressSame
  <2> QED
    BY <2>1, <2>2, <2>3, <2>4, <2>5, FiringsKept
<1>3. IInv => FiringExact
  BY DEF FiringExact, Exact
<1> QED
  BY <1>1, <1>2, <1>3, TypeCorrect, PTL DEF Spec
-----------------------------------------------------------------------------
(***************************************************************************)
(* CPNExecutor implements TokenGame, for every net: the initial states are *)
(* initial states of the game, and every step of Run, of a firing, of a    *)
(* child or of the environment is one step of the game or none.            *)
(***************************************************************************)
(* The children that still count in activeChildren.                         *)
Active == {i \in Child : child[i] \notin {"free", "done"}}

(* A transition about to be re-checked has not fired in this round.         *)
TodoIdle == pc = "consume" => \A t \in todo : fire[t] = "idle"

(* Every error in errCh is that of a firing that failed.                    *)
ErrorsFailed == \A k \in 1..Len(errs) : fire[errs[k].t] = "err"

(* Run has returned something when it has returned.                         *)
Answered == pc = "returned" => result # "running"

(* What children still have to deliver belongs to their transition.         *)
Addressed ==
  \A i \in Child : child[i] = "deposit" =>
    \A k \in 1..Len(outbox[i]) :
      \E m \in DOMAIN OutputPlaces[owner[i]] : outbox[i][k] = OutputPlaces[owner[i]][m]

(* The counter of children counts them.                                     *)
Counted == activeChildren = Cardinality(Active)

Linked == TodoIdle /\ ErrorsFailed /\ Answered /\ Addressed /\ Counted
-----------------------------------------------------------------------------
(* Children change by spawning and by their own steps.                      *)
LEMMA ChildShape ==
  ASSUME [Next]_vars
  PROVE  \/ UNCHANGED <<child, owner, outbox, activeChildren>>
         \/ \E t \in Transition : \E i \in Child : SpawnChild(t, i)
         \/ \E i \in Child : ChildStep(i)
<1>1. ASSUME NEW t \in Transition, Firing(t), \A i \in Child : ~SpawnChild(t, i)
      PROVE  UNCHANGED <<child, owner, outbox, activeChildren>>
  BY <1>1 DEF Firing, ToolReturns, ToolFails, FireDeposit, FireOk, SleepOver, SleepCancelled,
       HITLAsk, HITLReceive, HITLTimeout, RevisionReturns, RevisionFails, SpawnFails, childVars
<1>2. ASSUME NEW t \in Transition, Collect(t) \/ Consume(t) \/ \E a \in HITLAction : Respond(t, a)
      PROVE  UNCHANGED <<child, owner, outbox, activeChildren>>
  BY <1>2 DEF Collect, Consume, Respond, childVars
<1>3. CASE Main
  BY <1>3 DEF Main, RunStart, LoopTimeout, LoopTop, DrainDone, CollectDone, Launch, WaitAll,
       ProcessError, ErrorsDone, checkModeSwitch, CheckComplete, LoadChildren, ChildrenWait,
       childVars
<1>4. ASSUME NEW i \in Child, DrainBus(i) \/ ChildEmit(i)
      PROVE  UNCHANGED <<child, owner, outbox, activeChildren>>
  BY <1>4 DEF DrainBus, ChildEmit
<1>5. CASE Cancel \/ Reset \/ UNCHANGED vars
  BY <1>5 DEF Cancel, Reset, vars, childVars
<1> QED
  BY <1>1, <1>2, <1>3, <1>4, <1>5 DEF Next

LEMMA TodoStep == TypeOK /\ FiringPhase /\ TodoIdle /\ [Next]_vars => TodoIdle'
<1> SUFFICES ASSUME TypeOK, FiringPhase, TodoIdle, [Next]_vars PROVE TodoIdle'
  OBVIOUS
<1>0. /\ fire \in [Transition -> FireStatus] /\ todo \subseteq Transition
      /\ firable \subseteq Transition
  BY DEF TypeOK, FireType, MainType
<1>1. CASE Main
  <2>1. CASE CollectDone
    BY <1>0, <2>1 DEF CollectDone, FiringPhase, TodoIdle, fireVars
  <2> QED
    BY <1>1, <2>1 DEF Main, RunStart, LoopTimeout, LoopTop, DrainDone, Launch, WaitAll, ProcessError,
         ErrorsDone, checkModeSwitch, CheckComplete, LoadChildren, ChildrenWait, Return, TodoIdle
<1>2. ASSUME NEW t \in Transition, Consume(t) PROVE TodoIdle'
  <2>1. /\ pc = "consume" /\ todo' = todo \ {t}
        /\ UNCHANGED fire \/ fire' = [fire EXCEPT ![t] = "run"]
    BY <1>2 DEF Consume
  <2> QED
    BY <1>0, <2>1 DEF TodoIdle
<1>3. ASSUME NEW t \in Transition, Firing(t) PROVE TodoIdle'
  BY <1>3, FiringShape DEF TypeOK, TodoIdle, mainVars
<1>4. ASSUME NEW t \in Transition, Collect(t) \/ \E a \in HITLAction : Respond(t, a)
      PROVE  TodoIdle'
  BY <1>4 DEF Collect, Respond, TodoIdle, mainVars, fireVars
<1>5. ASSUME NEW i \in Child, DrainBus(i) \/ ChildEmit(i) \/ ChildStep(i) PROVE TodoIdle'
  BY <1>5 DEF DrainBus, ChildEmit, ChildStep, ChildSucceeds, ChildFails, ChildFailure, ChildDeposit,
       ChildDelivered, ChildDeregister, ChildCloseBus, ChildDec, ChildDone, ChildUnwind,
       TodoIdle, mainVars, fireVars
<1>6. CASE Cancel \/ Reset \/ UNCHANGED vars
  BY <1>6 DEF Cancel, Reset, vars, mainVars, fireVars, TodoIdle
<1> QED
  BY <1>1, <1>2, <1>3, <1>4, <1>5, <1>6 DEF Next

LEMMA ErrorsStep == TypeOK /\ TodoIdle /\ ErrorsFailed /\ [Next]_vars => ErrorsFailed'
<1> SUFFICES ASSUME TypeOK, TodoIdle, ErrorsFailed, [Next]_vars PROVE ErrorsFailed'
  OBVIOUS
<1>0. /\ fire \in [Transition -> FireStatus] /\ errs \in Seq([t : Transition, err : Failure])
      /\ \A k \in 1..Len(errs) : errs[k].t \in Transition
  <2>1. fire \in [Transition -> FireStatus] /\ errs \in Seq([t : Transition, err : Failure])
    BY DEF TypeOK, FireType
  <2>2. \A k \in 1..Len(errs) : errs[k] \in [t : Transition, err : Failure]
    BY <2>1, ElementOfSeq
  <2> QED
    BY <2>1, <2>2
<1>1. CASE ProcessError
  <2>1. errs # <<>> /\ errs' = Tail(errs) /\ UNCHANGED fire
    BY <1>1 DEF ProcessError
  <2>2. Len(errs') = Len(errs) - 1 /\ \A k \in 1..Len(errs') : errs'[k] = errs[k + 1]
    BY <1>0, <2>1, HeadTailProperties
  <2>3. \A k \in 1..Len(errs') : k + 1 \in 1..Len(errs)
    BY <1>0, <2>2
  <2> QED
    BY <2>1, <2>2, <2>3 DEF ErrorsFailed
<1>2. ASSUME NEW t \in Transition, Firing(t) PROVE ErrorsFailed'
  <2>1. PICK s \in FireStatus : FiringEffect(t, s)
    BY <1>2, FiringShape DEF TypeOK
  <2>2. fire[t] # "err"
    BY <1>2 DEF Firing, ToolReturns, ToolFails, FireDeposit, FireOk, SleepOver, SleepCancelled,
         HITLAsk, HITLReceive, HITLTimeout, RevisionReturns, RevisionFails, SpawnFails, SpawnChild
  <2>3. \A k \in 1..Len(errs) : fire'[errs[k].t] = "err"
    BY <1>0, <2>1, <2>2 DEF FiringEffect, ErrorsFailed
  <2>4. CASE s = "err"
    <3>1. PICK e : errs' = Append(errs, [t |-> t, err |-> e])
      BY <2>1, <2>4 DEF FiringEffect
    <3>2. /\ Len(errs') = Len(errs) + 1 /\ errs'[Len(errs) + 1] = [t |-> t, err |-> e]
          /\ \A k \in 1..Len(errs) : errs'[k] = errs[k]
      BY <1>0, <3>1
    <3>3. fire'[t] = "err"
      BY <1>0, <2>1, <2>4 DEF FiringEffect
    <3>4. \A k \in 1..Len(errs') : k \in 1..Len(errs) \/ k = Len(errs) + 1
      BY <1>0, <3>2
    <3> QED
      BY <2>3, <3>2, <3>3, <3>4 DEF ErrorsFailed
  <2>5. CASE s # "err"
    BY <2>1, <2>3, <2>5 DEF FiringEffect, ErrorsFailed
  <2> QED
    BY <2>4, <2>5
<1>3. ASSUME NEW t \in Transition, Consume(t) PROVE ErrorsFailed'
  <2>1. fire[t] = "idle" /\ UNCHANGED errs /\ (UNCHANGED fire \/ fire' = [fire EXCEPT ![t] = "run"])
    BY <1>3 DEF Consume, TodoIdle
  <2> QED
    BY <1>0, <2>1 DEF ErrorsFailed
<1>4. CASE NoFirings
  BY <1>4 DEF NoFirings, ErrorsFailed
<1>5. CASE UNCHANGED <<fire, errs>>
  BY <1>5 DEF ErrorsFailed
<1>6. ASSUME Main, ~ProcessError PROVE NoFirings \/ UNCHANGED <<fire, errs>>
  BY <1>6 DEF Main, RunStart, LoopTimeout, LoopTop, DrainDone, CollectDone, Launch, WaitAll,
              ErrorsDone, checkModeSwitch, CheckComplete, LoadChildren, ChildrenWait, fireVars
<1>7. CASE Reset
  BY <1>4, <1>7 DEF Reset
<1> QED
  BY <1>1, <1>2, <1>3, <1>4, <1>5, <1>6, <1>7, OtherShape DEF Next

LEMMA AnsweredStep == TypeOK /\ ResultPhase /\ Answered /\ [Next]_vars => Answered'
<1> SUFFICES ASSUME TypeOK, ResultPhase, Answered, [Next]_vars PROVE Answered'
  OBVIOUS
<1>1. CASE Main
  <2>1. error # "running"
    BY DEF TypeOK, NetType, Cause
  <2>2. CASE ProcessError
    <3>1. Head(errs) \in [t : Transition, err : Failure]
      BY <2>2, HeadTail DEF ProcessError, TypeOK, FireType
    <3>2. Head(errs).err # "running"
      BY <3>1 DEF Failure
    <3> QED
      BY <2>2, <3>2 DEF ProcessError, Return, Answered
  <2> QED
    BY <1>1, <2>1, <2>2 DEF Main, RunStart, LoopTimeout, LoopTop, DrainDone, CollectDone, Launch,
         WaitAll, ErrorsDone, checkModeSwitch, CheckComplete, LoadChildren, ChildrenWait, Return,
         Answered
<1>2. CASE Reset
  BY <1>2 DEF Reset, Answered
<1>3. CASE ~Main /\ ~Reset
  BY <1>3, ReturnShape DEF Answered
<1> QED
  BY <1>1, <1>2, <1>3

LEMMA AddressedStep == TypeOK /\ Addressed /\ [Next]_vars => Addressed'
<1> SUFFICES ASSUME TypeOK, Addressed, [Next]_vars PROVE Addressed'
  OBVIOUS
<1>0. /\ child \in [Child -> ChildStatus] /\ DOMAIN owner = Child
      /\ outbox \in [Child -> Seq(Place)]
      /\ \A i \in Child : child[i] # "free" => owner[i] \in Transition
  BY DEF TypeOK, ChildType
<1>1. CASE UNCHANGED <<child, owner, outbox, activeChildren>>
  BY <1>1 DEF Addressed
<1>2. ASSUME NEW t \in Transition, NEW i \in Child, SpawnChild(t, i) PROVE Addressed'
  <2>1. UNCHANGED outbox /\ child'[i] # "deposit"
        /\ \A j \in Child \ {i} : child'[j] = child[j] /\ owner'[j] = owner[j]
    BY <1>0, <1>2 DEF SpawnChild
  <2> QED
    BY <2>1 DEF Addressed
<1>3. ASSUME NEW i \in Child, ChildStep(i) PROVE Addressed'
  <2>0. UNCHANGED owner
    BY <1>3 DEF ChildStep, ChildSucceeds, ChildFails, ChildFailure, ChildDeposit, ChildDelivered,
         ChildDeregister, ChildCloseBus, ChildDec, ChildDone, ChildUnwind
  <2>1. CASE ChildSucceeds(i)
    <3>1. outbox'[i] = OutputPlaces[owner[i]] /\ owner[i] \in Transition
      BY <1>0, <2>1 DEF ChildSucceeds
    <3>2. \A j \in Child \ {i} : outbox'[j] = outbox[j] /\ child'[j] = child[j]
      BY <1>0, <2>1 DEF ChildSucceeds
    <3>3. \A k \in 1..Len(outbox'[i]) : k \in DOMAIN OutputPlaces[owner[i]]
      BY <3>1, NetAssumption
    <3> QED
      BY <2>0, <3>1, <3>2, <3>3 DEF Addressed
  <2>2. CASE ChildDeposit(i)
    <3>1. UNCHANGED child /\ child[i] = "deposit" /\ outbox[i] # <<>>
          /\ (UNCHANGED outbox \/ outbox' = [outbox EXCEPT ![i] = Tail(outbox[i])])
      BY <2>2 DEF ChildDeposit
    <3>2. CASE outbox' = [outbox EXCEPT ![i] = Tail(outbox[i])]
      <4>1. outbox'[i] = Tail(outbox[i]) /\ \A j \in Child \ {i} : outbox'[j] = outbox[j]
        BY <1>0, <3>2
      <4>2. Len(outbox'[i]) = Len(outbox[i]) - 1 /\ Len(outbox[i]) \in Nat
            /\ \A k \in 1..Len(outbox'[i]) : outbox'[i][k] = outbox[i][k + 1]
        BY <1>0, <3>1, <4>1, HeadTailProperties
      <4>3. \A k \in 1..Len(outbox'[i]) : k + 1 \in 1..Len(outbox[i])
        BY <4>2
      <4>4. \A k \in 1..Len(outbox[i]) :
              \E m \in DOMAIN OutputPlaces[owner[i]] : outbox[i][k] = OutputPlaces[owner[i]][m]
        BY <3>1 DEF Addressed
      <4>5. \A k \in 1..Len(outbox'[i]) :
              \E m \in DOMAIN OutputPlaces[owner[i]] : outbox'[i][k] = OutputPlaces[owner[i]][m]
        BY <4>2, <4>3, <4>4
      <4>6. ASSUME NEW j \in Child, j # i, child'[j] = "deposit"
            PROVE  \A k \in 1..Len(outbox'[j]) :
                     \E m \in DOMAIN OutputPlaces[owner'[j]] : outbox'[j][k] = OutputPlaces[owner'[j]][m]
        <5>1. child[j] = "deposit" /\ outbox'[j] = outbox[j] /\ owner'[j] = owner[j]
          BY <2>0, <3>1, <4>1, <4>6
        <5> QED
          BY <5>1 DEF Addressed
      <4>7. owner'[i] = owner[i]
        BY <2>0
      <4> QED
        BY <4>5, <4>6, <4>7 DEF Addressed
    <3> QED
      BY <2>0, <3>1, <3>2 DEF Addressed
  <2>3. CASE ~ChildSucceeds(i) /\ ~ChildDeposit(i)
    <3>1. UNCHANGED outbox /\ \A j \in Child : child'[j] = "deposit" => child[j] = "deposit"
      BY <1>0, <1>3, <2>3 DEF ChildStep, ChildFails, ChildFailure, ChildDelivered,
         ChildDeregister, ChildCloseBus, ChildDec, ChildDone, ChildUnwind
    <3> QED
      BY <2>0, <3>1 DEF Addressed
  <2> QED
    BY <2>1, <2>2, <2>3
<1> QED
  BY <1>1, <1>2, <1>3, ChildShape

(* Adding and removing one active child.                                    *)
LEMMA ActiveSize == IsFiniteSet(Active) /\ Cardinality(Active) \in Nat
<1>1. Active \subseteq Child
  BY DEF Active
<1> QED
  BY <1>1, BoundAssumption, FS_Subset, FS_CardinalityType

LEMMA CountedStep == TypeOK /\ Counted /\ [Next]_vars => Counted'
<1> SUFFICES ASSUME TypeOK, Counted, [Next]_vars PROVE Counted'
  OBVIOUS
<1>0. child \in [Child -> ChildStatus]
  BY DEF TypeOK, ChildType
<1>1. CASE UNCHANGED <<child, owner, outbox, activeChildren>>
  BY <1>1 DEF Counted, Active
<1>2. ASSUME NEW t \in Transition, NEW i \in Child, SpawnChild(t, i) PROVE Counted'
  <2>1. i \notin Active /\ Active' = Active \cup {i} /\ activeChildren' = activeChildren + 1
    BY <1>0, <1>2 DEF SpawnChild, Active
  <2>2. Cardinality(Active \cup {i}) = Cardinality(Active) + 1
    BY <2>1, ActiveSize, FS_AddElement
  <2> QED
    BY <2>1, <2>2 DEF Counted
<1>3. ASSUME NEW i \in Child, ChildStep(i) PROVE Counted'
  <2>1. CASE ChildDec(i)
    <3>1. i \in Active /\ Active' = Active \ {i} /\ activeChildren' = activeChildren - 1
      BY <1>0, <2>1 DEF ChildDec, ChildUnwind, Active
    <3>2. Cardinality(Active \ {i}) = Cardinality(Active) - 1
      BY <3>1, ActiveSize, FS_RemoveElement
    <3> QED
      BY <3>1, <3>2 DEF Counted
  <2>2. CASE ~ChildDec(i)
    <3>1. UNCHANGED activeChildren
          /\ \A j \in Child : child'[j] \in {"free", "done"} <=> child[j] \in {"free", "done"}
      BY <1>0, <1>3, <2>2 DEF ChildStep, ChildSucceeds, ChildFails, ChildFailure, ChildDeposit,
           ChildDelivered, ChildDeregister, ChildCloseBus, ChildDone, ChildUnwind
    <3>2. Active' = Active
      BY <3>1 DEF Active
    <3> QED
      BY <3>1, <3>2 DEF Counted
  <2> QED
    BY <2>1, <2>2
<1> QED
  BY <1>1, <1>2, <1>3, ChildShape

LEMMA LinkedHolds == Spec => [](TypeOK /\ FiringPhase /\ ResultPhase /\ Linked)
<1>1. Init => FiringPhase /\ ResultPhase /\ Linked
  <2>1. ASSUME Init PROVE Counted
    <3>1. Active = {} /\ activeChildren = 0
      BY <2>1 DEF Init, Active
    <3> QED
      BY <3>1, FS_EmptySet DEF Counted
  <2>2. Init => FiringPhase /\ ResultPhase /\ TodoIdle /\ Answered /\ Addressed
    BY DEF Init, FiringPhase, ResultPhase, TodoIdle, Answered, Addressed
  <2>3. ASSUME Init PROVE ErrorsFailed
    <3>1. Len(errs) = 0
      BY <2>3, EmptySeq DEF Init
    <3> QED
      BY <3>1 DEF ErrorsFailed
  <2> QED
    BY <2>1, <2>2, <2>3 DEF Linked
<1>2. TypeOK /\ FiringPhase /\ ResultPhase /\ CompletedSound /\ Linked /\ [Next]_vars =>
        FiringPhase' /\ ResultPhase' /\ Linked'
  BY PhaseStep, CompletedStep, TodoStep, ErrorsStep, AnsweredStep, AddressedStep, CountedStep
     DEF Linked
<1> QED
  BY <1>1, <1>2, TypeCorrect, CompletedSoundHolds, PTL DEF Spec
-----------------------------------------------------------------------------
(* The refinement mapping of Game, and the places a firing may put into.    *)
Tokens == [p \in Place |-> Len(marking[p])]
Opens == [t \in Transition |-> Open(t)]
Verdict == CASE result = "running" -> "none" [] result = "none" -> "completed"
             [] result = "deadlock" -> "deadlock" [] OTHER -> "failed"
Outs(t) == {OutputPlaces[t][k] : k \in DOMAIN OutputPlaces[t]} \cup ({ErrorPlace[t]} \ {NoPlace})

(* The moves of the game, in terms of the mapping.                          *)
LEMMA GameTake ==
  ASSUME NEW t \in Transition, Verdict = "none",
         InputPlaces[t] # {}, \A p \in InputPlaces[t] : Tokens[p] > 0,
         Tokens' = [p \in Place |-> IF p \in InputPlaces[t] THEN Tokens[p] - 1 ELSE Tokens[p]],
         Opens' = [Opens EXCEPT ![t] = @ + 1], Verdict' = Verdict
  PROVE  Game!Next
BY DEF Game!Next, Game!Take, Tokens, Opens, Verdict

LEMMA GamePut ==
  ASSUME NEW t \in Transition, NEW p \in Outs(t), Opens[t] > 0,
         Tokens' = [Tokens EXCEPT ![p] = @ + 1], Opens' = Opens, Verdict' = Verdict
  PROVE  Game!Next
BY DEF Game!Next, Game!Put, Tokens, Opens, Verdict, Outs

LEMMA GameFinish ==
  ASSUME Opens' \in [Transition -> Nat], \A t \in Transition : Opens'[t] <= Opens[t],
         Tokens' = Tokens, Verdict' = Verdict
  PROVE  Game!Next
BY DEF Game!Next, Game!Finish, Tokens, Opens, Verdict

LEMMA GameObserve ==
  ASSUME Verdict = "none", Tokens' \in [Place -> Nat],
         \A p \in Place : IF Observing(p) # {} THEN Tokens'[p] >= Tokens[p]
                                               ELSE Tokens'[p] = Tokens[p],
         Opens' = Opens, Verdict' = Verdict
  PROVE  Game!Next
BY DEF Game!Next, Game!Observe, Tokens, Opens, Verdict

LEMMA GameJudge ==
  ASSUME Verdict = "none", Tokens' = Tokens, Opens' = Opens,
         \/ Verdict' = "completed" /\ TerminalPlaces # {} /\ \A p \in TerminalPlaces : Tokens[p] > 0
         \/ Verdict' = "deadlock" /\ \A t \in Transition : Opens[t] = 0
         \/ Verdict' = "failed"
  PROVE  Game!Next
BY DEF Game!Next, Game!Judge, Game!Sinks, TerminalPlaces, Tokens, Opens, Verdict

LEMMA GameAgain ==
  ASSUME Verdict # "none", Tokens' \in {[p \in Place |-> Len(s[p])] : s \in Seeds},
         Opens' \in [Transition -> Nat], \A t \in Transition : Opens'[t] <= Opens[t],
         Verdict' = "none"
  PROVE  Game!Next
BY DEF Game!Next, Game!Again, Tokens, Opens, Verdict

LEMMA GameStutter ==
  ASSUME UNCHANGED <<Tokens, Opens, Verdict>>
  PROVE  UNCHANGED Game!gameVars
BY DEF Game!gameVars, Tokens, Opens, Verdict
-----------------------------------------------------------------------------
(* The two parts of Open.                                                   *)
Busy(t) == IF fire[t] \in {"idle", "ok"} THEN 0 ELSE 1
Kids(t) == {i \in Child : child[i] \notin {"free", "done"} /\ owner[i] = t}

LEMMA KidsFinite ==
  ASSUME NEW K, K \subseteq Child
  PROVE  IsFiniteSet(K) /\ Cardinality(K) \in Nat
BY BoundAssumption, FS_Subset, FS_CardinalityType

LEMMA OpenType ==
  ASSUME NEW t \in Transition
  PROVE  /\ Open(t) = Busy(t) + Cardinality(Kids(t))
         /\ Busy(t) \in Nat /\ Cardinality(Kids(t)) \in Nat /\ Open(t) \in Nat
         /\ fire[t] \notin {"idle", "ok"} => Open(t) > 0
         /\ \A i \in Child : child[i] \notin {"free", "done"} /\ owner[i] = t => Open(t) > 0
         /\ fire[t] \in {"idle", "ok"} /\ Kids(t) = {} => Open(t) = 0
<1>1. IsFiniteSet(Kids(t)) /\ Cardinality(Kids(t)) \in Nat
  <2>1. Kids(t) \subseteq Child
    BY DEF Kids
  <2> QED
    BY <2>1, KidsFinite
<1>2. Busy(t) \in Nat /\ (fire[t] \notin {"idle", "ok"} => Busy(t) = 1)
      /\ (fire[t] \in {"idle", "ok"} => Busy(t) = 0)
  BY DEF Busy
<1>3. Open(t) = Busy(t) + Cardinality(Kids(t))
  BY DEF Open, Busy, Kids
<1>4. ASSUME NEW i \in Child, child[i] \notin {"free", "done"}, owner[i] = t PROVE Open(t) > 0
  <2>1. i \in Kids(t)
    BY <1>4 DEF Kids
  <2>2. Cardinality(Kids(t)) # 0
    BY <1>1, <2>1, FS_EmptySet
  <2> QED
    BY <1>1, <1>2, <1>3, <2>2
<1>5. Kids(t) = {} => Cardinality(Kids(t)) = 0
  BY FS_EmptySet
<1> QED
  BY <1>1, <1>2, <1>3, <1>4, <1>5

(* Firings and children that end close firings.                             *)
LEMMA OpenFalls ==
  ASSUME \A t \in Transition : fire[t] \in {"idle", "ok"} => fire'[t] \in {"idle", "ok"},
         UNCHANGED owner,
         \A i \in Child : child[i] \in {"free", "done"} => child'[i] \in {"free", "done"}
  PROVE  Opens' \in [Transition -> Nat] /\ \A t \in Transition : Opens'[t] <= Opens[t]
<1>1. ASSUME NEW t \in Transition PROVE Open(t)' \in Nat /\ Open(t)' <= Open(t)
  <2> DEFINE K == Kids(t)'
  <2>1. K \subseteq Kids(t) /\ K \subseteq Child /\ Kids(t) \subseteq Child
    BY DEF Kids
  <2>2. Open(t)' = Busy(t)' + Cardinality(K)
    BY DEF Open, Busy, Kids
  <2>3. Busy(t)' \in Nat /\ Busy(t)' <= Busy(t) /\ Busy(t) \in Nat
    BY DEF Busy
  <2> HIDE DEF K
  <2>4. Cardinality(K) \in Nat /\ Cardinality(K) <= Cardinality(Kids(t))
    BY <2>1, KidsFinite, FS_Subset
  <2> QED
    BY <2>2, <2>3, <2>4, OpenType
<1> QED
  BY <1>1 DEF Opens

LEMMA OpenSame ==
  ASSUME \A t \in Transition : fire[t] \in {"idle", "ok"} <=> fire'[t] \in {"idle", "ok"},
         UNCHANGED owner,
         \A i \in Child : child[i] \in {"free", "done"} <=> child'[i] \in {"free", "done"}
  PROVE  Opens' = Opens
<1>1. ASSUME NEW t \in Transition PROVE Open(t)' = Open(t)
  <2>1. Kids(t)' = Kids(t)
    BY DEF Kids
  <2>2. Busy(t)' = Busy(t)
    BY DEF Busy
  <2>3. Open(t)' = Busy(t)' + Cardinality(Kids(t)')
    BY DEF Open, Busy, Kids
  <2> QED
    BY <2>1, <2>2, <2>3, OpenType
<1> QED
  BY <1>1 DEF Opens

(* One deposit is one token more.                                           *)
LEMMA PutToken ==
  ASSUME marking \in Marking, NEW p \in Place, NEW tok \in Token,
         marking' = Deposit(marking, p, tok)
  PROVE  Tokens' = [Tokens EXCEPT ![p] = @ + 1]
<1>1. \A q \in Place : marking'[q] = IF q = p THEN Append(marking[p], tok) ELSE marking[q]
  BY DEF Deposit, Marking
<1>2. Len(Append(marking[p], tok)) = Len(marking[p]) + 1
  BY AppendProperties DEF Marking
<1> QED
  BY <1>1, <1>2 DEF Tokens

(* The verdict, as the game sees it.                                        *)
LEMMA Verdicts ==
  /\ ResultPhase /\ pc # "returned" => Verdict = "none"
  /\ Answered /\ pc = "returned" => Verdict # "none"
  /\ UNCHANGED result => UNCHANGED Verdict
  /\ UNCHANGED marking => UNCHANGED Tokens
BY DEF ResultPhase, Answered, Verdict, Tokens
-----------------------------------------------------------------------------
(* A step of the program is a move of the game or none.                     *)
Played == Game!Next \/ UNCHANGED Game!gameVars

(* What the proofs of the steps start from.                                 *)
Playing == TypeOK /\ FiringPhase /\ ResultPhase /\ Linked

LEMMA FireStatusTyped == TypeOK =>
  /\ fire \in [Transition -> FireStatus] /\ child \in [Child -> ChildStatus]
  /\ marking \in Marking /\ DOMAIN owner = Child
  /\ \A i \in Child : child[i] # "free" => owner[i] \in Transition
BY DEF TypeOK, FireType, ChildType, NetType

LEMMA QuietPlays ==
  ASSUME UNCHANGED <<marking, fire, child, owner, result>>
  PROVE  Played
BY OpenSame, Verdicts, GameStutter DEF Played

(* Run returns an error.                                                    *)
LEMMA ErrorPlays ==
  ASSUME Playing, pc # "returned", UNCHANGED <<marking, fire, child, owner>>,
         result' \notin {"running", "none", "deadlock"}
  PROVE  Played
<1>1. Verdict = "none" /\ Verdict' = "failed"
  BY Verdicts DEF Playing, Verdict
<1> QED
  BY <1>1, OpenSame, Verdicts, GameJudge DEF Played

(* Run returns nil.                                                         *)
LEMMA CompletePlays ==
  ASSUME Playing, pc # "returned", IsComplete, UNCHANGED <<marking, fire, child, owner>>,
         result' = "none"
  PROVE  Played
<1>1. Verdict = "none" /\ Verdict' = "completed"
  BY Verdicts DEF Playing, Verdict
<1>2. TerminalPlaces # {} /\ \A p \in TerminalPlaces : Tokens[p] > 0
  <2>1. ASSUME NEW p \in TerminalPlaces PROVE Tokens[p] > 0
    <3>1. p \in Place /\ marking[p] \in Seq(Token) /\ marking[p] # <<>>
      BY DEF TerminalPlaces, IsComplete, Playing, TypeOK, NetType, Marking
    <3>2. Len(marking[p]) \in Nat /\ Len(marking[p]) # 0
      BY <3>1, EmptySeq
    <3> QED
      BY <3>1, <3>2 DEF Tokens
  <2> QED
    BY <2>1 DEF IsComplete
<1> QED
  BY <1>1, <1>2, OpenSame, Verdicts, GameJudge DEF Played

(* Run returns ErrDeadlock, or the error a child left behind.               *)
LEMMA DeadlockPlays ==
  ASSUME Playing, pc # "returned", UNCHANGED <<marking, fire, child, owner>>,
         \A t \in Transition : fire[t] = "idle", Active = {},
         result' = "deadlock"
  PROVE  Played
<1>1. Verdict = "none" /\ Verdict' = "deadlock"
  BY Verdicts DEF Playing, Verdict
<1>2. ASSUME NEW t \in Transition PROVE Opens[t] = 0
  <2>1. Kids(t) = {}
    BY DEF Kids, Active
  <2> QED
    BY <2>1, OpenType DEF Opens
<1> QED
  BY <1>1, <1>2, OpenSame, Verdicts, GameJudge DEF Played

(* A firing that is under way puts a token.                                 *)
LEMMA DepositPlays ==
  ASSUME Playing, NEW t \in Transition, Open(t) > 0, NEW p \in Outs(t), p \in Place,
         NEW tok \in Token, marking' = Deposit(marking, p, tok),
         UNCHANGED <<fire, child, owner, result>>
  PROVE  Played
<1>1. Tokens' = [Tokens EXCEPT ![p] = @ + 1]
  BY PutToken, FireStatusTyped DEF Playing
<1>2. Opens[t] > 0
  BY DEF Opens
<1> QED
  BY <1>1, <1>2, OpenSame, Verdicts, GamePut DEF Played

LEMMA ProcessErrorPlays == ASSUME Playing, ProcessError PROVE Played
<1> DEFINE t == Head(errs).t
           p == ErrorPlace[t]
<1>0. /\ pc = "errors" /\ UNCHANGED <<fire, child, owner>> /\ errs # <<>>
      /\ errs \in Seq([t : Transition, err : Failure])
  BY DEF ProcessError, Playing, TypeOK, FireType, childVars
<1>1. t \in Transition /\ Head(errs).err \in Failure
  <2>1. Head(errs) \in [t : Transition, err : Failure]
    BY <1>0, HeadTail
  <2> QED
    BY <2>1
<1>2. fire[t] = "err"
  <2>1. 1 \in 1..Len(errs) /\ Head(errs) = errs[1]
    BY <1>0
  <2> QED
    BY <2>1 DEF Playing, Linked, ErrorsFailed
<1>3. CASE p = NoPlace
  <2>1. result' = Head(errs).err /\ UNCHANGED marking
    BY <1>3 DEF ProcessError, Return
  <2> QED
    BY <1>0, <1>1, <2>1, ErrorPlays DEF Failure
<1>4. CASE p # NoPlace /\ Accepts(p, ErrorToken(t, epoch))
  <2>1. marking' = Deposit(marking, p, ErrorToken(t, epoch)) /\ UNCHANGED result
    BY <1>4 DEF ProcessError
  <2>2. p \in Place /\ ErrorToken(t, epoch) \in Token /\ p \in Outs(t)
    BY <1>1, <1>4, NetAssumption, ErrorTokenType DEF Playing, TypeOK, MainType, Outs
  <2>3. Open(t) > 0
    BY <1>1, <1>2, OpenType
  <2> QED
    BY <1>0, <1>1, <2>1, <2>2, <2>3, DepositPlays
<1>5. CASE p # NoPlace /\ ~Accepts(p, ErrorToken(t, epoch))
  <2>1. result' = "errplace" /\ UNCHANGED marking
    BY <1>5 DEF ProcessError, Return
  <2> QED
    BY <1>0, <2>1, ErrorPlays
<1> QED
  BY <1>3, <1>4, <1>5

LEMMA MainPlays == ASSUME Playing, Main PROVE Played
<1>1. CASE RunStart
  <2>1. UNCHANGED <<marking, fire, child, owner>> /\ pc = "ready"
        /\ (UNCHANGED result \/ result' = "invalid")
    BY <1>1 DEF RunStart, Return, fireVars, childVars
  <2> QED
    BY <2>1, QuietPlays, ErrorPlays
<1>2. CASE LoopTimeout
  <2>1. UNCHANGED <<marking, fire, child, owner>> /\ pc = "loop" /\ result' = "timeout"
    BY <1>2 DEF LoopTimeout, Return, fireVars, childVars
  <2> QED
    BY <2>1, ErrorPlays
<1>3. CASE LoopTop \/ DrainDone \/ CollectDone \/ Launch \/ WaitAll \/ ErrorsDone
  BY <1>3, QuietPlays DEF LoopTop, DrainDone, CollectDone, Launch, WaitAll, ErrorsDone, netVars,
       fireVars, childVars
<1>4. CASE checkModeSwitch
  <2>1. UNCHANGED <<marking, child, owner, result>> /\ \A t \in Transition : fire'[t] = "idle"
    BY <1>4 DEF checkModeSwitch, NoFirings, childVars
  <2> QED
    BY <2>1, OpenFalls, Verdicts, GameFinish DEF Played
<1>5. CASE CheckComplete
  <2>1. /\ UNCHANGED <<marking, fire, child, owner>> /\ pc = "check"
        /\ (IsComplete /\ result' = "none") \/ UNCHANGED result
    BY <1>5 DEF CheckComplete, Return, fireVars, childVars
  <2> QED
    BY <2>1, CompletePlays, QuietPlays
<1>6. CASE LoadChildren
  <2>1. /\ UNCHANGED <<marking, fire, child, owner>> /\ pc = "load"
        /\ (~(activeChildren > 0) /\ result' = "deadlock") \/ UNCHANGED result
    BY <1>6 DEF LoadChildren, Return, fireVars, childVars
  <2>2. ASSUME ~(activeChildren > 0) PROVE Active = {}
    <3>1. IsFiniteSet(Active) /\ Cardinality(Active) = 0
      BY <2>2, ActiveSize DEF Playing, Linked, Counted
    <3> QED
      BY <3>1, FS_EmptySet
  <2>3. \A t \in Transition : fire[t] = "idle"
    BY <2>1 DEF Playing, FiringPhase
  <2> QED
    BY <2>1, <2>2, <2>3, DeadlockPlays, QuietPlays
<1>7. CASE ChildrenWait
  <2>1. /\ UNCHANGED <<marking, fire, child, owner>> /\ pc = "childwait"
        /\ \/ IsComplete /\ result' = "none"
           \/ state = "failed" /\ result' = error
           \/ UNCHANGED result
    BY <1>7 DEF ChildrenWait, Return, fireVars, childVars
  <2>2. Active = {} /\ \A t \in Transition : fire[t] = "idle"
    BY <1>7 DEF ChildrenWait, Active, Playing, FiringPhase
  <2>3. state = "failed" => error \notin {"running", "none"}
    BY DEF Playing, TypeOK, NetType, Cause
  <2> QED
    BY <2>1, <2>2, <2>3, CompletePlays, DeadlockPlays, ErrorPlays, QuietPlays
<1> QED
  BY <1>1, <1>2, <1>3, <1>4, <1>5, <1>6, <1>7, ProcessErrorPlays DEF Main

LEMMA ConsumePlays == ASSUME Playing, NEW t \in Transition, Consume(t) PROVE Played
<1>0. /\ fire \in [Transition -> FireStatus] /\ marking \in [Place -> Seq(Token)]
      /\ InputPlaces[t] \subseteq Place
  BY FireStatusTyped, NetAssumption DEF Playing, Marking
<1>1. CASE ~effectiveCanFire(t)
  BY <1>1, QuietPlays DEF Consume, childVars
<1>2. CASE effectiveCanFire(t)
  <2>1. /\ pc = "consume" /\ fire[t] = "idle" /\ fire' = [fire EXCEPT ![t] = "run"]
        /\ marking' = [p \in Place |-> IF p \in InputPlaces[t] THEN Tail(marking[p]) ELSE marking[p]]
        /\ UNCHANGED <<child, owner, result>>
        /\ InputPlaces[t] # {} /\ \A p \in InputPlaces[t] : marking[p] # <<>>
    BY <1>2 DEF Consume, consumeAll, Playing, Linked, TodoIdle, effectiveCanFire, childVars
  <2>2. Verdict = "none" /\ Verdict' = Verdict
    BY <2>1, Verdicts DEF Playing
  <2>3. \A p \in InputPlaces[t] : Len(marking[p]) > 0 /\ Len(Tail(marking[p])) = Len(marking[p]) - 1
    <3> SUFFICES ASSUME NEW p \in InputPlaces[t]
                 PROVE  Len(marking[p]) > 0 /\ Len(Tail(marking[p])) = Len(marking[p]) - 1
      OBVIOUS
    <3>1. marking[p] \in Seq(Token) /\ marking[p] # <<>>
      BY <1>0, <2>1
    <3> QED
      BY <3>1, EmptySeq, HeadTailProperties
  <2>4. \A p \in InputPlaces[t] : Tokens[p] > 0
    BY <1>0, <2>3 DEF Tokens
  <2>5. Tokens' = [p \in Place |-> IF p \in InputPlaces[t] THEN Tokens[p] - 1 ELSE Tokens[p]]
    BY <2>1, <2>3 DEF Tokens
  <2>6. Opens' = [Opens EXCEPT ![t] = @ + 1]
    <3>1. ASSUME NEW u \in Transition PROVE Open(u)' = IF u = t THEN Open(u) + 1 ELSE Open(u)
      <4>1. Kids(u)' = Kids(u)
        BY <2>1 DEF Kids
      <4>2. Open(u)' = Busy(u)' + Cardinality(Kids(u)')
        BY DEF Open, Busy, Kids
      <4>3. Busy(u)' = IF u = t THEN Busy(u) + 1 ELSE Busy(u)
        BY <1>0, <2>1 DEF Busy
      <4> QED
        BY <4>1, <4>2, <4>3, OpenType
    <3> QED
      BY <3>1 DEF Opens
  <2> QED
    BY <2>1, <2>2, <2>4, <2>5, <2>6, GameTake DEF Played
<1> QED
  BY <1>1, <1>2

LEMMA SpawnPlays == ASSUME Playing, NEW t \in Transition, NEW i \in Child, SpawnChild(t, i) PROVE Played
<1>0. fire \in [Transition -> FireStatus] /\ child \in [Child -> ChildStatus] /\ DOMAIN owner = Child
  BY FireStatusTyped DEF Playing
<1>1. /\ fire[t] = "run" /\ fire' = [fire EXCEPT ![t] = "ok"]
      /\ child[i] = "free" /\ child' = [child EXCEPT ![i] = "run"]
      /\ owner' = [owner EXCEPT ![i] = t] /\ UNCHANGED <<marking, result>>
  BY DEF SpawnChild, netVars, mainVars
<1>2. Opens' = Opens
  <2>1. ASSUME NEW u \in Transition PROVE Open(u)' = Open(u)
    <3>1. Open(u)' = Busy(u)' + Cardinality(Kids(u)')
      BY DEF Open, Busy, Kids
    <3>2. CASE u = t
      <4>1. Busy(u)' = 0 /\ Busy(u) = 1
        BY <1>0, <1>1, <3>2 DEF Busy
      <4>2. i \notin Kids(u) /\ Kids(u)' = Kids(u) \cup {i} /\ Kids(u) \subseteq Child
        BY <1>0, <1>1, <3>2 DEF Kids
      <4>3. IsFiniteSet(Kids(u)) /\ Cardinality(Kids(u)) \in Nat
        BY <4>2, KidsFinite
      <4>4. Cardinality(Kids(u) \cup {i}) = Cardinality(Kids(u)) + 1
        BY <4>2, <4>3, FS_AddElement
      <4> QED
        BY <3>1, <4>1, <4>2, <4>3, <4>4, OpenType
    <3>3. CASE u # t
      <4>1. Busy(u)' = Busy(u)
        BY <1>0, <1>1, <3>3 DEF Busy
      <4>2. Kids(u)' = Kids(u)
        BY <1>0, <1>1, <3>3 DEF Kids
      <4> QED
        BY <3>1, <4>1, <4>2, OpenType
    <3> QED
      BY <3>2, <3>3
  <2> QED
    BY <2>1 DEF Opens
<1> QED
  BY <1>1, <1>2, Verdicts, GameStutter DEF Played

LEMMA FiringPlays == ASSUME Playing, NEW t \in Transition, Firing(t) PROVE Played
<1>0. fire \in [Transition -> FireStatus] /\ FireType /\ MainType
  BY FireStatusTyped DEF Playing, TypeOK
<1>1. CASE FireDeposit(t)
  <2> DEFINE p == OutputPlaces[t][slot[t]]
  <2>0. /\ fire[t] = "deposit" /\ slot[t] <= Len(OutputPlaces[t])
        /\ UNCHANGED <<child, owner, result>>
    BY <1>1 DEF FireDeposit, mainVars, childVars
  <2>1. CASE Accepts(p, Stamped(t, slot[t]))
    <3>1. marking' = Deposit(marking, p, Stamped(t, slot[t])) /\ UNCHANGED fire
      BY <1>1, <2>1 DEF FireDeposit
    <3>2. p \in Place /\ Stamped(t, slot[t]) \in Token
      BY <1>0, <2>0, StampedType
    <3>3. p \in Outs(t)
      <4>1. slot[t] \in DOMAIN OutputPlaces[t]
        BY <1>0, <2>0, NetAssumption DEF FireType
      <4> QED
        BY <4>1 DEF Outs
    <3>4. Open(t) > 0
      BY <2>0, OpenType
    <3> QED
      BY <2>0, <3>1, <3>2, <3>3, <3>4, DepositPlays
  <2>2. CASE ~Accepts(p, Stamped(t, slot[t]))
    <3>1. UNCHANGED marking /\ AttemptFails(t, "deposit")
      BY <1>1, <2>2 DEF FireDeposit
    <3>2. \A u \in Transition : fire[u] \in {"idle", "ok"} <=> fire'[u] \in {"idle", "ok"}
      BY <1>0, <2>0, <3>1 DEF AttemptFails
    <3> QED
      BY <2>0, <3>1, <3>2, OpenSame, Verdicts, GameStutter DEF Played
  <2> QED
    BY <2>1, <2>2
<1>2. CASE FireOk(t)
  <2>1. UNCHANGED <<marking, child, owner, result>> /\ fire' = [fire EXCEPT ![t] = "ok"]
    BY <1>2 DEF FireOk, mainVars, childVars
  <2>2. \A u \in Transition : fire[u] \in {"idle", "ok"} => fire'[u] \in {"idle", "ok"}
    BY <1>0, <2>1
  <2> QED
    BY <2>1, <2>2, OpenFalls, Verdicts, GameFinish DEF Played
<1>3. ASSUME NEW i \in Child, SpawnChild(t, i) PROVE Played
  BY <1>3, SpawnPlays
<1>4. ASSUME ~FireDeposit(t), ~FireOk(t), \A i \in Child : ~SpawnChild(t, i) PROVE Played
  <2>1. UNCHANGED <<marking, child, owner, result>> /\ fire[t] \notin {"idle", "ok"}
    BY <1>4 DEF Firing, ToolReturns, ToolFails, SleepOver, SleepCancelled, HITLAsk, HITLReceive,
         HITLTimeout, RevisionReturns, RevisionFails, SpawnFails, netVars, mainVars, childVars
  <2>2. \E s \in FireStatus \ {"idle", "ok"} : fire' = [fire EXCEPT ![t] = s]
    <3>1. ASSUME HITLReceive(t) PROVE \/ \E r : StartDeposit(t, r)
                                      \/ \E e : AttemptFails(t, e)
                                      \/ fire' = [fire EXCEPT ![t] = "revise"]
      BY <3>1 DEF HITLReceive, HITLResponse, RevisionResponse
    <3>2. \/ \E r : StartDeposit(t, r)
          \/ \E e : AttemptFails(t, e)
          \/ fire' = [fire EXCEPT ![t] = "revise"]
          \/ fire' = [fire EXCEPT ![t] = "run"]
          \/ fire' = [fire EXCEPT ![t] = "err"]
          \/ fire' = [fire EXCEPT ![t] = "blocked"]
      BY <1>4, <3>1 DEF Firing, ToolReturns, ToolFails, SleepOver, SleepCancelled, HITLAsk,
           HITLTimeout, RevisionReturns, RevisionFails, SpawnFails
    <3> QED
      BY <3>2 DEF StartDeposit, AttemptFails, FireStatus
  <2>3. \A u \in Transition : fire[u] \in {"idle", "ok"} <=> fire'[u] \in {"idle", "ok"}
    BY <1>0, <2>1, <2>2
  <2> QED
    BY <2>1, <2>3, OpenSame, Verdicts, GameStutter DEF Played
<1> QED
  BY <1>1, <1>2, <1>3, <1>4

LEMMA ChildPlays == ASSUME Playing, NEW i \in Child, ChildStep(i) PROVE Played
<1>0. /\ child \in [Child -> ChildStatus] /\ DOMAIN owner = Child /\ ChildType
      /\ \A j \in Child : child[j] # "free" => owner[j] \in Transition
  BY FireStatusTyped DEF Playing, TypeOK
<1>1. CASE ChildFailure(i)
  <2> DEFINE t == owner[i]
             p == ErrorPlace[t]
  <2>1. /\ child[i] = "failing" /\ child' = [child EXCEPT ![i] = "dereg"] /\ t \in Transition
        /\ UNCHANGED <<fire, owner, result>>
    BY <1>0, <1>1 DEF ChildFailure, fireVars, mainVars
  <2>2. Opens' = Opens
    <3>1. \A j \in Child : child[j] \in {"free", "done"} <=> child'[j] \in {"free", "done"}
      BY <1>0, <2>1
    <3> QED
      BY <2>1, <3>1, OpenSame
  <2>3. Open(t) > 0 /\ Verdict' = Verdict
    BY <2>1, OpenType, Verdicts
  <2>4. CASE UNCHANGED marking
    BY <2>2, <2>3, <2>4, Verdicts, GameStutter DEF Played
  <2>5. CASE p # NoPlace /\ marking' = Deposit(marking, p, ErrorToken(t, born[i]))
    <3>1. p \in Place /\ p \in Outs(t) /\ ErrorToken(t, born[i]) \in Token
      BY <1>0, <2>1, <2>5, NetAssumption, ErrorTokenType DEF Outs, ChildType
    <3>2. Tokens' = [Tokens EXCEPT ![p] = @ + 1]
      BY <2>5, <3>1, PutToken, FireStatusTyped DEF Playing
    <3>3. Opens[t] > 0
      BY <2>1, <2>3 DEF Opens
    <3> QED
      BY <2>1, <2>2, <2>3, <3>1, <3>2, <3>3, GamePut DEF Played
  <2> QED
    BY <1>1, <2>4, <2>5 DEF ChildFailure
<1>2. CASE ChildDeposit(i)
  <2> DEFINE t == owner[i]
             p == Head(outbox[i])
             tok == Fitted(p, Head(lot[i]).val, Head(lot[i]).hitl, born[i])
  <2>1. /\ child[i] = "deposit" /\ outbox[i] # <<>> /\ t \in Transition
        /\ UNCHANGED <<fire, child, owner, result>> /\ marking' = Deposit(marking, p, tok)
    BY <1>0, <1>2 DEF ChildDeposit, fireVars, mainVars
  <2>2. p \in Place /\ tok \in Token
    <3>1. p \in Place
      BY <1>0, <2>1, HeadTail DEF ChildType
    <3>2. Head(lot[i]) \in [val : Val, hitl : BOOLEAN]
      BY <1>0, <2>1, HeadTail DEF ChildType
    <3> QED
      BY <1>0, <3>1, <3>2, FittedType DEF ChildType
  <2>3. p \in Outs(t)
    <3>1. 1 \in 1..Len(outbox[i]) /\ p = outbox[i][1]
      BY <1>0, <2>1 DEF ChildType
    <3>2. \E m \in DOMAIN OutputPlaces[t] : p = OutputPlaces[t][m]
      BY <2>1, <3>1 DEF Playing, Linked, Addressed
    <3> QED
      BY <3>2 DEF Outs
  <2>4. Open(t) > 0
    BY <2>1, OpenType
  <2> HIDE DEF t, p, tok
  <2> QED
    BY <2>1, <2>2, <2>3, <2>4, DepositPlays
<1>3. CASE ChildDec(i)
  <2>1. UNCHANGED <<marking, fire, owner, result>> /\ child' = [child EXCEPT ![i] = "done"]
    BY <1>3 DEF ChildDec, ChildUnwind, netVars, mainVars, fireVars
  <2>2. \A j \in Child : child[j] \in {"free", "done"} => child'[j] \in {"free", "done"}
    BY <1>0, <2>1
  <2> QED
    BY <2>1, <2>2, OpenFalls, Verdicts, GameFinish DEF Played
<1>4. CASE ~ChildFailure(i) /\ ~ChildDeposit(i) /\ ~ChildDec(i)
  <2>1. UNCHANGED <<marking, fire, owner, result>>
        /\ \A j \in Child : child[j] \in {"free", "done"} <=> child'[j] \in {"free", "done"}
    BY <1>0, <1>4 DEF ChildStep, ChildSucceeds, ChildFails, ChildDelivered, ChildDeregister,
         ChildCloseBus, ChildDone, ChildUnwind, netVars, mainVars, fireVars
  <2> QED
    BY <2>1, OpenSame, Verdicts, GameStutter DEF Played
<1> QED
  BY <1>1, <1>2, <1>3, <1>4

LEMMA DrainPlays == ASSUME Playing, NEW i \in Child, DrainBus(i) PROVE Played
<1>0. marking \in [Place -> Seq(Token)] /\ bus[i] \in Nat
  BY FireStatusTyped DEF Playing, Marking, TypeOK, ChildType
<1>1. pc = "drain" /\ UNCHANGED <<fire, child, owner, result>>
  BY DEF DrainBus, fireVars
<1>2. ASSUME NEW p \in Place
      PROVE  /\ Len(marking'[p]) \in Nat /\ Len(marking'[p]) >= Len(marking[p])
             /\ Observing(p) = {} => Len(marking'[p]) = Len(marking[p])
  <2> DEFINE n == bus[i] * Cardinality(Observing(p))
             events == [k \in 1..n |-> EventToken(born[i])]
  <2>1. n \in Nat /\ (Observing(p) = {} => n = 0)
    <3>1. Cardinality(Observing(p)) \in Nat
      BY CopiesType
    <3>2. Observing(p) = {} => Cardinality(Observing(p)) = 0
      BY FS_EmptySet
    <3>3. n \in Nat
      BY <1>0, <3>1
    <3>4. Cardinality(Observing(p)) = 0 => n = 0
      BY <1>0
    <3> QED
      BY <3>2, <3>3, <3>4
  <2>2. events \in Seq(Token) /\ Len(events) = n
    <3>1. EventToken(born[i]) \in Token
      BY EventTokenType DEF Playing, TypeOK, ChildType
    <3> HIDE DEF n
    <3> QED
      BY <2>1, <3>1
  <2>3. Len(marking[p]) \in Nat
    BY <1>0
  <2>4. marking'[p] = marking[p] \/ marking'[p] = marking[p] \o events
    BY DEF DrainBus
  <2>5. Len(marking[p] \o events) = Len(marking[p]) + n
    <3> DEFINE e == events
    <3>1. marking[p] \in Seq(Token) /\ e \in Seq(Token) /\ Len(e) = n
      BY <1>0, <2>2
    <3> HIDE DEF e
    <3>2. Len(marking[p] \o e) = Len(marking[p]) + Len(e)
      BY <3>1, ConcatProperties
    <3> QED
      BY <3>1, <3>2 DEF e
  <2> QED
    BY <2>1, <2>3, <2>4, <2>5
<1>3. Tokens' \in [Place -> Nat]
  BY <1>2 DEF Tokens
<1>4. \A p \in Place : IF Observing(p) # {} THEN Tokens'[p] >= Tokens[p] ELSE Tokens'[p] = Tokens[p]
  BY <1>2 DEF Tokens
<1>5. Verdict = "none" /\ Verdict' = Verdict
  BY <1>1, Verdicts DEF Playing
<1> QED
  BY <1>1, <1>3, <1>4, <1>5, OpenSame, GameObserve DEF Played

(* Seeds give places as many tokens as they list.                           *)
LEMMA SeedTokens ==
  ASSUME NEW s \in Seeds, NEW run
  PROVE  [p \in Place |-> Len(SeedMarking(s, run)[p])] = [p \in Place |-> Len(s[p])]
<1>1. ASSUME NEW p \in Place PROVE Len(SeedMarking(s, run)[p]) = Len(s[p])
  <2>1. s[p] \in Seq([val : Val, hitl : BOOLEAN])
    BY BehaviourAssumption
  <2>2. SeedMarking(s, run)[p] = [k \in 1..Len(s[p]) |-> Fitted(p, s[p][k].val, s[p][k].hitl, run)]
    BY DEF SeedMarking
  <2> QED
    BY <2>1, <2>2
<1> QED
  BY <1>1

LEMMA ResetPlays == ASSUME Playing, Reset PROVE Played
<1>1. /\ pc = "returned" /\ result' = "running" /\ UNCHANGED <<child, owner>>
      /\ \A t \in Transition : fire'[t] = "idle"
  BY DEF Reset, NoFirings, childVars
<1>2. Verdict # "none" /\ Verdict' = "none"
  BY <1>1, Verdicts DEF Playing, Linked, Verdict
<1>3. PICK s \in Seeds : marking' = SeedMarking(s, epoch')
  BY DEF Reset
<1>4. Tokens' = [p \in Place |-> Len(s[p])]
  BY <1>3, SeedTokens DEF Tokens
<1>5. Tokens' \in {[p \in Place |-> Len(x[p])] : x \in Seeds}
  BY <1>4
<1> QED
  BY <1>1, <1>2, <1>5, OpenFalls, GameAgain DEF Played

LEMMA StepPlays == Playing /\ [Next]_vars => Played
<1> SUFFICES ASSUME Playing, [Next]_vars PROVE Played
  OBVIOUS
<1>1. ASSUME NEW t \in Transition, Collect(t) \/ \E a \in HITLAction : Respond(t, a) PROVE Played
  BY <1>1, QuietPlays DEF Collect, Respond, netVars, mainVars, fireVars, childVars
<1>2. ASSUME NEW i \in Child, ChildEmit(i) PROVE Played
  BY <1>2, QuietPlays DEF ChildEmit, netVars, mainVars, fireVars
<1>3. CASE Cancel \/ UNCHANGED vars
  BY <1>3, QuietPlays DEF Cancel, vars, netVars, mainVars, fireVars, childVars
<1> QED
  BY <1>1, <1>2, <1>3, MainPlays, ConsumePlays, FiringPlays, ChildPlays, DrainPlays, ResetPlays
     DEF Next

LEMMA InitPlays == Init => Game!Init
<1> SUFFICES ASSUME Init PROVE Game!Init
  OBVIOUS
<1>1. PICK s \in Seeds : marking = SeedMarking(s, 1)
  BY DEF Init
<1>2. Tokens = [p \in Place |-> Len(s[p])]
  BY <1>1, SeedTokens DEF Tokens
<1>3. ASSUME NEW t \in Transition PROVE Open(t) = 0
  <2>1. fire[t] = "idle" /\ Kids(t) = {}
    BY DEF Init, Kids
  <2> QED
    BY <2>1, OpenType
<1>4. result = "running"
  BY DEF Init
<1> QED
  BY <1>2, <1>3, <1>4 DEF Game!Init, Tokens

(* PlaysTokenGame: for every net, every number of children and every run,    *)
(* CPN.Run with its goroutines implements the token game.                    *)
THEOREM PlaysTokenGameHolds == Spec => PlaysTokenGame
<1>1. Playing /\ [Next]_vars => [Game!Next]_(Game!gameVars)
  BY StepPlays DEF Played
<1>2. Spec => []Playing
  BY LinkedHolds DEF Playing
<1> QED
  BY <1>1, <1>2, InitPlays, PTL DEF Spec, PlaysTokenGame, Game!Spec
=============================================================================
