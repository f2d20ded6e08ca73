-------------------------- MODULE GateServiceProofs --------------------------
(***************************************************************************)
(* Proofs about GateService for any number of commands, agents, targets    *)
(* and payload classes, with or without store faults.                      *)
(***************************************************************************)
EXTENDS GateService, TLAPS

(***************************************************************************)
(* Type correctness: the service never leaves the values TypeOK lists.     *)
(***************************************************************************)
LEMMA InitTypeOK == Init => TypeOK
BY ConstantsAssumption DEF Init, TypeOK, Idle, Steps, States, Actions

(* Evaluate has four possible results.                                      *)
LEMMA EvaluationType ==
    ASSUME NEW t, NEW p
    PROVE  Evaluation(t, p) \in {"deny", "ask", "persistent_allow",
                                "target_allow"}
BY DEF Evaluation

LEMMA OperatorTypeOK == TypeOK /\ Operator => TypeOK'
<1> SUFFICES ASSUME TypeOK, Operator PROVE TypeOK'
  OBVIOUS
<1> USE DEF TypeOK, registryVars, brokerVars, execVars, connVars
<1>1. ASSUME NEW t \in Targets, AddTarget(t) PROVE TypeOK'
  BY <1>1 DEF AddTarget
<1>2. ASSUME NEW t \in Targets, DetachRevoke(t) PROVE TypeOK'
  BY <1>2 DEF DetachRevoke
<1>3. ASSUME NEW a \in Agents, NEW t \in Targets, Attach(a, t) PROVE TypeOK'
  BY <1>3 DEF Attach
<1>4. ASSUME NEW c \in Commands, CancelCommand(c) PROVE TypeOK'
  BY <1>4 DEF CancelCommand
<1>5. ASSUME NEW c \in Commands, NEW x \in Actions, Decide(c, x) PROVE TypeOK'
  BY <1>5 DEF Decide
<1>6. CASE DetachForwards
  BY <1>6 DEF DetachForwards, Idle
<1>7. CASE DetachRemove
  BY <1>7 DEF DetachRemove, Idle
<1>8. CASE DetachPolicy
  BY <1>8 DEF DetachPolicy, Idle
<1>9. CASE DetachStore
  BY <1>9 DEF DetachStore, Idle
<1> QED
  BY <1>1, <1>2, <1>3, <1>4, <1>5, <1>6, <1>7, <1>8, <1>9 DEF Operator

LEMMA AgentTypeOK == TypeOK /\ Agent => TypeOK'
<1> SUFFICES ASSUME TypeOK, NEW c \in Commands,
                    (\E a \in Agents : OpenSession(c, a)) \/ CancelRequest(c)
             PROVE  TypeOK'
  BY DEF Agent
<1> USE DEF TypeOK, registryVars, brokerVars, execVars, connVars, Goto, Steps
<1>1. ASSUME NEW a \in Agents, OpenSession(c, a) PROVE TypeOK'
  BY <1>1 DEF OpenSession
<1>2. CASE CancelRequest(c)
  BY <1>2 DEF CancelRequest
<1> QED
  BY <1>1, <1>2

(* What UpdateThenSend may leave in the variables it writes.                *)
LEMMA UpdateThenSendType ==
    ASSUME TypeOK, NEW c \in Commands, pc[c] # "idle",
           NEW next \in States, NEW step \in Steps,
           UpdateThenSend(c, next, step)
    PROVE  /\ row' \in [Commands -> States \cup {"none"}]
           /\ broken' \in [Commands -> BOOLEAN]
           /\ pc' \in [Commands -> Steps]
           /\ \A d \in Commands : pc'[d] # "idle" => pc[d] # "idle"
<1>1. CASE /\ row' = [row EXCEPT ![c] = next]
           /\ Goto(c, step) /\ UNCHANGED broken
  BY <1>1 DEF TypeOK, Goto
<1>2. CASE /\ row' = [row EXCEPT ![c] = next]
           /\ Goto(c, "done") /\ broken' = [broken EXCEPT ![c] = TRUE]
  BY <1>2 DEF TypeOK, Goto, Steps
<1>3. CASE Goto(c, "done") /\ UNCHANGED <<row, broken>>
  BY <1>3 DEF TypeOK, Goto, Steps
<1> QED
  BY <1>1, <1>2, <1>3 DEF UpdateThenSend

LEMMA GoroutineTypeOK ==
    ASSUME TypeOK, NEW c \in Commands, Goroutine(c)
    PROVE  TypeOK'
<1> USE DEF TypeOK, registryVars, brokerVars, execVars, connVars, Goto, Steps,
            States, Terminal, Actions, UpdateWithoutCancel
<1>1. CASE Submit(c)
  BY <1>1 DEF Submit
<1>2. CASE Evaluate(c)
  BY <1>2, EvaluationType DEF Evaluate
<1>3. CASE Create(c)
  BY <1>3, UpdateThenSendType DEF Create
<1>4. CASE Park(c)
  BY <1>4, UpdateThenSendType DEF Park, Transition
<1>5. CASE Publish(c)
  BY <1>5 DEF Publish
<1>6. CASE TakeDecision(c)
  BY <1>6 DEF TakeDecision
<1>7. CASE AbandonWait(c)
  BY <1>7 DEF AbandonWait
<1>8. CASE CancelWaiting(c)
  BY <1>8 DEF CancelWaiting, Transition
<1>9. CASE RecordApproval(c)
  BY <1>9 DEF RecordApproval
<1>10. CASE InstallRule(c)
  <2>1. session[c] \in Targets /\ PayloadOf[c] \in Payloads
    BY <1>10, ConstantsAssumption DEF InstallRule
  <2>2. temporary' \in [Targets -> SUBSET Payloads]
    BY <1>10, <2>1 DEF InstallRule
  <2> QED
    BY <1>10, <2>2 DEF InstallRule
<1>11. CASE FinishDenied(c)
  BY <1>11, UpdateThenSendType DEF FinishDenied, Transition
<1>12. CASE Start(c)
  BY <1>12, UpdateThenSendType DEF Start, Transition
<1>13. CASE Track(c)
  BY <1>13 DEF Track
<1>14. CASE BackendStart(c)
  <2>1. ran' \in [Commands -> BOOLEAN]
    BY <1>14, ZenonT(60) DEF BackendStart
  <2>2. outcome' \in [Commands -> {"none", "zero", "nonzero", "error"}]
    BY <1>14 DEF BackendStart
  <2> QED
    BY <1>14, <2>1, <2>2 DEF BackendStart
<1>15. CASE BackendReturn(c)
  BY <1>15 DEF BackendReturn
<1>16. CASE FinishError(c)
  BY <1>16 DEF FinishError, Transition
<1>17. CASE FinishResult(c)
  BY <1>17 DEF FinishResult, Transition
<1>18. CASE Untrack(c)
  BY <1>18 DEF Untrack
<1>19. CASE Operate(c)
  BY <1>19 DEF Operate, Transition
<1> QED
  BY <1>1, <1>2, <1>3, <1>4, <1>5, <1>6, <1>7, <1>8, <1>9, <1>10, <1>11,
     <1>12, <1>13, <1>14, <1>15, <1>16, <1>17, <1>18, <1>19 DEF Goroutine

(* Every reachable state has the types TypeOK gives.                        *)
THEOREM TypeCorrect == Spec => []TypeOK
<1>1. TypeOK /\ [Next]_vars => TypeOK'
  <2> SUFFICES ASSUME TypeOK, [Next]_vars PROVE TypeOK'
    OBVIOUS
  <2>1. CASE UNCHANGED vars
    BY <2>1 DEF TypeOK, vars, registryVars, brokerVars, execVars, connVars
  <2>2. CASE Next
    BY <2>2, OperatorTypeOK, AgentTypeOK, GoroutineTypeOK DEF Next
  <2> QED
    BY <2>1, <2>2
<1> QED
  BY InitTypeOK, <1>1, PTL DEF Spec

-----------------------------------------------------------------------------
(***************************************************************************)
(* The inductive invariant.  A step of one command leaves the facts about  *)
(* another alone; what links commands is RuleFacts, and the rows it rests  *)
(* on are never taken back (EvidenceStays).                                *)
(***************************************************************************)
LEMMA InitIInv == Init => IInv
<1> SUFFICES ASSUME Init PROVE IInv
  OBVIOUS
<1>1. TypeOK
  BY InitTypeOK
<1>2. ASSUME NEW c \in Commands PROVE StepFacts(c) /\ RowFacts(c)
  BY <1>2 DEF Init, StepFacts, RowFacts, Unrecorded, AwaitingDecision,
              Decided, Tracked, InRun
<1>3. RuleFacts
  BY DEF Init, RuleFacts
<1> QED
  BY <1>1, <1>2, <1>3 DEF IInv

(* An allow_target row stays, and so does the target of its session.        *)
LEMMA EvidenceStays ==
    ASSUME IInv, [Next]_vars, NEW t, NEW p, AllowedForTarget(t, p)
    PROVE  AllowedForTarget(t, p)'
<1>1. PICK d \in Commands : /\ session[d] = t /\ PayloadOf[d] = p
                            /\ approvalRow[d] = "allow_target"
  BY DEF AllowedForTarget
<1>2. pc[d] # "idle" /\ pc[d] # "decided"
  BY <1>1 DEF IInv, StepFacts, Unrecorded, AwaitingDecision
<1>3. session'[d] = session[d] /\ approvalRow'[d] = approvalRow[d]
  <2>1. CASE UNCHANGED <<session, approvalRow>>
    BY <2>1
  <2>2. ASSUME NEW c \in Commands, NEW a \in Agents, OpenSession(c, a)
        PROVE  session'[d] = session[d] /\ approvalRow'[d] = approvalRow[d]
    BY <2>2, <1>2 DEF OpenSession, IInv, TypeOK
  <2>3. ASSUME NEW c \in Commands, RecordApproval(c)
        PROVE  session'[d] = session[d] /\ approvalRow'[d] = approvalRow[d]
    BY <2>3, <1>2 DEF RecordApproval, IInv, TypeOK
  <2>4. CASE Operator
    BY <2>1, <2>4 DEF Operator, AddTarget, DetachRevoke, Attach,
       CancelCommand, Decide, DetachForwards, DetachRemove, DetachPolicy,
       DetachStore
  <2>5. CASE Agent
    BY <2>1, <2>2, <2>5 DEF Agent, CancelRequest
  <2>6. ASSUME NEW c \in Commands, Goroutine(c)
        PROVE  session'[d] = session[d] /\ approvalRow'[d] = approvalRow[d]
    BY <2>1, <2>3, <2>6 DEF Goroutine, Submit, Evaluate, Create, Park,
       Publish, TakeDecision, AbandonWait, CancelWaiting, InstallRule,
       FinishDenied, Start, Track, BackendStart, BackendReturn, FinishError,
       FinishResult, Untrack, Operate
  <2> QED
    BY <2>1, <2>4, <2>5, <2>6 DEF Next, vars
<1> QED
  BY <1>1, <1>3 DEF AllowedForTarget

(* The goroutine of c keeps the facts about every command d.                *)
LEMMA GoroutineFacts ==
    ASSUME IInv, NEW c \in Commands, Goroutine(c), NEW d \in Commands
    PROVE  StepFacts(d)' /\ RowFacts(d)'
<1> USE DEF IInv, TypeOK, StepFacts, RowFacts, Permitted, PolicyAllows,
            Unrecorded, AwaitingDecision, Decided, Tracked, InRun, Goto, Steps,
            brokerVars, execVars
<1>1. CASE Submit(c)
  BY <1>1 DEF Submit
<1>2. CASE Evaluate(c)
  BY <1>2, EvaluationType DEF Evaluate
<1>3. CASE Create(c)
  BY <1>3 DEF Create, UpdateThenSend
<1>4. CASE Park(c)
  BY <1>4 DEF Park, Transition, UpdateThenSend
<1>5. CASE Publish(c)
  BY <1>5 DEF Publish
<1>6. CASE TakeDecision(c)
  BY <1>6 DEF TakeDecision
<1>7. CASE AbandonWait(c)
  BY <1>7 DEF AbandonWait
<1>8. CASE CancelWaiting(c)
  BY <1>8 DEF CancelWaiting, Transition, UpdateWithoutCancel
<1>9. CASE RecordApproval(c)
  BY <1>9 DEF RecordApproval
<1>10. CASE InstallRule(c)
  BY <1>10 DEF InstallRule
<1>11. CASE FinishDenied(c)
  BY <1>11 DEF FinishDenied, Transition, UpdateThenSend
<1>12. CASE Start(c)
  BY <1>12 DEF Start, Transition, UpdateThenSend
<1>13. CASE Track(c)
  BY <1>13 DEF Track
<1>14. CASE BackendStart(c)
  <2>1. ran' \in [Commands -> BOOLEAN]
    BY <1>14, ZenonT(60) DEF BackendStart
  <2>2. outcome' \in [Commands -> {"none", "zero", "nonzero", "error"}]
    BY <1>14 DEF BackendStart
  <2> QED
    BY <1>14, <2>1, <2>2 DEF BackendStart
<1>15. CASE BackendReturn(c)
  BY <1>15 DEF BackendReturn
<1>16. CASE FinishError(c)
  BY <1>16 DEF FinishError, Transition, UpdateWithoutCancel
<1>17. CASE FinishResult(c)
  BY <1>17 DEF FinishResult, Transition, UpdateWithoutCancel
<1>18. CASE Untrack(c)
  BY <1>18 DEF Untrack
<1>19. CASE Operate(c)
  BY <1>19 DEF Operate, Transition, UpdateWithoutCancel
<1> QED
  BY <1>1, <1>2, <1>3, <1>4, <1>5, <1>6, <1>7, <1>8, <1>9, <1>10, <1>11,
     <1>12, <1>13, <1>14, <1>15, <1>16, <1>17, <1>18, <1>19 DEF Goroutine

(* The operator and the agents keep the facts about every command d.        *)
LEMMA OthersFacts ==
    ASSUME IInv, Operator \/ Agent, NEW d \in Commands
    PROVE  StepFacts(d)' /\ RowFacts(d)'
<1> USE DEF IInv, TypeOK, StepFacts, RowFacts, Permitted, PolicyAllows,
            Unrecorded, AwaitingDecision, Decided, Tracked, InRun, Goto, Steps,
            Actions, registryVars, brokerVars, execVars, connVars
<1>1. ASSUME NEW c \in Commands, NEW x \in Actions, Decide(c, x)
      PROVE  StepFacts(d)' /\ RowFacts(d)'
  BY <1>1 DEF Decide
<1>2. ASSUME NEW c \in Commands, NEW a \in Agents, OpenSession(c, a)
      PROVE  StepFacts(d)' /\ RowFacts(d)'
  BY <1>2 DEF OpenSession
<1>3. CASE UNCHANGED <<pc, verdict, state, pending, decision, running, outcome,
                       row, approvalRow, ran>>
  BY <1>3
<1>4. CASE Operator
  <2>1. CASE \E c \in Commands, x \in Actions : Decide(c, x)
    BY <1>1, <2>1
  <2>2. ASSUME NEW t \in Targets, AddTarget(t) \/ DetachRevoke(t)
        PROVE  StepFacts(d)' /\ RowFacts(d)'
    BY <1>3, <2>2 DEF AddTarget, DetachRevoke
  <2>3. ASSUME NEW a \in Agents, NEW t \in Targets, Attach(a, t)
        PROVE  StepFacts(d)' /\ RowFacts(d)'
    BY <1>3, <2>3 DEF Attach
  <2>4. ASSUME NEW c \in Commands, CancelCommand(c)
        PROVE  StepFacts(d)' /\ RowFacts(d)'
    BY <1>3, <2>4 DEF CancelCommand
  <2>5. CASE DetachForwards \/ DetachRemove \/ DetachPolicy \/ DetachStore
    BY <1>3, <2>5 DEF DetachForwards, DetachRemove, DetachPolicy, DetachStore
  <2> HIDE DEF IInv, TypeOK, StepFacts, RowFacts
  <2> QED
    BY <1>4, <2>1, <2>2, <2>3, <2>4, <2>5 DEF Operator
<1>5. CASE Agent
  BY <1>2, <1>3, <1>5 DEF Agent, CancelRequest
<1> QED
  BY <1>4, <1>5

LEMMA RuleFactsStay == IInv /\ [Next]_vars => RuleFacts'
<1> SUFFICES ASSUME IInv, [Next]_vars PROVE RuleFacts'
  OBVIOUS
<1>1. ASSUME NEW t \in Targets, NEW p \in temporary'[t]
      PROVE  AllowedForTarget(t, p)'
  <2>1. CASE p \in temporary[t]
    BY <2>1, EvidenceStays DEF IInv, RuleFacts
  <2>2. CASE p \notin temporary[t]
    <3>1. PICK c \in Commands : InstallRule(c)
      <4>1. CASE UNCHANGED temporary
        BY <4>1, <2>2, <1>1
      <4>2. CASE DetachPolicy
        BY <4>2, <2>2, <1>1 DEF DetachPolicy, IInv, TypeOK
      <4> QED
        BY <4>1, <4>2 DEF Next, vars, Operator, AddTarget, DetachRevoke,
           Attach, CancelCommand, Decide, DetachForwards, DetachRemove,
           DetachStore, Agent, OpenSession, CancelRequest, Goroutine, Submit,
           Evaluate, Create, Park, Publish, TakeDecision, AbandonWait,
           CancelWaiting, RecordApproval, FinishDenied, Start, Track,
           BackendStart, BackendReturn, FinishError, FinishResult, Untrack,
           Operate
    <3>2. session[c] = t /\ PayloadOf[c] = p
      BY <3>1, <2>2, <1>1 DEF InstallRule, IInv, TypeOK
    <3>3. approvalRow[c] = "allow_target"
      BY <3>1 DEF InstallRule, IInv, StepFacts, Decided
    <3> QED
      BY <3>2, <3>3, EvidenceStays DEF AllowedForTarget
  <2> QED
    BY <2>1, <2>2
<1>2. ASSUME NEW c \in Commands, verdict'[c] = "target_allow"
      PROVE  AllowedForTarget(session[c], PayloadOf[c])'
  <2>1. CASE verdict[c] = "target_allow" /\ session'[c] = session[c]
    BY <2>1, EvidenceStays DEF IInv, RuleFacts, AllowedForTarget
  <2>2. CASE Evaluate(c)
    <3>1. session'[c] = session[c] /\ session[c] \in Targets
      BY <2>2 DEF Evaluate, IInv, TypeOK
    <3>2. Evaluation(session[c], PayloadOf[c]) = "target_allow"
      BY <2>2, <1>2 DEF Evaluate, IInv, TypeOK
    <3>3. PayloadOf[c] \in temporary[session[c]]
      BY <3>2 DEF Evaluation
    <3> QED
      BY <3>1, <3>3, EvidenceStays DEF IInv, RuleFacts, AllowedForTarget
  <2>3. Evaluate(c) \/ (verdict[c] = "target_allow" /\ session'[c] = session[c])
    <3>1. CASE UNCHANGED <<verdict, session>>
      BY <3>1, <1>2
    <3>2. ASSUME NEW d \in Commands, Evaluate(d)
          PROVE  Evaluate(c) \/ UNCHANGED <<verdict[c], session[c]>>
      BY <3>2 DEF Evaluate, IInv, TypeOK
    <3>3. ASSUME NEW d \in Commands, NEW a \in Agents, OpenSession(d, a)
          PROVE  verdict'[c] = verdict[c] /\ (c # d => session'[c] = session[c])
      BY <3>3 DEF OpenSession, IInv, TypeOK
    <3>4. ASSUME NEW d \in Commands, NEW a \in Agents, OpenSession(d, a)
          PROVE  verdict[d] = "none"
      BY <3>4 DEF OpenSession, IInv, StepFacts, Unrecorded
    <3>5. CASE Operator \/ UNCHANGED vars
      BY <3>1, <3>5 DEF vars, Operator, AddTarget, DetachRevoke, Attach,
         CancelCommand, Decide, DetachForwards, DetachRemove, DetachPolicy,
         DetachStore
    <3>6. CASE Agent
      BY <3>1, <3>3, <3>4, <3>6, <1>2 DEF Agent, CancelRequest
    <3>7. ASSUME NEW d \in Commands, Goroutine(d)
          PROVE  Evaluate(c) \/ (verdict[c] = "target_allow"
                                   /\ session'[c] = session[c])
      BY <3>1, <3>2, <3>7, <1>2 DEF Goroutine, Submit, Create, Park, Publish,
         TakeDecision, AbandonWait, CancelWaiting, RecordApproval, InstallRule,
         FinishDenied, Start, Track, BackendStart, BackendReturn, FinishError,
         FinishResult, Untrack, Operate
    <3> QED
      BY <3>5, <3>6, <3>7 DEF Next, vars
  <2> QED
    BY <2>1, <2>2, <2>3
<1> QED
  BY <1>1, <1>2 DEF RuleFacts

(* IInv is an invariant of the service.                                     *)
THEOREM Inductive == Spec => []IInv
<1>1. IInv /\ [Next]_vars => IInv'
  <2> SUFFICES ASSUME IInv, [Next]_vars PROVE IInv'
    OBVIOUS
  <2>1. TypeOK'
    <3>1. CASE UNCHANGED vars
      BY <3>1 DEF IInv, TypeOK, vars, registryVars, brokerVars, execVars,
                  connVars
    <3>2. CASE Next
      BY <3>2, OperatorTypeOK, AgentTypeOK, GoroutineTypeOK DEF Next, IInv
    <3> QED
      BY <3>1, <3>2
  <2>2. ASSUME NEW d \in Commands PROVE StepFacts(d)' /\ RowFacts(d)'
    <3>1. CASE UNCHANGED vars
      BY <3>1 DEF IInv, StepFacts, RowFacts, Permitted, PolicyAllows, vars,
                  brokerVars, execVars
    <3>2. CASE Next
      BY <3>2, GoroutineFacts, OthersFacts DEF Next
    <3> QED
      BY <3>1, <3>2
  <2>3. RuleFacts'
    BY RuleFactsStay
  <2> QED
    BY <2>1, <2>2, <2>3 DEF IInv
<1> QED
  BY InitIInv, <1>1, PTL DEF Spec

-----------------------------------------------------------------------------
(* For every number of commands and targets, and whatever fails: a payload  *)
(* reaches a target only with an allow rule or a recorded decision behind   *)
(* it.                                                                      *)
THEOREM HumanBehind == Spec => []HumanBehindEveryRun
<1>1. IInv => HumanBehindEveryRun
  BY DEF IInv, RowFacts, RuleFacts, Permitted, PolicyAllows,
         HumanBehindEveryRun
<1> QED
  BY Inductive, <1>1, PTL

(* The row of a command says it runs before it reaches its target.          *)
THEOREM AuditFirst == Spec => []AuditBeforeRun
<1>1. IInv => AuditBeforeRun
  BY DEF IInv, RowFacts, AuditBeforeRun
<1> QED
  BY Inductive, <1>1, PTL

(* A denied command never runs and is never recorded as if it had.          *)
THEOREM DenialIsFinal == Spec => []DenialHolds
<1>1. IInv => DenialHolds
  BY DEF IInv, RowFacts, Permitted, PolicyAllows, DenialHolds
<1> QED
  BY Inductive, <1>1, PTL

(* A request the operator can see still waits for its one decision.         *)
THEOREM PendingIsLive == Spec => []PendingAwaitsDecision
<1>1. IInv => PendingAwaitsDecision
  BY DEF IInv, TypeOK, StepFacts, AwaitingDecision, PendingAwaitsDecision
<1> QED
  BY Inductive, <1>1, PTL

(* A running process can always be cancelled.                               *)
THEOREM ProcessesAreTracked == Spec => []ProcessIsTracked
<1>1. IInv => ProcessIsTracked
  BY DEF IInv, StepFacts, Tracked, InRun, ProcessIsTracked
<1> QED
  BY Inductive, <1>1, PTL

-----------------------------------------------------------------------------
(* The goroutine of c moves no row but by a legal transition of its state.  *)
LEMMA GoroutineRowMove ==
    ASSUME IInv, NEW c \in Commands, Goroutine(c), NEW d \in Commands
    PROVE  RowMove(d)
<1> USE DEF IInv, TypeOK, RowMove
<1>1. CASE UNCHANGED row
  BY <1>1
<1>2. CASE Create(c)
  <2>1. row[c] = "none" /\ state[c] = "queued"
    BY <1>2 DEF Create, StepFacts, Unrecorded
  <2> QED
    BY <1>1, <1>2, <2>1 DEF Create, UpdateThenSend
<1>3. ASSUME NEW next \in States, Transition(c, next),
             row' = [row EXCEPT ![c] = next], row[c] = state[c]
      PROVE  RowMove(d)
  BY <1>3 DEF Transition
<1>4. CASE Park(c)
  <2>1. row[c] = state[c]
    BY <1>4 DEF Park, StepFacts
  <2> QED
    BY <1>1, <1>3, <1>4, <2>1 DEF Park, UpdateThenSend, States
<1>5. CASE CancelWaiting(c)
  <2>1. row[c] = state[c]
    BY <1>5 DEF CancelWaiting, StepFacts, AwaitingDecision
  <2> QED
    BY <1>1, <1>3, <1>5, <2>1
       DEF CancelWaiting, UpdateWithoutCancel, States, Terminal
<1>6. CASE FinishDenied(c)
  <2>1. row[c] = state[c]
    BY <1>6 DEF FinishDenied, StepFacts, Decided
  <2> QED
    BY <1>1, <1>3, <1>6, <2>1 DEF FinishDenied, UpdateThenSend, States, Terminal
<1>7. CASE Start(c)
  <2>1. row[c] = state[c]
    BY <1>7 DEF Start, StepFacts, Decided
  <2> QED
    BY <1>1, <1>3, <1>7, <2>1 DEF Start, UpdateThenSend, States
<1>8. CASE FinishError(c) \/ FinishResult(c) \/ Operate(c)
  <2>1. row[c] = state[c]
    BY <1>8 DEF FinishError, FinishResult, Operate, StepFacts, InRun
  <2>2. \/ UNCHANGED row
        \/ \E next \in States : /\ Transition(c, next)
                                /\ row' = [row EXCEPT ![c] = next]
    BY <1>8 DEF FinishError, FinishResult, Operate, UpdateWithoutCancel,
                States, Terminal
  <2> QED
    BY <1>1, <1>3, <2>1, <2>2
<1> QED
  BY <1>1, <1>2, <1>4, <1>5, <1>6, <1>7, <1>8 DEF Goroutine, Submit, Evaluate,
     Publish, TakeDecision, AbandonWait, RecordApproval, InstallRule, Track,
     BackendStart, BackendReturn, Untrack

(* The commands table only makes the moves allowedTransition permits: a     *)
(* terminal row is final.                                                   *)
THEOREM AuditIsMonotone == Spec => AuditHistory
<1>1. IInv /\ [Next]_vars => [\A c \in Commands : RowMove(c)]_row
  <2> SUFFICES ASSUME IInv, [Next]_vars, NEW d \in Commands
               PROVE  RowMove(d) \/ UNCHANGED row
    OBVIOUS
  <2>1. ASSUME NEW c \in Commands, Goroutine(c) PROVE RowMove(d)
    BY <2>1, GoroutineRowMove
  <2>2. CASE Operator \/ Agent \/ UNCHANGED vars
    BY <2>2 DEF vars, Operator, AddTarget, DetachRevoke, Attach,
       CancelCommand, Decide, DetachForwards, DetachRemove, DetachPolicy,
       DetachStore, Agent, OpenSession, CancelRequest
  <2> QED
    BY <2>1, <2>2 DEF Next
<1> QED
  BY <1>1, Inductive, PTL DEF Spec, AuditHistory

-----------------------------------------------------------------------------
(***************************************************************************)
(* Temporary rules are earned and expire whole.  What the inductive        *)
(* invariant lacks is where a detach stands: when it clears the rules of a *)
(* target, the registry has lost it, and no target is added meanwhile.     *)
(***************************************************************************)
RemovedBeforeRules == operator.at = "policy" => operator.target \notin targets

LEMMA RemovedBeforeRulesStep ==
    IInv /\ RemovedBeforeRules /\ [Next]_vars => RemovedBeforeRules'
<1> SUFFICES ASSUME IInv, RemovedBeforeRules, [Next]_vars
             PROVE  RemovedBeforeRules'
  OBVIOUS
<1> USE DEF RemovedBeforeRules
<1>1. CASE UNCHANGED <<targets, operator>>
  BY <1>1
<1>2. CASE OperatorIdle /\ operator' = operator
  BY <1>2 DEF OperatorIdle, Idle
<1>3. ASSUME NEW t \in Targets, DetachRevoke(t) PROVE RemovedBeforeRules'
  BY <1>3 DEF DetachRevoke
<1>4. CASE DetachForwards \/ DetachRemove \/ DetachPolicy \/ DetachStore
  BY <1>4 DEF DetachForwards, DetachRemove, DetachPolicy, DetachStore, Idle,
              IInv, TypeOK
<1>5. CASE Operator
  BY <1>1, <1>2, <1>3, <1>4, <1>5
     DEF Operator, AddTarget, Attach, CancelCommand, Decide
<1>6. CASE Agent \/ UNCHANGED vars
  BY <1>1, <1>6 DEF Agent, OpenSession, CancelRequest, vars, registryVars
<1>7. ASSUME NEW c \in Commands, Goroutine(c) PROVE RemovedBeforeRules'
  BY <1>1, <1>7 DEF registryVars, Goroutine, Submit, Evaluate, Create, Park,
     Publish, TakeDecision, AbandonWait, CancelWaiting, RecordApproval,
     InstallRule, FinishDenied, Start, Track, BackendStart, BackendReturn,
     FinishError, FinishResult, Untrack, Operate
<1> QED
  BY <1>5, <1>6, <1>7 DEF Next

(* Only an installation and a detach change the temporary rules.            *)
LEMMA RulesChangeBy ==
    ASSUME [Next]_vars
    PROVE  \/ UNCHANGED temporary
           \/ DetachPolicy
           \/ \E c \in Commands : InstallRule(c)
BY DEF Next, vars, Operator, AddTarget, DetachRevoke, Attach, CancelCommand,
   Decide, DetachForwards, DetachRemove, DetachStore, Agent, OpenSession,
   CancelRequest, Goroutine, Submit, Evaluate, Create, Park, Publish,
   TakeDecision, AbandonWait, CancelWaiting, RecordApproval, FinishDenied,
   Start, Track, BackendStart, BackendReturn, FinishError, FinishResult,
   Untrack, Operate

(* A temporary rule appears only after its decision is in the approvals     *)
(* table, and the rules of a target go together once it has been removed.   *)
THEOREM RulesEarned == Spec => RulesAreEarned
<1>1. Init => RemovedBeforeRules
  BY DEF Init, Idle, RemovedBeforeRules
<1>2. IInv /\ RemovedBeforeRules /\ [Next]_vars
        => [\A t \in Targets : RuleMove(t)]_temporary
  <2> SUFFICES ASSUME IInv, RemovedBeforeRules, [Next]_vars,
                      temporary' # temporary, NEW t \in Targets
               PROVE  RuleMove(t)
    OBVIOUS
  <2>1. CASE DetachPolicy
    <3>1. /\ operator.target \in Targets \ targets
          /\ temporary' = [temporary EXCEPT ![operator.target] = {}]
      BY <2>1 DEF DetachPolicy, RemovedBeforeRules, IInv, TypeOK, Idle
    <3> QED
      BY <3>1 DEF RuleMove, IInv, TypeOK
  <2>2. ASSUME NEW c \in Commands, InstallRule(c) PROVE RuleMove(t)
    <3>1. session[c] \in Targets /\ approvalRow[c] = "allow_target"
      BY <2>2 DEF InstallRule, IInv, TypeOK, StepFacts, Decided
    <3>2. temporary' = [temporary EXCEPT ![session[c]] =
                                            @ \cup {PayloadOf[c]}]
      BY <2>2 DEF InstallRule
    <3>3. AllowedForTarget(session[c], PayloadOf[c])
      BY <3>1 DEF AllowedForTarget
    <3> QED
      BY <3>1, <3>2, <3>3 DEF RuleMove, IInv, TypeOK
  <2> QED
    BY <2>1, <2>2, RulesChangeBy
<1> QED
  BY <1>1, <1>2, Inductive, RemovedBeforeRulesStep, PTL DEF Spec, RulesAreEarned

-----------------------------------------------------------------------------
(***************************************************************************)
(* A complete audit for an agent that stays, when the store works.  While  *)
(* its request is open and its frames arrive, nothing makes the goroutine  *)
(* return early: it ends with its row written, or was refused before it    *)
(* had one because its target had gone.                                    *)
(***************************************************************************)
Followed(c) ==
    ~parentDone[c] /\ ~broken[c] =>
        /\ pc[c] # "abandoned"
        /\ pc[c] \in {"finished", "done"} =>
              \/ row[c] = state[c] /\ row[c] \in Terminal
              \/ pc[c] = "done" /\ row[c] = "none" /\ verdict[c] = "none"

LEMMA GoroutineFollowed ==
    ASSUME ~StoreFaults, IInv, NEW c \in Commands, Goroutine(c),
           NEW d \in Commands, Followed(d)
    PROVE  Followed(d)'
<1> USE DEF Followed, IInv, TypeOK, Goto, connVars
<1>1. CASE d # c
  <2>1. CASE UNCHANGED <<pc[d], row[d], state[d], verdict[d], parentDone[d],
                         broken[d]>>
    BY <2>1
  <2> QED
    BY <1>1, <2>1 DEF Goroutine, Submit, Evaluate, Create, Park, Publish,
       TakeDecision, AbandonWait, CancelWaiting, RecordApproval, InstallRule,
       FinishDenied, Start, Track, BackendStart, BackendReturn, FinishError,
       FinishResult, Untrack, Operate, Transition, UpdateThenSend,
       UpdateWithoutCancel
<1>2. CASE d = c
  <2>1. CASE Submit(c)
    BY <1>2, <2>1 DEF Submit, StepFacts, Unrecorded
  <2>2. CASE Evaluate(c) \/ Create(c)
    BY <1>2, <2>2 DEF Evaluate, Create, UpdateThenSend, StoreMayFail
  <2>3. CASE Park(c) \/ Start(c)
    BY <1>2, <2>3 DEF Park, Start, UpdateThenSend, StoreMayFail
  <2>4. CASE FinishDenied(c)
    BY <1>2, <2>4
       DEF FinishDenied, Transition, UpdateThenSend, StoreMayFail, Terminal
  <2>5. CASE Publish(c) \/ TakeDecision(c) \/ AbandonWait(c) \/ InstallRule(c)
    BY <1>2, <2>5 DEF Publish, TakeDecision, AbandonWait, InstallRule
  <2>6. CASE CancelWaiting(c)
    BY <1>2, <2>6 DEF CancelWaiting
  <2>7. CASE RecordApproval(c)
    BY <1>2, <2>7 DEF RecordApproval, StoreMayFail
  <2>8. CASE Track(c) \/ BackendStart(c) \/ BackendReturn(c) \/ Untrack(c)
    BY <1>2, <2>8 DEF Track, BackendStart, BackendReturn, Untrack, execVars
  <2>9. CASE FinishError(c)
    BY <1>2, <2>9 DEF FinishError, Transition, UpdateWithoutCancel, Terminal
  <2>10. CASE FinishResult(c)
    BY <1>2, <2>10 DEF FinishResult, Transition, StoreMayFail, Terminal
  <2>11. CASE Operate(c)
    BY <1>2, <2>11 DEF Operate, Transition, UpdateWithoutCancel, Terminal
  <2> QED
    BY <2>1, <2>2, <2>3, <2>4, <2>5, <2>6, <2>7, <2>8, <2>9, <2>10, <2>11
       DEF Goroutine
<1> QED
  BY <1>1, <1>2

LEMMA OthersFollowed ==
    ASSUME IInv, Operator \/ Agent \/ UNCHANGED vars,
           NEW d \in Commands, Followed(d)
    PROVE  Followed(d)'
<1> USE DEF Followed, IInv, TypeOK
<1>1. CASE UNCHANGED <<pc, row, state, verdict, parentDone, broken>>
  BY <1>1
<1>2. ASSUME NEW c \in Commands, NEW a \in Agents, OpenSession(c, a)
      PROVE  Followed(d)'
  BY <1>2 DEF OpenSession, Goto, connVars
<1>3. ASSUME NEW c \in Commands, CancelRequest(c) PROVE Followed(d)'
  BY <1>3 DEF CancelRequest
<1> QED
  BY <1>1, <1>2, <1>3 DEF vars, connVars, Operator, AddTarget, DetachRevoke,
     Attach, CancelCommand, Decide, DetachForwards, DetachRemove,
     DetachPolicy, DetachStore, Agent

(* With a store that works, no command of an agent that stays ends without  *)
(* a terminal row equal to its state.                                       *)
THEOREM AuditIsComplete ==
    ASSUME ~StoreFaults
    PROVE  Spec => []ConnectedAuditComplete
<1> DEFINE AllFollowed == \A c \in Commands : Followed(c)
<1>1. Init => AllFollowed
  BY DEF Init, Followed
<1>2. IInv /\ AllFollowed /\ [Next]_vars => AllFollowed'
  BY GoroutineFollowed, OthersFollowed DEF Next
<1>3. AllFollowed => ConnectedAuditComplete
  BY DEF Followed, ConnectedAuditComplete
<1> HIDE DEF AllFollowed
<1> QED
  BY <1>1, <1>2, <1>3, Inductive, PTL DEF Spec

-----------------------------------------------------------------------------
(***************************************************************************)
(* Refinement: under the mapping of GateService every step of the service  *)
(* is a step of CommandLifecycle or changes nothing it speaks of.          *)
(***************************************************************************)

(* A step that writes neither rows, evidence nor effects is a stutter.      *)
LEMMA StutterStep ==
    ASSUME UNCHANGED <<row, verdict, approvalRow, ran>>
    PROVE  UNCHANGED Lifecycle!vars
<1>1. ASSUME NEW c \in Commands PROVE Permit(c)' = Permit(c)
  BY <1>1 DEF Permit, Permitted, PolicyAllows
<1> QED
  BY <1>1 DEF Lifecycle!vars

(* What Permit says of each state of a row the service can be in.           *)
LEMMA PermitFacts ==
    ASSUME IInv, NEW c \in Commands
    PROVE  /\ row[c] = "none" => Permit(c) = "none"
           /\ row[c] # "none" => (Permit(c) = "allowed" <=> Permitted(c))
           /\ row[c] # "none" /\ verdict[c] = "ask" /\ approvalRow[c] = "none"
                => Permit(c) = "open"
           /\ row[c] # "none" /\ verdict[c] = "ask" /\ approvalRow[c] = "deny"
                => Permit(c) = "refused"
           /\ row[c] # "none" /\ verdict[c] = "deny" => Permit(c) = "refused"
BY DEF Permit, Permitted, PolicyAllows, IInv, RowFacts

(* When a step changes the rows of c alone, and not its evidence, the       *)
(* permits the mapping computes stay as they are.                           *)
LEMMA PermitStays ==
    ASSUME IInv, NEW c \in Commands, NEW s \in States, row[c] # "none",
           row' = [row EXCEPT ![c] = s], UNCHANGED <<verdict, approvalRow>>
    PROVE  [d \in Commands |-> Permit(d)]' = [d \in Commands |-> Permit(d)]
<1>1. ASSUME NEW d \in Commands PROVE Permit(d)' = Permit(d)
  BY <1>1 DEF Permit, Permitted, PolicyAllows, IInv, TypeOK, States, Terminal
<1> QED
  BY <1>1

(* When only the evidence on c changes, only its permit does.               *)
LEMMA PermitChange ==
    ASSUME NEW c \in Commands,
           \A d \in Commands \ {c} :
              UNCHANGED <<row[d], verdict[d], approvalRow[d]>>
    PROVE  [d \in Commands |-> Permit(d)]' =
              [[d \in Commands |-> Permit(d)] EXCEPT ![c] = Permit(c)']
<1>1. ASSUME NEW d \in Commands \ {c} PROVE Permit(d)' = Permit(d)
  BY <1>1 DEF Permit, Permitted, PolicyAllows
<1> QED
  BY <1>1

(* The steps that write the commands table.                                 *)
LEMMA CreateRefines ==
    ASSUME IInv, NEW c \in Commands, Create(c)
    PROVE  Lifecycle!Next \/ UNCHANGED Lifecycle!vars
<1>1. CASE UNCHANGED row
  BY <1>1, StutterStep DEF Create, execVars
<1>2. CASE row' = [row EXCEPT ![c] = "queued"]
  <2>1. row[c] = "none" /\ verdict[c] # "none" /\ approvalRow[c] = "none"
    BY DEF Create, IInv, StepFacts, Unrecorded
  <2>2. row'[c] = "queued" /\ UNCHANGED <<verdict, approvalRow, ran>>
    BY <1>2 DEF Create, execVars, IInv, TypeOK
  <2>3. Permit(c)' \in {"allowed", "refused", "open"}
    BY <2>2 DEF Permit
  <2>4. \A d \in Commands \ {c} : row'[d] = row[d]
    BY <1>2 DEF IInv, TypeOK
  <2>5. [d \in Commands |-> Permit(d)]' =
           [[d \in Commands |-> Permit(d)] EXCEPT ![c] = Permit(c)']
    BY <2>2, <2>4, PermitChange
  <2>6. Lifecycle!Receive(c)
    BY <1>2, <2>1, <2>2, <2>3, <2>5 DEF Lifecycle!Receive
  <2> QED
    BY <2>6 DEF Lifecycle!Next
<1> QED
  BY <1>1, <1>2 DEF Create, UpdateThenSend

LEMMA ParkRefines ==
    ASSUME IInv, NEW c \in Commands, Park(c)
    PROVE  Lifecycle!Next \/ UNCHANGED Lifecycle!vars
<1>1. CASE UNCHANGED row
  BY <1>1, StutterStep DEF Park, execVars
<1>2. CASE row' = [row EXCEPT ![c] = "waiting"]
  <2>1. row[c] = "queued" /\ Permit(c) = "open"
    BY PermitFacts DEF Park, IInv, StepFacts
  <2>2. [d \in Commands |-> Permit(d)]' = [d \in Commands |-> Permit(d)]
    BY <1>2, <2>1, PermitStays DEF Park, States
  <2>3. Lifecycle!Ask(c)
    BY <1>2, <2>1, <2>2 DEF Lifecycle!Ask, Park, execVars
  <2> QED
    BY <2>3 DEF Lifecycle!Next
<1> QED
  BY <1>1, <1>2 DEF Park, UpdateThenSend

LEMMA CancelWaitingRefines ==
    ASSUME IInv, NEW c \in Commands, CancelWaiting(c)
    PROVE  Lifecycle!Next \/ UNCHANGED Lifecycle!vars
<1>1. CASE UNCHANGED row
  BY <1>1, StutterStep DEF CancelWaiting, execVars
<1>2. CASE row' = [row EXCEPT ![c] = "cancelled"]
  <2>1. row[c] = "waiting" /\ Permit(c) = "open"
    BY PermitFacts DEF CancelWaiting, IInv, StepFacts, AwaitingDecision
  <2>2. [d \in Commands |-> Permit(d)]' = [d \in Commands |-> Permit(d)]
    BY <1>2, <2>1, PermitStays DEF CancelWaiting, States, Terminal
  <2>3. Lifecycle!Withdraw(c)
    BY <1>2, <2>1, <2>2 DEF Lifecycle!Withdraw, CancelWaiting, execVars
  <2> QED
    BY <2>3 DEF Lifecycle!Next
<1> QED
  BY <1>1, <1>2 DEF CancelWaiting, UpdateWithoutCancel

LEMMA RecordApprovalRefines ==
    ASSUME IInv, NEW c \in Commands, RecordApproval(c)
    PROVE  Lifecycle!Next \/ UNCHANGED Lifecycle!vars
<1>1. CASE UNCHANGED approvalRow
  BY <1>1, StutterStep DEF RecordApproval, execVars
<1>2. CASE approvalRow' = [approvalRow EXCEPT ![c] = decision[c]]
  <2>1. /\ row[c] = "waiting" /\ Permit(c) = "open" /\ verdict[c] = "ask"
        /\ decision[c] \in Actions
    BY PermitFacts DEF RecordApproval, IInv, TypeOK, StepFacts,
                       AwaitingDecision
  <2>2. approvalRow'[c] = decision[c] /\ UNCHANGED <<row, verdict, ran>>
    BY <1>2 DEF RecordApproval, execVars, IInv, TypeOK
  <2>3. Permit(c)' \in {"allowed", "refused"}
    BY <2>1, <2>2 DEF Permit, Permitted, PolicyAllows, Actions
  <2>4. \A d \in Commands \ {c} : approvalRow'[d] = approvalRow[d]
    BY <1>2 DEF IInv, TypeOK
  <2>5. [d \in Commands |-> Permit(d)]' =
           [[d \in Commands |-> Permit(d)] EXCEPT ![c] = Permit(c)']
    BY <2>2, <2>4, PermitChange
  <2>6. Lifecycle!RecordDecision(c)
    BY <2>1, <2>2, <2>3, <2>5 DEF Lifecycle!RecordDecision
  <2> QED
    BY <2>6 DEF Lifecycle!Next
<1> QED
  BY <1>1, <1>2 DEF RecordApproval

LEMMA FinishDeniedRefines ==
    ASSUME IInv, NEW c \in Commands, FinishDenied(c)
    PROVE  Lifecycle!Next \/ UNCHANGED Lifecycle!vars
<1>1. CASE UNCHANGED row
  BY <1>1, StutterStep DEF FinishDenied, execVars
<1>2. CASE row' = [row EXCEPT ![c] = "denied"]
  <2>1. row[c] \in {"queued", "waiting"} /\ Permit(c) = "refused"
    BY PermitFacts DEF FinishDenied, IInv, StepFacts, Decided
  <2>2. [d \in Commands |-> Permit(d)]' = [d \in Commands |-> Permit(d)]
    BY <1>2, <2>1, PermitStays DEF FinishDenied, States, Terminal
  <2>3. Lifecycle!Refuse(c)
    BY <1>2, <2>1, <2>2 DEF Lifecycle!Refuse, FinishDenied, execVars
  <2> QED
    BY <2>3 DEF Lifecycle!Next
<1> QED
  BY <1>1, <1>2 DEF FinishDenied, UpdateThenSend

(* A goroutine starts a run only with the evidence for it.                  *)
LEMMA StartPermitted ==
    ASSUME IInv, NEW c \in Commands, Start(c)
    PROVE  row[c] \in {"queued", "waiting"} /\ Permitted(c)
BY DEF Start, IInv, StepFacts, Permitted, Decided

LEMMA StartRefines ==
    ASSUME IInv, NEW c \in Commands, Start(c)
    PROVE  Lifecycle!Next \/ UNCHANGED Lifecycle!vars
<1>1. CASE UNCHANGED row
  BY <1>1, StutterStep DEF Start, execVars
<1>2. CASE row' = [row EXCEPT ![c] = "running"]
  <2>1. row[c] \in {"queued", "waiting"} /\ Permit(c) = "allowed"
    BY PermitFacts, StartPermitted
  <2>2. [d \in Commands |-> Permit(d)]' = [d \in Commands |-> Permit(d)]
    BY <1>2, <2>1, PermitStays DEF Start, States
  <2>3. Lifecycle!Begin(c)
    BY <1>2, <2>1, <2>2 DEF Lifecycle!Begin, Start, execVars
  <2> QED
    BY <2>3 DEF Lifecycle!Next
<1> QED
  BY <1>1, <1>2 DEF Start, UpdateThenSend

(* The steps of a run.                                                      *)
LEMMA BackendStartRefines ==
    ASSUME IInv, NEW c \in Commands, BackendStart(c)
    PROVE  Lifecycle!Next \/ UNCHANGED Lifecycle!vars
<1>1. CASE UNCHANGED ran
  BY <1>1, StutterStep DEF BackendStart
<1>2. CASE ran' = [ran EXCEPT ![c] = TRUE]
  <2>1. row[c] = "running" /\ UNCHANGED <<row, verdict, approvalRow>>
    BY DEF BackendStart, IInv, StepFacts, InRun
  <2>2. [d \in Commands |-> Permit(d)]' = [d \in Commands |-> Permit(d)]
    BY <2>1, PermitChange DEF Permit, Permitted, PolicyAllows
  <2>3. Lifecycle!Perform(c)
    BY <1>2, <2>1, <2>2 DEF Lifecycle!Perform
  <2> QED
    BY <2>3 DEF Lifecycle!Next
<1> QED
  BY <1>1, <1>2 DEF BackendStart

LEMMA ConcludeRefines ==
    ASSUME IInv, NEW c \in Commands, row[c] = "running",
           NEW s \in {"succeeded", "failed", "cancelled"},
           row' \in {row, [row EXCEPT ![c] = s]},
           UNCHANGED <<verdict, approvalRow>>,
           ran' \in {ran, [ran EXCEPT ![c] = TRUE]},
           s = "succeeded" => ran'[c]
    PROVE  Lifecycle!Next \/ UNCHANGED Lifecycle!vars
<1>1. CASE UNCHANGED <<row, ran>>
  BY <1>1, StutterStep
<1>2. CASE row' = [row EXCEPT ![c] = s]
  <2>1. [d \in Commands |-> Permit(d)]' = [d \in Commands |-> Permit(d)]
    BY <1>2, PermitStays DEF States, Terminal
  <2>2. Lifecycle!Conclude(c)
    BY <1>2, <2>1 DEF Lifecycle!Conclude
  <2> QED
    BY <2>2 DEF Lifecycle!Next
<1>3. CASE UNCHANGED row /\ ran' = [ran EXCEPT ![c] = TRUE]
  <2>1. [d \in Commands |-> Permit(d)]' = [d \in Commands |-> Permit(d)]
    BY <1>3 DEF Permit, Permitted, PolicyAllows
  <2>2. Lifecycle!Perform(c)
    BY <1>3, <2>1 DEF Lifecycle!Perform
  <2> QED
    BY <2>2 DEF Lifecycle!Next
<1> QED
  BY <1>1, <1>2, <1>3

LEMMA FinishRefines ==
    ASSUME IInv, NEW c \in Commands,
           FinishError(c) \/ FinishResult(c) \/ Operate(c)
    PROVE  Lifecycle!Next \/ UNCHANGED Lifecycle!vars
<1>1. row[c] = "running" /\ UNCHANGED <<verdict, approvalRow>>
  BY DEF FinishError, FinishResult, Operate, IInv, StepFacts, InRun
<1>2. CASE FinishError(c)
  BY <1>1, <1>2, ConcludeRefines DEF FinishError, UpdateWithoutCancel
<1>3. CASE FinishResult(c)
  <2>1. ran[c] /\ ran' = ran
    BY <1>3 DEF FinishResult, IInv, StepFacts
  <2> QED
    BY <1>1, <1>3, <2>1, ConcludeRefines DEF FinishResult
<1>4. CASE Operate(c)
  <2>1. PICK o \in {"zero", "error"} :
           /\ ran' = IF o = "zero" THEN [ran EXCEPT ![c] = TRUE] ELSE ran
           /\ UpdateWithoutCancel(c, IF o = "zero" THEN "succeeded"
                                     ELSE "failed")
    BY <1>4 DEF Operate
  <2>2. o = "zero" => ran'[c]
    BY <2>1 DEF IInv, TypeOK
  <2> QED
    BY <1>1, <2>1, <2>2, ConcludeRefines DEF UpdateWithoutCancel
<1> QED
  BY <1>2, <1>3, <1>4

(* The verdict of a command without a row is no evidence yet.               *)
LEMMA EvaluateRefines ==
    ASSUME IInv, NEW c \in Commands, Evaluate(c)
    PROVE  UNCHANGED Lifecycle!vars
<1>1. row[c] = "none" /\ UNCHANGED <<row, approvalRow, ran>>
  BY DEF Evaluate, IInv, StepFacts, Unrecorded, execVars
<1>2. \A d \in Commands \ {c} : verdict'[d] = verdict[d]
  BY DEF Evaluate, IInv, TypeOK
<1>3. ASSUME NEW d \in Commands PROVE Permit(d)' = Permit(d)
  BY <1>1, <1>2 DEF Permit, Permitted, PolicyAllows
<1> QED
  BY <1>1, <1>3 DEF Lifecycle!vars

LEMMA StepRefines == IInv /\ [Next]_vars => [Lifecycle!Next]_(Lifecycle!vars)
<1> SUFFICES ASSUME IInv, [Next]_vars
             PROVE  Lifecycle!Next \/ UNCHANGED Lifecycle!vars
  OBVIOUS
<1>1. CASE UNCHANGED <<row, verdict, approvalRow, ran>>
  BY <1>1, StutterStep
<1>2. ASSUME NEW c \in Commands, Goroutine(c)
      PROVE  Lifecycle!Next \/ UNCHANGED Lifecycle!vars
  BY <1>1, <1>2, CreateRefines, ParkRefines, CancelWaitingRefines,
     RecordApprovalRefines, FinishDeniedRefines, StartRefines,
     BackendStartRefines, FinishRefines, EvaluateRefines
     DEF Goroutine, Submit, Publish, TakeDecision, AbandonWait, InstallRule,
         Track, BackendReturn, Untrack, execVars
<1>3. CASE Operator \/ Agent \/ UNCHANGED vars
  BY <1>1, <1>3 DEF vars, execVars, Operator, AddTarget, DetachRevoke, Attach,
     CancelCommand, Decide, DetachForwards, DetachRemove, DetachPolicy,
     DetachStore, Agent, OpenSession, CancelRequest
<1> QED
  BY <1>2, <1>3 DEF Next

(* The service implements CommandLifecycle, for every value of the          *)
(* constants: rows, evidence and effects never get out of step.             *)
THEOREM Refinement == Spec => ImplementsLifecycle
<1>1. Init => Lifecycle!Init
  BY DEF Init, Lifecycle!Init, Permit
<1> QED
  BY <1>1, Inductive, StepRefines, PTL
     DEF Spec, ImplementsLifecycle, Lifecycle!Spec
=============================================================================
