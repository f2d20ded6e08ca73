----------------------------- MODULE GateService -----------------------------
(***************************************************************************)
(* The Gate service of internal/gate/service.go: the goroutine that takes  *)
(* one agent command from submission to its audited end, the approval      *)
(* broker it may wait in, the target-scoped rules of the policy engine,    *)
(* the target registry and the rows the SQLite store keeps, with the       *)
(* single operator goroutine that decides, cancels, attaches and detaches  *)
(* meanwhile.                                                              *)
(*                                                                         *)
(* One session carries one request (agent/server.go reads one request per  *)
(* connection), so a session is named by the command it submits.  A        *)
(* payload stands for every payload with the same SimilarPattern.          *)
(***************************************************************************)
CONSTANTS
    Commands,      \* the commands agents may submit, one per session
    Capabilities,  \* those of them that are "gate forward/host add" requests
    Agents,        \* agent identities
    Targets,       \* the random IDs Registry.Add may hand out
    NoTarget,      \* the empty target ID
    Payloads,      \* payload classes
    PayloadOf,     \* the payload a command submits
    PolicyOf,      \* what the persistent rules say of a payload
    Composed,      \* payloads commandViews cannot parse
    StoreFaults    \* whether a SQLite write may fail with a live context

ASSUME ConstantsAssumption ==
    /\ Capabilities \subseteq Commands
    /\ NoTarget \notin Targets
    /\ PayloadOf \in [Commands -> Payloads]
    /\ PolicyOf \in [Payloads -> {"deny", "ask", "allow"}]
    /\ Composed \subseteq Payloads
    /\ StoreFaults \in BOOLEAN

VARIABLES
    \* memory of the service, owned by the operator's actions
    targets,       \* Registry.bindings
    attachments,   \* Service.attachments
    temporary,     \* Engine.temporary
    operator,      \* where the operator goroutine stands in DetachTarget
    \* memory of a command
    pc,            \* the next step of its goroutine in execute
    session,       \* the target its session was opened on
    verdict,       \* the policy result, held as a local variable
    state,         \* command.Command.state
    pending,       \* keys of Broker.pending
    decision,      \* the decision the broker accepted: in the request's
                   \* channel of capacity 1, then in a local variable
    running,       \* keys of Service.running
    cancelled,     \* the child context's cancel function was called
    outcome,       \* what the backend returned
    \* the agent's connection
    parentDone,    \* the request context is cancelled
    broken,        \* the peer was gone when a frame was written to it
    \* rows of the audit store
    targetRow, row, approvalRow,
    \* history
    ran            \* the payload reached the target

registryVars == <<targets, attachments, targetRow>>
brokerVars == <<pending, decision>>
execVars == <<running, cancelled, outcome, ran>>
connVars == <<parentDone, broken>>
vars == <<registryVars, temporary, operator, pc, session, verdict, state,
          brokerVars, execVars, connVars, row, approvalRow>>

Actions == {"approve_once", "allow_target", "deny"}
Terminal == {"succeeded", "failed", "denied", "cancelled"}
States == {"queued", "waiting", "running"} \cup Terminal
Steps == {"idle", "open", "resolved", "evaluated", "accepted", "parked",
          "waiting", "decided", "abandoned", "recorded", "cleared", "started",
          "tracked", "executing", "returned", "finished", "operating", "done"}

(***************************************************************************)
(* allowedTransition: the legal moves of a command's state.                *)
(***************************************************************************)
AllowedTransition ==
    [from : {"queued"}, to : {"waiting", "running", "denied", "cancelled"}]
      \cup [from : {"waiting"}, to : {"running", "denied", "cancelled"}]
      \cup [from : {"running"}, to : {"succeeded", "failed", "cancelled"}]

Idle == [at |-> "idle", target |-> NoTarget]

Init ==
    /\ targets = {}
    /\ attachments = [a \in Agents |-> NoTarget]
    /\ temporary = [t \in Targets |-> {}]
    /\ operator = Idle
    /\ pc = [c \in Commands |-> "idle"]
    /\ session = [c \in Commands |-> NoTarget]
    /\ verdict = [c \in Commands |-> "none"]
    /\ state = [c \in Commands |-> "queued"]
    /\ pending = {}
    /\ decision = [c \in Commands |-> "none"]
    /\ running = {}
    /\ cancelled = [c \in Commands |-> FALSE]
    /\ outcome = [c \in Commands |-> "none"]
    /\ parentDone = [c \in Commands |-> FALSE]
    /\ broken = [c \in Commands |-> FALSE]
    /\ targetRow = [t \in Targets |-> "none"]
    /\ row = [c \in Commands |-> "none"]
    /\ approvalRow = [c \in Commands |-> "none"]
    /\ ran = [c \in Commands |-> FALSE]

-----------------------------------------------------------------------------
(* Helpers of the goroutine of a command.                                   *)

Goto(c, step) == pc' = [pc EXCEPT ![c] = step]

(* Command.Transition: an illegal move is an error, never a state change.   *)
Transition(c, next) ==
    /\ [from |-> state[c], to |-> next] \in AllowedTransition
    /\ state' = [state EXCEPT ![c] = next]

(* A write under the request context: database/sql refuses it once the      *)
(* context is cancelled.                                                    *)
StoreMayFail(c) == parentDone[c] \/ StoreFaults

(* Store.UpdateCommand(parent, ...) and the sink frame that follows it: the *)
(* goroutine goes on to step, or returns on the first error.                *)
UpdateThenSend(c, next, step) ==
    \/ /\ ~parentDone[c]
       /\ row' = [row EXCEPT ![c] = next]
       /\ \/ Goto(c, step) /\ UNCHANGED broken
          \/ Goto(c, "done") /\ broken' = [broken EXCEPT ![c] = TRUE]
    \/ /\ StoreMayFail(c)
       /\ Goto(c, "done")
       /\ UNCHANGED <<row, broken>>

(* Store.UpdateCommand(context.WithoutCancel(parent), ...), error ignored.  *)
UpdateWithoutCancel(c, next) ==
    \/ row' = [row EXCEPT ![c] = next]
    \/ StoreFaults /\ UNCHANGED row

(* Mutation: the backend gets the request context, not the child one.       *)
ExecOnParent(c) == parentDone[c]

(* The child context ends with its parent or when its cancel is called.     *)
ExecCancelled(c) == parentDone[c] \/ cancelled[c]

(* Mutation: temporary rules are looked up whatever their target.           *)
EvaluationAnywhere(target, payload) ==
    CASE PolicyOf[payload] = "deny" -> "deny"
      [] PolicyOf[payload] # "deny" /\ payload \in Composed -> "ask"
      [] PolicyOf[payload] # "deny" /\ payload \notin Composed
           /\ \E t \in Targets : payload \in temporary[t] -> "target_allow"
      [] PolicyOf[payload] = "allow" /\ payload \notin Composed
           /\ \A t \in Targets : payload \notin temporary[t] ->
             "persistent_allow"
      [] OTHER -> "ask"

(* Engine.Evaluate: deny rules first, then nothing automatic for a payload  *)
(* that does not parse, then the target's temporary rules, then persistent  *)
(* allow rules, and ask by default.                                         *)
Evaluation(target, payload) ==
    CASE PolicyOf[payload] = "deny" -> "deny"
      [] PolicyOf[payload] # "deny" /\ payload \in Composed -> "ask"
      [] PolicyOf[payload] # "deny" /\ payload \notin Composed
           /\ payload \in temporary[target] -> "target_allow"
      [] PolicyOf[payload] = "allow" /\ payload \notin Composed
           /\ payload \notin temporary[target] -> "persistent_allow"
      [] OTHER -> "ask"

PolicyAllows(c) == verdict[c] \in {"persistent_allow", "target_allow"}

-----------------------------------------------------------------------------
(* The operator goroutine: one console, one operation at a time.            *)

OperatorIdle == operator = Idle

(* Service.AddTarget: a fresh random ID in the registry and its row; when   *)
(* SaveTarget fails the binding is removed again and nothing has changed.   *)
AddTarget(t) ==
    /\ OperatorIdle
    /\ t \notin targets
    /\ targetRow[t] = "none"
    /\ targets' = targets \cup {t}
    /\ targetRow' = [targetRow EXCEPT ![t] = "active"]
    /\ UNCHANGED <<attachments, temporary, operator, pc, session, verdict,
                   state, brokerVars, execVars, connVars, row, approvalRow>>

(* Service.Attach: only future sessions of the agent use the target.        *)
Attach(a, t) ==
    /\ OperatorIdle
    /\ t \in targets
    /\ attachments' = [attachments EXCEPT ![a] = t]
    /\ UNCHANGED <<targets, targetRow, temporary, operator, pc, session,
                   verdict, state, brokerVars, execVars, connVars, row,
                   approvalRow>>

(* App.decide and Broker.Decide: the request leaves the pending map under   *)
(* the lock and the decision is sent on its channel.                        *)
Decide(c, action) ==
    /\ OperatorIdle
    /\ c \in pending
    /\ pending' = pending \ {c}
    /\ decision' = [decision EXCEPT ![c] = action]
    /\ UNCHANGED <<registryVars, temporary, operator, pc, session, verdict,
                   state, execVars, connVars, row, approvalRow>>

(* Service.CancelCommand: an error unless the command is in the running map.*)
CancelCommand(c) ==
    /\ OperatorIdle
    /\ c \in running
    /\ cancelled' = [cancelled EXCEPT ![c] = TRUE]
    /\ UNCHANGED <<registryVars, temporary, operator, pc, session, verdict,
                   state, brokerVars, running, outcome, ran, connVars, row,
                   approvalRow>>

(* Mutation: a detach forgets the commands it cancels.                      *)
DetachRevokeForgetting(t) ==
    /\ OperatorIdle
    /\ operator' = [at |-> "forwards", target |-> t]
    /\ attachments' = [a \in Agents |->
                         IF attachments[a] = t THEN NoTarget
                         ELSE attachments[a]]
    /\ running' = {c \in running : session[c] # t}
    /\ cancelled' = [c \in Commands |->
                       cancelled[c] \/ (c \in running /\ session[c] = t)]
    /\ UNCHANGED <<targets, targetRow, temporary, pc, session, verdict, state,
                   brokerVars, outcome, ran, connVars, row, approvalRow>>

(* Service.DetachTarget, first part, under the service lock.                *)
DetachRevoke(t) ==
    /\ OperatorIdle
    /\ operator' = [at |-> "forwards", target |-> t]
    /\ attachments' = [a \in Agents |->
                         IF attachments[a] = t THEN NoTarget
                         ELSE attachments[a]]
    /\ cancelled' = [c \in Commands |->
                       cancelled[c] \/ (c \in running /\ session[c] = t)]
    /\ UNCHANGED <<targets, targetRow, temporary, pc, session, verdict, state,
                   brokerVars, running, outcome, ran, connVars, row,
                   approvalRow>>

(* Aliases.CloseTarget and Forwards.CloseTarget: an error ends the detach.  *)
DetachForwards ==
    /\ operator.at = "forwards"
    /\ operator' \in {[operator EXCEPT !.at = "remove"], Idle}
    /\ UNCHANGED <<registryVars, temporary, pc, session, verdict, state,
                   brokerVars, execVars, connVars, row, approvalRow>>

(* Targets.Remove: ErrNotFound ends the detach.                             *)
DetachRemove ==
    /\ operator.at = "remove"
    /\ targets' = targets \ {operator.target}
    /\ operator' = IF operator.target \in targets
                     THEN [operator EXCEPT !.at = "policy"] ELSE Idle
    /\ UNCHANGED <<attachments, targetRow, temporary, pc, session, verdict,
                   state, brokerVars, execVars, connVars, row, approvalRow>>

(* Policy.DetachTarget.                                                     *)
DetachPolicy ==
    /\ operator.at = "policy"
    /\ temporary' = [temporary EXCEPT ![operator.target] = {}]
    /\ operator' = [operator EXCEPT !.at = "store"]
    /\ UNCHANGED <<registryVars, pc, session, verdict, state, brokerVars,
                   execVars, connVars, row, approvalRow>>

(* Store.DetachTarget.                                                      *)
DetachStore ==
    /\ operator.at = "store"
    /\ \/ targetRow' = [targetRow EXCEPT ![operator.target] = "detached"]
       \/ StoreFaults /\ UNCHANGED targetRow
    /\ operator' = Idle
    /\ UNCHANGED <<targets, attachments, temporary, pc, session, verdict,
                   state, brokerVars, execVars, connVars, row, approvalRow>>

Operator ==
    \/ \E t \in Targets : AddTarget(t) \/ DetachRevoke(t)
    \/ \E a \in Agents, t \in Targets : Attach(a, t)
    \/ \E c \in Commands : CancelCommand(c) \/ \E x \in Actions : Decide(c, x)
    \/ DetachForwards \/ DetachRemove \/ DetachPolicy \/ DetachStore

-----------------------------------------------------------------------------
(* The agent's side of the connection.                                      *)

Connected(c) == pc[c] \notin {"idle", "done"}

(* Mutation: the attachment is used unchecked.                              *)
OpenSessionUnchecked(c, a) ==
    /\ pc[c] = "idle"
    /\ session' = [session EXCEPT ![c] = attachments[a]]
    /\ Goto(c, "open")
    /\ UNCHANGED <<registryVars, temporary, operator, verdict, state,
                   brokerVars, execVars, connVars, row, approvalRow>>

(* OpenSession: the target attached to the agent when the session starts.   *)
OpenSession(c, a) ==
    /\ pc[c] = "idle"
    /\ attachments[a] \in targets
    /\ session' = [session EXCEPT ![c] = attachments[a]]
    /\ Goto(c, "open")
    /\ UNCHANGED <<registryVars, temporary, operator, verdict, state,
                   brokerVars, execVars, connVars, row, approvalRow>>

(* ServeConn cancels the request context: it read the end of the stream, a  *)
(* cancel frame or a bad frame, or the daemon is shutting down.             *)
CancelRequest(c) ==
    /\ Connected(c)
    /\ ~parentDone[c]
    /\ parentDone' = [parentDone EXCEPT ![c] = TRUE]
    /\ UNCHANGED <<registryVars, temporary, operator, pc, session, verdict,
                   state, brokerVars, execVars, broken, row, approvalRow>>

Agent ==
    \E c \in Commands :
        \/ \E a \in Agents : OpenSession(c, a)
        \/ CancelRequest(c)

-----------------------------------------------------------------------------
(* The goroutine of a command: execute, or authorizeCapability and          *)
(* completeCapability for a capability.                                     *)

(* Session.Exec up to the backend lookup: only execute resolves the target. *)
Submit(c) ==
    /\ pc[c] = "open"
    /\ Goto(c, IF c \in Capabilities \/ session[c] \in targets
               THEN "resolved" ELSE "done")
    /\ UNCHANGED <<registryVars, temporary, operator, session, verdict, state,
                   brokerVars, execVars, connVars, row, approvalRow>>

Evaluate(c) ==
    /\ pc[c] = "resolved"
    /\ verdict' = [verdict EXCEPT ![c] = Evaluation(session[c], PayloadOf[c])]
    /\ Goto(c, "evaluated")
    /\ UNCHANGED <<registryVars, temporary, operator, session, state,
                   brokerVars, execVars, connVars, row, approvalRow>>

(* Store.CreateCommand, then sink.Accepted.                                 *)
Create(c) ==
    /\ pc[c] = "evaluated"
    /\ UpdateThenSend(c, "queued", "accepted")
    /\ UNCHANGED <<registryVars, temporary, operator, session, verdict, state,
                   brokerVars, execVars, parentDone, approvalRow>>

(* The Ask branch up to the approval broker.                                *)
Park(c) ==
    /\ pc[c] = "accepted"
    /\ verdict[c] = "ask"
    /\ Transition(c, "waiting")
    /\ UpdateThenSend(c, "waiting", "parked")
    /\ UNCHANGED <<registryVars, temporary, operator, session, verdict,
                   brokerVars, execVars, parentDone, approvalRow>>

(* Broker.Wait publishes the request.                                       *)
Publish(c) ==
    /\ pc[c] = "parked"
    /\ pending' = pending \cup {c}
    /\ Goto(c, "waiting")
    /\ UNCHANGED <<registryVars, temporary, operator, session, verdict, state,
                   decision, execVars, connVars, row, approvalRow>>

(* Broker.Wait's select: when both are ready either case may be taken.      *)
TakeDecision(c) ==
    /\ pc[c] = "waiting"
    /\ decision[c] # "none"
    /\ Goto(c, "decided")
    /\ UNCHANGED <<registryVars, temporary, operator, session, verdict, state,
                   brokerVars, execVars, connVars, row, approvalRow>>

(* Mutation: the select watches the running map's cancel, not the request.  *)
AbandonWaitOnCancel(c) ==
    /\ pc[c] = "waiting"
    /\ cancelled[c]
    /\ pending' = pending \ {c}
    /\ Goto(c, "abandoned")
    /\ UNCHANGED <<registryVars, temporary, operator, session, verdict, state,
                   decision, execVars, connVars, row, approvalRow>>

AbandonWait(c) ==
    /\ pc[c] = "waiting"
    /\ parentDone[c]
    /\ pending' = pending \ {c}
    /\ Goto(c, "abandoned")
    /\ UNCHANGED <<registryVars, temporary, operator, session, verdict, state,
                   decision, execVars, connVars, row, approvalRow>>

(* The error branch after Wait.                                             *)
CancelWaiting(c) ==
    /\ pc[c] = "abandoned"
    /\ Transition(c, "cancelled")
    /\ UpdateWithoutCancel(c, "cancelled")
    /\ Goto(c, "done")
    /\ UNCHANGED <<registryVars, temporary, operator, session, verdict,
                   brokerVars, execVars, connVars, approvalRow>>

(* Mutation: the error of RecordApproval is ignored.                        *)
RecordApprovalUnchecked(c) ==
    /\ pc[c] = "decided"
    /\ \/ /\ ~parentDone[c]
          /\ approvalRow' = [approvalRow EXCEPT ![c] = decision[c]]
       \/ StoreMayFail(c) /\ UNCHANGED approvalRow
    /\ Goto(c, "recorded")
    /\ UNCHANGED <<registryVars, temporary, operator, session, verdict, state,
                   brokerVars, execVars, connVars, row>>

(* Mutation: only approvals are recorded.                                   *)
RecordApprovalsOnly(c) ==
    /\ pc[c] = "decided"
    /\ approvalRow' = IF decision[c] = "deny" THEN approvalRow
                      ELSE [approvalRow EXCEPT ![c] = decision[c]]
    /\ Goto(c, "recorded")
    /\ UNCHANGED <<registryVars, temporary, operator, session, verdict, state,
                   brokerVars, execVars, connVars, row>>

(* Store.RecordApproval(parent, decision).                                  *)
RecordApproval(c) ==
    /\ pc[c] = "decided"
    /\ \/ /\ ~parentDone[c]
          /\ approvalRow' = [approvalRow EXCEPT ![c] = decision[c]]
          /\ Goto(c, "recorded")
       \/ /\ StoreMayFail(c)
          /\ Goto(c, "done")
          /\ UNCHANGED approvalRow
    /\ UNCHANGED <<registryVars, temporary, operator, session, verdict, state,
                   brokerVars, execVars, connVars, row>>

(* Mutation: the rule is installed before the decision is recorded.         *)
InstallRuleFirst(c) ==
    /\ pc[c] = "decided"
    /\ decision[c] = "allow_target"
    /\ temporary' = [temporary EXCEPT ![session[c]] = @ \cup {PayloadOf[c]}]
    /\ Goto(c, "cleared")
    /\ UNCHANGED <<registryVars, operator, session, verdict, state,
                   brokerVars, execVars, connVars, row, approvalRow>>

(* Policy.AllowForTarget with the rule SimilarPattern gave the decision.    *)
InstallRule(c) ==
    /\ pc[c] = "recorded"
    /\ decision[c] = "allow_target"
    /\ temporary' = [temporary EXCEPT ![session[c]] = @ \cup {PayloadOf[c]}]
    /\ Goto(c, "cleared")
    /\ UNCHANGED <<registryVars, operator, session, verdict, state,
                   brokerVars, execVars, connVars, row, approvalRow>>

(* Mutation: a denial ends the command in memory only.                      *)
FinishDeniedUnsaved(c) ==
    /\ \/ pc[c] = "accepted" /\ verdict[c] = "deny"
       \/ pc[c] = "recorded" /\ decision[c] = "deny"
    /\ Transition(c, "denied")
    /\ Goto(c, "done")
    /\ UNCHANGED <<registryVars, temporary, operator, session, verdict,
                   brokerVars, execVars, connVars, row, approvalRow>>

(* finishDenied: the frames after the update change nothing.                *)
FinishDenied(c) ==
    /\ \/ pc[c] = "accepted" /\ verdict[c] = "deny"
       \/ pc[c] = "recorded" /\ decision[c] = "deny"
    /\ Transition(c, "denied")
    /\ UpdateThenSend(c, "denied", "done")
    /\ UNCHANGED <<registryVars, temporary, operator, session, verdict,
                   brokerVars, execVars, parentDone, approvalRow>>

(* Mutation: an error of the update to running is ignored.                  *)
StartUnchecked(c) ==
    /\ \/ pc[c] = "accepted" /\ PolicyAllows(c)
       \/ pc[c] = "recorded" /\ decision[c] = "approve_once"
       \/ pc[c] = "cleared"
    /\ Transition(c, "running")
    /\ \/ ~parentDone[c] /\ row' = [row EXCEPT ![c] = "running"]
       \/ StoreMayFail(c) /\ UNCHANGED row
    /\ Goto(c, IF c \in Capabilities THEN "operating" ELSE "started")
    /\ UNCHANGED <<registryVars, temporary, operator, session, verdict,
                   brokerVars, execVars, connVars, approvalRow>>

(* Mutation: any recorded decision starts the command.                      *)
StartOnAnyDecision(c) ==
    /\ \/ pc[c] = "accepted" /\ PolicyAllows(c)
       \/ pc[c] = "recorded" /\ decision[c] # "allow_target"
       \/ pc[c] = "cleared"
    /\ Transition(c, "running")
    /\ UpdateThenSend(c, "running",
                      IF c \in Capabilities THEN "operating" ELSE "started")
    /\ UNCHANGED <<registryVars, temporary, operator, session, verdict,
                   brokerVars, execVars, parentDone, approvalRow>>

(* Transition to running, UpdateCommand(parent) and the state frame.        *)
Start(c) ==
    /\ \/ pc[c] = "accepted" /\ PolicyAllows(c)
       \/ pc[c] = "recorded" /\ decision[c] = "approve_once"
       \/ pc[c] = "cleared"
    /\ Transition(c, "running")
    /\ UpdateThenSend(c, "running",
                      IF c \in Capabilities THEN "operating" ELSE "started")
    /\ UNCHANGED <<registryVars, temporary, operator, session, verdict,
                   brokerVars, execVars, parentDone, approvalRow>>

(* The child context is entered in the running map.                         *)
Track(c) ==
    /\ pc[c] = "started"
    /\ running' = running \cup {c}
    /\ Goto(c, "tracked")
    /\ UNCHANGED <<registryVars, temporary, operator, session, verdict, state,
                   brokerVars, cancelled, outcome, ran, connVars, row,
                   approvalRow>>

(* The backend starts the remote process on the binding resolved in Submit, *)
(* or refuses a context that is already cancelled, or fails to start.       *)
BackendStart(c) ==
    /\ pc[c] = "tracked"
    /\ \/ /\ ~ExecCancelled(c)
          /\ ran' = [ran EXCEPT ![c] = TRUE]
          /\ Goto(c, "executing")
          /\ UNCHANGED outcome
       \/ /\ outcome' = [outcome EXCEPT ![c] = "error"]
          /\ Goto(c, "returned")
          /\ UNCHANGED ran
    /\ UNCHANGED <<registryVars, temporary, operator, session, verdict, state,
                   brokerVars, running, cancelled, connVars, row, approvalRow>>

(* Exec returns: a killed process may still report an exit code and no      *)
(* error, and a failed audit write turns any result into an error.          *)
BackendReturn(c) ==
    /\ pc[c] = "executing"
    /\ \E o \in {"zero", "nonzero", "error"} :
          outcome' = [outcome EXCEPT ![c] = o]
    /\ Goto(c, "returned")
    /\ UNCHANGED <<registryVars, temporary, operator, session, verdict, state,
                   brokerVars, running, cancelled, ran, connVars, row,
                   approvalRow>>

(* The error branch after Exec.                                             *)
FinishError(c) ==
    /\ pc[c] = "returned"
    /\ outcome[c] = "error"
    /\ LET next == IF ExecCancelled(c) THEN "cancelled" ELSE "failed"
       IN  Transition(c, next) /\ UpdateWithoutCancel(c, next)
    /\ outcome' = [outcome EXCEPT ![c] = "none"]
    /\ Goto(c, "finished")
    /\ UNCHANGED <<registryVars, temporary, operator, session, verdict,
                   brokerVars, running, cancelled, ran, connVars, approvalRow>>

(* The result branch after Exec.                                            *)
FinishResult(c) ==
    /\ pc[c] = "returned"
    /\ outcome[c] \in {"zero", "nonzero"}
    /\ LET next == IF outcome[c] = "zero" THEN "succeeded" ELSE "failed"
       IN  /\ Transition(c, next)
           /\ \/ ~parentDone[c] /\ row' = [row EXCEPT ![c] = next]
              \/ StoreMayFail(c) /\ UNCHANGED row
    /\ outcome' = [outcome EXCEPT ![c] = "none"]
    /\ Goto(c, "finished")
    /\ UNCHANGED <<registryVars, temporary, operator, session, verdict,
                   brokerVars, running, cancelled, ran, connVars, approvalRow>>

(* Mutation: the deferred delete is missing.                                *)
UntrackCancelling(c) ==
    /\ pc[c] = "finished"
    /\ cancelled' = [cancelled EXCEPT ![c] = TRUE]
    /\ Goto(c, "done")
    /\ UNCHANGED <<registryVars, temporary, operator, session, verdict, state,
                   brokerVars, running, outcome, ran, connVars, row,
                   approvalRow>>

(* The deferred cancel and delete.                                          *)
Untrack(c) ==
    /\ pc[c] = "finished"
    /\ running' = running \ {c}
    /\ cancelled' = [cancelled EXCEPT ![c] = TRUE]
    /\ Goto(c, "done")
    /\ UNCHANGED <<registryVars, temporary, operator, session, verdict, state,
                   brokerVars, outcome, ran, connVars, row, approvalRow>>

(* The forward or alias is made (ResolveBackend first needs the target) and *)
(* completeCapability writes the result whatever the request context.       *)
Operate(c) ==
    /\ pc[c] = "operating"
    /\ \E o \in {"zero", "error"} :
          LET next == IF o = "zero" THEN "succeeded" ELSE "failed"
          IN  /\ o = "zero" => session[c] \in targets
              /\ ran' = IF o = "zero" THEN [ran EXCEPT ![c] = TRUE] ELSE ran
              /\ Transition(c, next)
              /\ UpdateWithoutCancel(c, next)
    /\ Goto(c, "done")
    /\ UNCHANGED <<registryVars, temporary, operator, session, verdict,
                   brokerVars, running, cancelled, outcome, connVars,
                   approvalRow>>

Goroutine(c) ==
    \/ Submit(c) \/ Evaluate(c) \/ Create(c) \/ Park(c) \/ Publish(c)
    \/ TakeDecision(c) \/ AbandonWait(c) \/ CancelWaiting(c)
    \/ RecordApproval(c) \/ InstallRule(c) \/ FinishDenied(c)
    \/ Start(c) \/ Track(c) \/ BackendStart(c) \/ BackendReturn(c)
    \/ FinishError(c) \/ FinishResult(c) \/ Untrack(c) \/ Operate(c)

Next == Operator \/ Agent \/ \E c \in Commands : Goroutine(c)

Spec == Init /\ [][Next]_vars

-----------------------------------------------------------------------------
(* Fairness.  The Go scheduler runs every goroutine that can go on; only a  *)
(* remote process may run for ever, until its context is cancelled and the  *)
(* backend kills it.  A detach that has begun is run to its end.            *)

Unattended(c) ==
    \/ Submit(c) \/ Evaluate(c) \/ Create(c) \/ Park(c) \/ Publish(c)
    \/ TakeDecision(c) \/ AbandonWait(c) \/ CancelWaiting(c)
    \/ RecordApproval(c) \/ InstallRule(c) \/ FinishDenied(c)
    \/ Start(c) \/ Track(c) \/ BackendStart(c)
    \/ FinishError(c) \/ FinishResult(c) \/ Untrack(c) \/ Operate(c)
    \/ (ExecCancelled(c) /\ BackendReturn(c))

DetachStep == DetachForwards \/ DetachRemove \/ DetachPolicy \/ DetachStore

FairSpec ==
    /\ Spec
    /\ \A c \in Commands : WF_vars(Unattended(c))
    /\ WF_vars(DetachStep)

-----------------------------------------------------------------------------
(* Every variable has a value of its kind.                                  *)
TypeOK ==
    /\ targets \subseteq Targets
    /\ attachments \in [Agents -> Targets \cup {NoTarget}]
    /\ temporary \in [Targets -> SUBSET Payloads]
    /\ operator \in [at : {"forwards", "remove", "policy", "store"},
                     target : Targets] \cup {Idle}
    /\ pc \in [Commands -> Steps]
    /\ session \in [Commands -> Targets \cup {NoTarget}]
    /\ \A c \in Commands : pc[c] # "idle" => session[c] \in Targets
    /\ verdict \in [Commands -> {"none", "deny", "ask", "persistent_allow",
                                  "target_allow"}]
    /\ state \in [Commands -> States]
    /\ pending \subseteq Commands
    /\ decision \in [Commands -> Actions \cup {"none"}]
    /\ running \subseteq Commands
    /\ cancelled \in [Commands -> BOOLEAN]
    /\ outcome \in [Commands -> {"none", "zero", "nonzero", "error"}]
    /\ parentDone \in [Commands -> BOOLEAN]
    /\ broken \in [Commands -> BOOLEAN]
    /\ targetRow \in [Targets -> {"none", "active", "detached"}]
    /\ row \in [Commands -> States \cup {"none"}]
    /\ approvalRow \in [Commands -> Actions \cup {"none"}]
    /\ ran \in [Commands -> BOOLEAN]

(* An allow_target decision on the same target for the same payload class   *)
(* is in the approvals table.                                               *)
AllowedForTarget(t, p) ==
    \E d \in Commands : /\ session[d] = t
                        /\ PayloadOf[d] = p
                        /\ approvalRow[d] = "allow_target"

(* No payload reaches a target without a persistent allow rule or a human   *)
(* decision that the approvals table holds: on this very command, or on     *)
(* another of the same class on the same target with "s".  It is what the   *)
(* whole of execute and authorizeCapability is for, and it rests on rows    *)
(* being written before the rule is installed and the state is changed.     *)
HumanBehindEveryRun ==
    \A c \in Commands :
        ran[c] => \/ verdict[c] = "persistent_allow"
                  \/ approvalRow[c] \in {"approve_once", "allow_target"}
                  \/ /\ verdict[c] = "target_allow"
                     /\ AllowedForTarget(session[c], PayloadOf[c])

(* The audit trail is ahead of the effect: once a payload has reached its   *)
(* target its row says running or one of the results of a run, so a daemon  *)
(* that dies at any point has lost no executed command (UpdateCommand comes *)
(* before Exec and an error of it returns).                                 *)
AuditBeforeRun ==
    \A c \in Commands :
        ran[c] => row[c] \in {"running", "succeeded", "failed", "cancelled"}

(* A denial the broker accepted, or a deny rule, is never followed by a run *)
(* or by a result of one, even when the goroutine never heard of the        *)
(* decision because the agent left at the same moment.                      *)
DenialHolds ==
    \A c \in Commands :
        decision[c] = "deny" \/ verdict[c] = "deny" =>
            /\ ~ran[c]
            /\ row[c] \notin {"running", "succeeded", "failed"}

(* A request an operator can see is one whose goroutine still waits for     *)
(* this decision and has had none: the send in Decide cannot block, and a   *)
(* decision is never accepted for a command that has gone on.               *)
PendingAwaitsDecision ==
    \A c \in pending :
        /\ pc[c] = "waiting"
        /\ row[c] = "waiting" /\ state[c] = "waiting"
        /\ decision[c] = "none"

(* While the remote process of a command exists the command is in the       *)
(* running map, where CancelCommand and DetachTarget find it.               *)
ProcessIsTracked ==
    \A c \in Commands :
        pc[c] = "executing" => c \in running /\ state[c] = "running"

(* As long as the agent stays and the store works, a command that is over   *)
(* has a terminal row that equals its state, or was refused before it had a *)
(* row because its target had gone.                                         *)
ConnectedAuditComplete ==
    \A c \in Commands :
        pc[c] = "done" /\ ~parentDone[c] /\ ~broken[c] =>
            \/ row[c] = state[c] /\ row[c] \in Terminal
            \/ row[c] = "none" /\ verdict[c] = "none"

(* The commands table only ever makes the moves allowedTransition permits,  *)
(* starting from queued, and only to the state the command has in memory: a *)
(* terminal row is final.                                                   *)
RowMove(c) ==
    row'[c] # row[c] =>
        /\ row'[c] = state'[c]
        /\ \/ row[c] = "none" /\ row'[c] = "queued"
           \/ [from |-> row[c], to |-> row'[c]] \in AllowedTransition

AuditHistory == [][\A c \in Commands : RowMove(c)]_row

(* A temporary rule appears only by an allow_target decision already in the *)
(* approvals table for that very target and class, and rules disappear only *)
(* all together, once their target has left the registry.                   *)
RuleMove(t) ==
    \/ /\ temporary[t] \subseteq temporary'[t]
       /\ \A p \in temporary'[t] \ temporary[t] : AllowedForTarget(t, p)
    \/ temporary'[t] = {} /\ t \notin targets

RulesAreEarned == [][\A t \in Targets : RuleMove(t)]_temporary

(* Whoever cancels the request (the agent leaving, its cancel frame, the    *)
(* daemon stopping), the goroutine ends: none stays parked in the broker.   *)
CancelledRequestEnds ==
    \A c \in Commands : parentDone[c] ~> pc[c] = "done"

(* An operator's cancel, or a detach, of a tracked command ends it.         *)
CancelledCommandEnds ==
    \A c \in Commands :
        (c \in running /\ cancelled[c]) ~> pc[c] = "done"

(* A decision the broker accepted reaches the approvals table unless the    *)
(* agent's request is cancelled first.                                      *)
DecisionRecorded ==
    \A c \in Commands :
        decision[c] # "none" ~> (approvalRow[c] = decision[c] \/ parentDone[c])

-----------------------------------------------------------------------------
(* The evidence a command needs to run: an allow rule or a recorded "yes".  *)
Permitted(c) ==
    PolicyAllows(c) \/ approvalRow[c] \in {"approve_once", "allow_target"}

(* The evidence the audit store holds on a command: the policy result of    *)
(* its row and its row in the approvals table.                              *)
Permit(c) ==
    IF row[c] = "none" THEN "none"
    ELSE IF Permitted(c) THEN "allowed"
    ELSE IF "deny" \in {verdict[c], approvalRow[c]} THEN "refused"
    ELSE "open"

Lifecycle ==
    INSTANCE CommandLifecycle
    WITH record <- row,
         permit <- [c \in Commands |-> Permit(c)],
         effect <- ran

(* The service implements the lifecycle: what the store says of a command   *)
(* is never ahead of the evidence for it, and no payload reaches a target   *)
(* outside the running state of its row.                                    *)
ImplementsLifecycle == Lifecycle!Spec

-----------------------------------------------------------------------------
(* Why the invariants hold, as one inductive invariant.  Steps grouped by   *)
(* what the goroutine has written when it stands there:                     *)
Unrecorded == {"idle", "open", "resolved", "evaluated"}
AwaitingDecision == {"parked", "waiting", "decided", "abandoned"}
Decided == {"recorded", "cleared"}
Tracked == {"tracked", "executing", "returned", "finished"}
InRun == {"started", "tracked", "executing", "returned", "operating"}

(* What the step of a goroutine says of its rows, its state and its place   *)
(* in the shared maps.                                                      *)
StepFacts(c) ==
    /\ pc[c] \in Unrecorded => row[c] = "none" /\ state[c] = "queued"
    /\ pc[c] \in Unrecorded => (verdict[c] # "none" <=> pc[c] = "evaluated")
    /\ pc[c] = "accepted" => row[c] = "queued" /\ state[c] = "queued"
    /\ pc[c] \in AwaitingDecision \cup Decided =>
          row[c] = "waiting" /\ state[c] = "waiting" /\ verdict[c] = "ask"
    /\ pc[c] \in InRun =>
          row[c] = "running" /\ state[c] = "running" /\ Permitted(c)
    /\ pc[c] \in Unrecorded \cup {"accepted", "parked"} => decision[c] = "none"
    /\ pc[c] \in {"decided"} \cup Decided => decision[c] # "none"
    /\ pc[c] \in Unrecorded \cup {"accepted"} \cup AwaitingDecision =>
          approvalRow[c] = "none"
    /\ pc[c] \in Decided => approvalRow[c] = decision[c]
    /\ pc[c] = "cleared" => decision[c] = "allow_target"
    /\ c \in pending => pc[c] = "waiting" /\ decision[c] = "none"
    /\ c \in running <=> pc[c] \in Tracked
    /\ pc[c] = "executing" => ran[c]
    /\ pc[c] = "returned" /\ outcome[c] \in {"zero", "nonzero"} => ran[c]

(* What the rows say of each other, wherever the goroutine stands.          *)
RowFacts(c) ==
    /\ row[c] # "none" => verdict[c] # "none"
    /\ row[c] = "waiting" => verdict[c] = "ask"
    /\ decision[c] # "none" => verdict[c] = "ask"
    /\ approvalRow[c] # "none" => approvalRow[c] = decision[c]
    /\ row[c] \in {"running", "succeeded", "failed"} => Permitted(c)
    /\ ran[c] => /\ Permitted(c)
                 /\ row[c] \in {"running", "succeeded", "failed", "cancelled"}

(* Temporary rules, and the verdicts they gave, come from recorded          *)
(* decisions.                                                               *)
RuleFacts ==
    /\ \A t \in Targets : \A p \in temporary[t] : AllowedForTarget(t, p)
    /\ \A c \in Commands :
          verdict[c] = "target_allow" =>
              AllowedForTarget(session[c], PayloadOf[c])

IInv ==
    /\ TypeOK
    /\ \A c \in Commands : StepFacts(c) /\ RowFacts(c)
    /\ RuleFacts

-----------------------------------------------------------------------------
(* What the repository says and the code does not do.                       *)

(* README.md: "Every command follows one auditable path: ... execute ->     *)
(* record result"; agent/server.go: a disconnect "also cancels execution    *)
(* and remains auditable".                                                  *)
EveryResultRecorded ==
    \A c \in Commands :
        pc[c] = "done" /\ ran[c] => row[c] \in Terminal
=============================================================================
