--------------------------- MODULE CommandLifecycle ---------------------------
(***************************************************************************)
(* What Gate promises of a command to whoever reads the audit store        *)
(* (README.md, "Every command follows one auditable path"): it is received *)
(* and classified, approved if needed, executed and its result recorded,   *)
(* in this order.  Nothing is said of goroutines, channels, contexts or    *)
(* the operator: the record may stop anywhere, but it never lies.          *)
(***************************************************************************)
CONSTANT Commands

VARIABLES
    record,   \* the state the audit store holds, "none" before there is one
    permit,   \* whether the recorded evidence allows the command to run
    effect    \* whether the command has reached its target

vars == <<record, permit, effect>>

Init ==
    /\ record = [c \in Commands |-> "none"]
    /\ permit = [c \in Commands |-> "none"]
    /\ effect = [c \in Commands |-> FALSE]

(* A command is recorded together with what the policy says of it.          *)
Receive(c) ==
    /\ record[c] = "none"
    /\ record' = [record EXCEPT ![c] = "queued"]
    /\ \E p \in {"allowed", "refused", "open"} :
          permit' = [permit EXCEPT ![c] = p]
    /\ UNCHANGED effect

(* A command the policy leaves open waits for the operator ...              *)
Ask(c) ==
    /\ record[c] = "queued"
    /\ permit[c] = "open"
    /\ record' = [record EXCEPT ![c] = "waiting"]
    /\ UNCHANGED <<permit, effect>>

(* ... whose decision is recorded before anything follows from it ...       *)
RecordDecision(c) ==
    /\ record[c] = "waiting"
    /\ permit[c] = "open"
    /\ \E p \in {"allowed", "refused"} : permit' = [permit EXCEPT ![c] = p]
    /\ UNCHANGED <<record, effect>>

(* ... or it is withdrawn before there is a decision.                       *)
Withdraw(c) ==
    /\ record[c] = "waiting"
    /\ permit[c] = "open"
    /\ record' = [record EXCEPT ![c] = "cancelled"]
    /\ UNCHANGED <<permit, effect>>

Refuse(c) ==
    /\ record[c] \in {"queued", "waiting"}
    /\ permit[c] = "refused"
    /\ record' = [record EXCEPT ![c] = "denied"]
    /\ UNCHANGED <<permit, effect>>

Begin(c) ==
    /\ record[c] \in {"queued", "waiting"}
    /\ permit[c] = "allowed"
    /\ record' = [record EXCEPT ![c] = "running"]
    /\ UNCHANGED <<permit, effect>>

(* Only a command whose record says running reaches its target.             *)
Perform(c) ==
    /\ record[c] = "running"
    /\ effect' = [effect EXCEPT ![c] = TRUE]
    /\ UNCHANGED <<record, permit>>

(* The result of a run; success is only recorded of a command that reached  *)
(* its target, at the latest in this very step.                             *)
Conclude(c) ==
    /\ record[c] = "running"
    /\ \E r \in {"succeeded", "failed", "cancelled"} :
          /\ record' = [record EXCEPT ![c] = r]
          /\ effect' \in {effect, [effect EXCEPT ![c] = TRUE]}
          /\ r = "succeeded" => effect'[c]
    /\ UNCHANGED permit

Next ==
    \E c \in Commands :
        \/ Receive(c) \/ Ask(c) \/ RecordDecision(c) \/ Withdraw(c)
        \/ Refuse(c) \/ Begin(c) \/ Perform(c) \/ Conclude(c)

Spec == Init /\ [][Next]_vars
=============================================================================
