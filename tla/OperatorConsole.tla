--------------------------- MODULE OperatorConsole ---------------------------
(***************************************************************************)
(* The operator console of internal/tui/tui.go: the goroutine that reads   *)
(* keys, the select loop of App.Run that decides and draws, and the two    *)
(* notification channels of capacity 1 that tell it of changes.  Commands  *)
(* are followed as far as the console sees them: from their creation to    *)
(* the row that the authorization ledger shows.                            *)
(***************************************************************************)
EXTENDS Naturals, Sequences, FiniteSets

CONSTANTS
    Commands,   \* the commands agents submit while the console runs
    VerdictOf,  \* what the policy says of each
    SingleKey,  \* what App.singleKeyInput may be, as Run finds its input
    Terminal,   \* what App.terminalOutput may be
    Lines       \* the lines the operator may enter, as sequences of words

ASSUME ConstantsAssumption ==
    /\ VerdictOf \in [Commands -> {"ask", "allow", "deny"}]
    /\ SingleKey \subseteq BOOLEAN /\ SingleKey # {}
    /\ Terminal \subseteq BOOLEAN /\ Terminal # {}
    /\ IsFiniteSet(Commands)
    /\ Lines \subseteq {<<>>, <<"approvals">>, <<"quit">>}
                   \cup {<<k>> : k \in {"y", "n"}}
                   \cup {<<k, c>> : k \in {"y", "n"}, c \in Commands}

VARIABLES
    \* commands and the broker
    created,       \* commands in the order of their CreatedAt
    step,          \* where the goroutine of a command stands
    gone,          \* its request context is cancelled
    pending,       \* keys of Broker.pending
    decision,      \* what the operator decided
    row,           \* its row in the commands table
    approvalRow,   \* its row in the approvals table
    \* channels of capacity 1
    changed,       \* Broker.changed
    authz,         \* Service.authz
    \* the reader goroutine
    input,         \* a submitted line offered to the loop, or NoInput
    swallow,       \* swallowLineEnd
    \* the loop
    singleKey,     \* App.singleKeyInput
    terminal,      \* App.terminalOutput
    at,            \* where the loop stands
    choice,        \* the decision it is about to make, or has made
    pendingCount,  \* the atomic the reader looks at
    displayed,     \* displayedPending
    notified,      \* App.notifiedPending
    ledger,        \* App.ledger, as the label shown for each command
    prompt,        \* the last thing on the screen is a prompt
    \* history
    shown,         \* commands whose approval request was ever drawn
    bells          \* how often the bell rang for a command

commandVars == <<created, step, gone, row, approvalRow>>
brokerVars == <<pending, decision>>
readerVars == <<input, swallow>>
modeVars == <<singleKey, terminal>>
screenVars == <<pendingCount, displayed, notified, ledger, prompt, shown, bells>>
vars == <<commandVars, brokerVars, changed, authz, readerVars, modeVars, at,
          choice, screenVars>>

Keys == {"y", "n"}
NoInput == <<"none">>

NoChoice == [command |-> "none", action |-> "none", named |-> FALSE]

(* Broker.List sorts by CreatedAt, so that its elements determine it and    *)
(* its signature: a list is kept as a set, and created as the order.        *)
List == pending
Newest(list) ==
    CHOOSE c \in list :
        \A i, j \in DOMAIN created :
            created[i] = c /\ created[j] \in list => j <= i

Init ==
    /\ created = <<>>
    /\ step = [c \in Commands |-> "idle"]
    /\ gone = [c \in Commands |-> FALSE]
    /\ pending = {}
    /\ decision = [c \in Commands |-> "none"]
    /\ row = [c \in Commands |-> "none"]
    /\ approvalRow = [c \in Commands |-> "none"]
    /\ changed = FALSE /\ authz = FALSE
    /\ input = NoInput /\ swallow = FALSE
    /\ singleKey \in SingleKey /\ terminal \in Terminal
    /\ at = "starting"
    /\ choice = NoChoice
    /\ pendingCount = 0 /\ displayed = {} /\ notified = {}
    /\ ledger = [c \in Commands |-> "none"]
    /\ prompt = FALSE
    /\ shown = {}
    /\ bells = [c \in Commands |-> 0]

-----------------------------------------------------------------------------
(* The goroutine of a command, as far as the console can tell.              *)

Goto(c, next) == step' = [step EXCEPT ![c] = next]

ConsoleUnchanged ==
    UNCHANGED <<readerVars, modeVars, at, choice, screenVars>>

(* command.New stamps the command; its row follows.                         *)
Submit(c) ==
    /\ step[c] = "idle"
    /\ created' = Append(created, c)
    /\ Goto(c, "created")
    /\ UNCHANGED <<gone, row, approvalRow, brokerVars, changed, authz>>
    /\ ConsoleUnchanged

(* CreateCommand, for a command nobody is asked about.                      *)
CreateCommand(c) ==
    /\ step[c] = "created"
    /\ VerdictOf[c] # "ask"
    /\ \/ /\ ~gone[c]
          /\ row' = [row EXCEPT ![c] = "queued"]
          /\ Goto(c, "recorded")
       \/ gone[c] /\ Goto(c, "done") /\ UNCHANGED row
    /\ UNCHANGED <<created, gone, approvalRow, brokerVars, changed, authz>>
    /\ ConsoleUnchanged

(* For the others the row is made and moved to waiting, Broker.Wait         *)
(* publishes the request and then announces it.  An agent that has left by  *)
(* now may have made a write fail.                                          *)
Publish(c) ==
    /\ step[c] = "created"
    /\ VerdictOf[c] = "ask"
    /\ \/ /\ row' = [row EXCEPT ![c] = "queued"]
          /\ pending' = pending \cup {c}
          /\ Goto(c, "published")
       \/ gone[c] /\ Goto(c, "done") /\ UNCHANGED <<row, pending>>
    /\ UNCHANGED <<created, gone, approvalRow, decision, changed, authz>>
    /\ ConsoleUnchanged

(* Mutation: only leaving is announced.                                     *)
AnnounceLeavingOnly(c) ==
    /\ \/ step[c] = "published" /\ Goto(c, "waiting") /\ UNCHANGED changed
       \/ step[c] = "abandoned" /\ Goto(c, "withdrawing") /\ changed' = TRUE
    /\ UNCHANGED <<created, gone, row, approvalRow, brokerVars, authz>>
    /\ ConsoleUnchanged

Announce(c) ==
    /\ \/ step[c] = "published" /\ Goto(c, "waiting")
       \/ step[c] = "abandoned" /\ Goto(c, "withdrawing")
    /\ changed' = TRUE
    /\ UNCHANGED <<created, gone, row, approvalRow, brokerVars, authz>>
    /\ ConsoleUnchanged

AbandonWait(c) ==
    /\ step[c] = "waiting"
    /\ gone[c]
    /\ pending' = pending \ {c}
    /\ Goto(c, "abandoned")
    /\ UNCHANGED <<created, gone, row, approvalRow, decision, changed, authz>>
    /\ ConsoleUnchanged

(* Mutation: the cancelled row is not announced.                            *)
CancelWaitingQuietly(c) ==
    /\ step[c] = "withdrawing"
    /\ row' = [row EXCEPT ![c] = "cancelled"]
    /\ Goto(c, "done")
    /\ UNCHANGED <<created, gone, approvalRow, brokerVars, changed, authz>>
    /\ ConsoleUnchanged

CancelWaiting(c) ==
    /\ step[c] = "withdrawing"
    /\ row' = [row EXCEPT ![c] = "cancelled"]
    /\ Goto(c, "recorded")
    /\ UNCHANGED <<created, gone, approvalRow, brokerVars, changed, authz>>
    /\ ConsoleUnchanged

(* Wait returns the decision and RecordApproval writes it under the request *)
(* context; an error of it is not announced.                                *)
RecordApproval(c) ==
    /\ step[c] = "waiting"
    /\ decision[c] # "none"
    /\ \/ /\ ~gone[c]
          /\ approvalRow' = [approvalRow EXCEPT ![c] = decision[c]]
          /\ Goto(c, "recorded")
       \/ gone[c] /\ Goto(c, "done") /\ UNCHANGED approvalRow
    /\ UNCHANGED <<created, gone, row, brokerVars, changed, authz>>
    /\ ConsoleUnchanged

(* notifyAuthorizationChanged.                                              *)
NotifyAuthorization(c) ==
    /\ step[c] = "recorded"
    /\ authz' = TRUE
    /\ Goto(c, "done")
    /\ UNCHANGED <<created, gone, row, approvalRow, brokerVars, changed>>
    /\ ConsoleUnchanged

Goroutine(c) ==
    \/ Submit(c) \/ CreateCommand(c) \/ Publish(c) \/ Announce(c)
    \/ AbandonWait(c) \/ CancelWaiting(c) \/ RecordApproval(c)
    \/ NotifyAuthorization(c)

Leave(c) ==
    /\ step[c] \notin {"idle", "done"}
    /\ ~gone[c]
    /\ gone' = [gone EXCEPT ![c] = TRUE]
    /\ UNCHANGED <<created, step, row, approvalRow, brokerVars, changed, authz>>
    /\ ConsoleUnchanged

-----------------------------------------------------------------------------
(* readOperatorLines.  What lies between the first key of a line and its    *)
(* end is left out: the loop sees nothing of it but echoes.                 *)

ReaderReady == input = NoInput /\ at # "quit"

IsDecision(words) == Len(words) \in 1..2 /\ words[1] \in Keys

ReaderStep ==
    UNCHANGED <<commandVars, brokerVars, changed, authz, modeVars, at, choice,
                screenVars>>

(* With one request pending a decision key is a line by itself, and the     *)
(* line end that may follow is swallowed.                                   *)
KeyIsLine == singleKey /\ pendingCount = 1

TypeDecisionKey(k) ==
    /\ ReaderReady
    /\ KeyIsLine
    /\ input' = <<k>>
    /\ swallow' = TRUE
    /\ ReaderStep

TypeLine(words) ==
    /\ ReaderReady
    /\ ~(KeyIsLine /\ IsDecision(words))
    /\ input' = IF swallow /\ words = <<>> THEN NoInput ELSE words
    /\ swallow' = FALSE
    /\ ReaderStep

Reader ==
    \/ \E k \in Keys : TypeDecisionKey(k)
    \/ \E words \in Lines : TypeLine(words)

-----------------------------------------------------------------------------
(* App.Run.                                                                 *)

(* Mutation: the count is added to.                                         *)
LookAdding(list) ==
    /\ pendingCount' = pendingCount + Cardinality(list)
    /\ notified' = list
    /\ bells' = [c \in Commands |->
                   IF c \in list \ notified THEN bells[c] + 1
                   ELSE bells[c]]

(* Mutation: what rang is not remembered.                                   *)
LookForgetting(list) ==
    /\ pendingCount' = Cardinality(list)
    /\ notified' = {}
    /\ bells' = [c \in Commands |->
                   IF c \in list \ notified THEN bells[c] + 1
                   ELSE bells[c]]

(* What every branch does with the list it took: the reader's count, the    *)
(* bell for requests not in the last list, and the title.                   *)
Look(list) ==
    /\ pendingCount' = Cardinality(list)
    /\ notified' = list
    /\ bells' = [c \in Commands |->
                   IF c \in list \ notified THEN bells[c] + 1
                   ELSE bells[c]]

(* renderPendingItems together with the new displayedPending.               *)
Draw(list) ==
    /\ displayed' = list
    /\ shown' = shown \cup list

(* Mutation: undecided commands are not filtered out.                       *)
LabelEveryRow(c) ==
    CASE row[c] = "none" -> "none"
      [] row[c] # "none" /\ VerdictOf[c] = "allow" -> "AUTO APPROVE"
      [] row[c] # "none" /\ VerdictOf[c] = "deny" -> "AUTO BLOCKED"
      [] VerdictOf[c] = "ask" /\ approvalRow[c] = "y" -> "USER APPROVE"
      [] VerdictOf[c] = "ask" /\ approvalRow[c] = "n" -> "USER BLOCKED"
      [] OTHER -> "CANCELLED"

(* AuthorizationsSince: the label of a command it returns.                  *)
Label(c) ==
    CASE row[c] = "none" -> "none"
      [] row[c] # "none" /\ VerdictOf[c] = "allow" -> "AUTO APPROVE"
      [] row[c] # "none" /\ VerdictOf[c] = "deny" -> "AUTO BLOCKED"
      [] VerdictOf[c] = "ask" /\ approvalRow[c] = "y" -> "USER APPROVE"
      [] VerdictOf[c] = "ask" /\ approvalRow[c] = "n" -> "USER BLOCKED"
      [] VerdictOf[c] = "ask" /\ approvalRow[c] = "none"
           /\ row[c] = "cancelled" -> "CANCELLED"
      [] OTHER -> "none"

(* refreshAuthorizations: an entry once seen is never read again.           *)
RefreshAuthorizations ==
    ledger' = [c \in Commands |-> IF ledger[c] = "none" THEN Label(c)
                                  ELSE ledger[c]]

Start ==
    /\ at = "starting"
    /\ RefreshAuthorizations
    /\ at' = "opening"
    /\ UNCHANGED <<commandVars, brokerVars, changed, authz, readerVars,
                   modeVars, choice, pendingCount, displayed, notified, prompt,
                   shown, bells>>

Open ==
    /\ at = "opening"
    /\ Look(List) /\ Draw(List)
    /\ prompt' = TRUE
    /\ at' = "select"
    /\ UNCHANGED <<commandVars, brokerVars, changed, authz, readerVars,
                   modeVars, choice, ledger>>

(* Mutation: an empty list leaves displayedPending as it is.                *)
OnChangedKeeping ==
    /\ at = "select"
    /\ changed
    /\ changed' = FALSE
    /\ Look(List)
    /\ IF List \in {displayed, {}} THEN UNCHANGED <<displayed, shown>>
       ELSE Draw(List)
    /\ prompt' = (prompt \/ (List # displayed /\ List # {}))
    /\ UNCHANGED <<commandVars, brokerVars, authz, readerVars, modeVars, at,
                   choice, ledger>>

(* case <-a.Service.Approvals.Changed()                                     *)
OnChanged ==
    /\ at = "select"
    /\ changed
    /\ changed' = FALSE
    /\ Look(List)
    /\ IF List = displayed THEN UNCHANGED <<displayed, shown>> ELSE Draw(List)
    /\ prompt' = (prompt \/ (List # displayed /\ List # {}))
    /\ UNCHANGED <<commandVars, brokerVars, authz, readerVars, modeVars, at,
                   choice, ledger>>

(* case <-a.Service.AuthorizationChanged(): a query, then a list.           *)
OnAuthorization ==
    /\ at = "select"
    /\ authz
    /\ authz' = FALSE
    /\ RefreshAuthorizations
    /\ at' = IF ledger' = ledger THEN "select" ELSE "ledger"
    /\ UNCHANGED <<commandVars, brokerVars, changed, readerVars, modeVars,
                   choice, pendingCount, displayed, notified, prompt, shown,
                   bells>>

ShowLedger ==
    /\ at = "ledger"
    /\ Look(List)
    /\ IF terminal THEN Draw(List) ELSE UNCHANGED <<displayed, shown>>
    /\ prompt' = TRUE
    /\ at' = "select"
    /\ UNCHANGED <<commandVars, brokerVars, changed, authz, readerVars,
                   modeVars, choice, ledger>>

(* case input := <-lines                                                    *)
Receive ==
    /\ at = "select"
    /\ input # NoInput
    /\ input' = NoInput
    /\ prompt' = FALSE
    /\ UNCHANGED <<commandVars, brokerVars, changed, authz, swallow,
                   modeVars, pendingCount, displayed, notified, ledger, bells>>

(* decide: a named request, or the last of the list.                        *)
ReceiveDecision ==
    /\ Receive
    /\ IsDecision(input)
    /\ LET named == Len(input) = 2
           item == IF named THEN input[2] ELSE Newest(List)
       IN  IF List # {} /\ item \in List
             THEN /\ choice' = [command |-> item, action |-> input[1],
                                named |-> named]
                  /\ at' = "deciding"
             ELSE at' = "relisting" /\ UNCHANGED choice
    /\ UNCHANGED shown

ReceiveOther ==
    /\ Receive
    /\ ~IsDecision(input)
    /\ at' = IF input = <<"quit">> THEN "quit" ELSE "relisting"
    /\ shown' = IF input = <<"approvals">> THEN shown \cup List
                ELSE shown
    /\ UNCHANGED choice

(* Broker.Decide, which announces the change.                               *)
Decide ==
    /\ at = "deciding"
    /\ IF choice.command \in pending
         THEN /\ pending' = pending \ {choice.command}
              /\ decision' = [decision EXCEPT ![choice.command] =
                                                 choice.action]
              /\ changed' = TRUE
              /\ UNCHANGED choice
         ELSE /\ choice' = NoChoice
              /\ UNCHANGED <<pending, decision, changed>>
    /\ at' = "relisting"
    /\ UNCHANGED <<commandVars, authz, readerVars, modeVars, screenVars>>

(* The rest of the branch: after a decision no prompt is drawn until its    *)
(* entry is in the ledger.                                                  *)
Relist ==
    /\ at = "relisting"
    /\ Look(List)
    /\ IF IF choice # NoChoice THEN terminal ELSE List # displayed
         THEN Draw(List)
         ELSE UNCHANGED <<displayed, shown>>
    /\ prompt' = (choice = NoChoice)
    /\ choice' = NoChoice
    /\ at' = "select"
    /\ UNCHANGED <<commandVars, brokerVars, changed, authz, readerVars,
                   modeVars, ledger>>

Loop ==
    \/ Start \/ Open \/ OnChanged \/ OnAuthorization \/ ShowLedger
    \/ ReceiveDecision \/ ReceiveOther \/ Decide \/ Relist

Next == Loop \/ Reader \/ \E c \in Commands : Goroutine(c) \/ Leave(c)

Spec == Init /\ [][Next]_vars

(* Goroutines that can go on do; a ready case of select is taken in the     *)
(* end, since Go chooses among ready cases at random.  Agents and the       *)
(* operator owe nothing.                                                    *)
FairSpec ==
    /\ Spec
    /\ \A c \in Commands : WF_vars(Goroutine(c))
    /\ WF_vars(Start \/ Open \/ ShowLedger \/ Decide \/ Relist)
    /\ SF_vars(OnChanged)
    /\ SF_vars(OnAuthorization)
    /\ SF_vars(ReceiveDecision \/ ReceiveOther)

-----------------------------------------------------------------------------
Steps == {"idle", "created", "published", "waiting", "abandoned",
          "withdrawing", "recorded", "done"}

Inputs == Lines \cup {<<k>> : k \in Keys} \cup {NoInput}
Choices == [command : Commands \cup {"none"}, action : Keys \cup {"none"},
            named : BOOLEAN]
Labels == {"none", "AUTO APPROVE", "AUTO BLOCKED", "USER APPROVE",
           "USER BLOCKED", "CANCELLED"}

(* Every variable has a value of its kind.                                  *)
TypeOK ==
    /\ created \in Seq(Commands)
    /\ step \in [Commands -> Steps]
    /\ gone \in [Commands -> BOOLEAN]
    /\ pending \subseteq Commands
    /\ decision \in [Commands -> Keys \cup {"none"}]
    /\ row \in [Commands -> {"none", "queued", "cancelled"}]
    /\ approvalRow \in [Commands -> Keys \cup {"none"}]
    /\ changed \in BOOLEAN /\ authz \in BOOLEAN /\ swallow \in BOOLEAN
    /\ singleKey \in BOOLEAN /\ terminal \in BOOLEAN /\ prompt \in BOOLEAN
    /\ input \in Inputs
    /\ at \in {"starting", "opening", "select", "deciding", "relisting",
               "ledger", "quit"}
    /\ choice \in Choices
    /\ pendingCount \in 0..Cardinality(Commands)
    /\ displayed \subseteq Commands
    /\ notified \subseteq Commands /\ shown \subseteq Commands
    /\ ledger \in [Commands -> Labels]
    /\ bells \in [Commands -> Nat]

(* Although notifications are coalesced and a decision leaves the screen of *)
(* a plain output alone, the loop never rests on a stale list: when it      *)
(* waits with nothing announced, and nobody is about to announce, what it   *)
(* displayed, counted and rang for is the broker's list.                    *)
ScreenInSync ==
    /\ at = "select"
    /\ ~changed
    /\ \A c \in Commands : step[c] \notin {"published", "abandoned"}
    => /\ displayed = List
       /\ pendingCount = Cardinality(List)
       /\ notified = List

(* notifyPending "rings once for each newly waiting request": never twice,  *)
(* and no request is on display that did not ring.                          *)
BellOnce ==
    \A c \in Commands :
        /\ bells[c] <= 1
        /\ c \in displayed => bells[c] = 1

(* The ledger shows an entry once and never looks again, so the label it    *)
(* took must stay true: a command it calls cancelled is never approved      *)
(* afterwards, one it calls approved has the operator's "y".                *)
LedgerTruth ==
    \A c \in Commands :
        ledger[c] # "none" =>
            /\ ledger[c] = Label(c)
            /\ ledger[c] = "USER APPROVE" => decision[c] = "y"
            /\ ledger[c] = "USER BLOCKED" => decision[c] = "n"
            /\ ledger[c] = "CANCELLED" => gone[c]

(* Every request is drawn unless it goes first.                             *)
PendingIsShown ==
    \A c \in Commands :
        c \in pending ~> (c \in shown \/ c \notin pending \/ at = "quit")

(* Every authorization gets into the ledger, however many notifications     *)
(* were merged into one.                                                    *)
LedgerComplete ==
    \A c \in Commands :
        Label(c) # "none" ~> (ledger[c] = Label(c) \/ at = "quit")
=============================================================================
