------------------------ MODULE OperatorConsoleProofs ------------------------
(***************************************************************************)
(* Proofs about OperatorConsole for any finite set of commands, any lines  *)
(* the operator may enter and both kinds of input and of output.           *)
(***************************************************************************)
EXTENDS OperatorConsole, FiniteSetTheorems, TLAPS

USE DEF Keys

(***************************************************************************)
(* The inductive invariant, in parts.                                      *)
(***************************************************************************)

(* A command that is not published yet has left no trace.                   *)
Fresh ==
    \A c \in Commands : step[c] \in {"idle", "created"} =>
        /\ c \notin pending /\ decision[c] = "none"
        /\ row[c] = "none" /\ approvalRow[c] = "none" /\ bells[c] = 0

(* The broker decides a request while it is pending, and at most once.      *)
UndecidedWhilePending == \A c \in Commands : c \in pending => decision[c] = "none"

(* The last write of a command is its last step but the notification, and   *)
(* says what the broker or the request context said.                        *)
Written ==
    \A c \in Commands :
        /\ approvalRow[c] # "none" =>
              approvalRow[c] = decision[c] /\ step[c] \in {"recorded", "done"}
        /\ row[c] = "cancelled" => gone[c] /\ step[c] \in {"recorded", "done"}
        /\ row[c] # "none" /\ VerdictOf[c] # "ask" =>
              step[c] \in {"recorded", "done"}
        /\ step[c] \in {"abandoned", "withdrawing"} => gone[c]
        /\ step[c] = "withdrawing" => VerdictOf[c] = "ask"
        /\ VerdictOf[c] # "ask" =>
              step[c] \in {"idle", "created", "recorded", "done"}

(* What rang is remembered as long as it can ring.                          *)
Remembered ==
    \A c \in Commands :
        /\ bells[c] <= 1
        /\ c \in notified \cup displayed => bells[c] = 1
        /\ c \in pending /\ bells[c] = 1 => c \in notified

(* The loop carries a decision only from decide to the end of the branch,   *)
(* and a decision made is announced until the loop looks at the channel.    *)
Carried ==
    /\ at \notin {"deciding", "relisting"} => choice = NoChoice
    /\ at = "deciding" => choice.action \in Keys
    /\ at = "relisting" /\ choice # NoChoice => changed

(* ScreenInSync, and the same before the loop draws the ledger.             *)
Synced ==
    /\ at \in {"select", "ledger"}
    /\ ~changed
    /\ \A c \in Commands : step[c] \notin {"published", "abandoned"}
    => /\ displayed = pending
       /\ pendingCount = Cardinality(pending)
       /\ notified = pending

IInv ==
    /\ TypeOK /\ Fresh /\ UndecidedWhilePending /\ Written /\ Remembered
    /\ Carried /\ Synced /\ LedgerTruth

-----------------------------------------------------------------------------
LEMMA NoChoiceType == NoChoice \in Choices
BY DEF NoChoice, Choices

(* The initial states satisfy every part.                                   *)
LEMMA InitIInv == Init => IInv
<1> SUFFICES ASSUME Init PROVE IInv
  OBVIOUS
<1>1. Cardinality({}) = 0
  BY FS_EmptySet
<1>2. Cardinality(Commands) \in Nat
  BY ConstantsAssumption, FS_CardinalityType
<1>3. TypeOK
  <2>1. NoInput \in Inputs
    BY DEF Inputs
  <2>2. "none" \in Labels
    BY DEF Labels
  <2>3. singleKey \in BOOLEAN /\ terminal \in BOOLEAN
    BY ConstantsAssumption DEF Init
  <2>4. created \in Seq(Commands)
    BY DEF Init
  <2>5. /\ step \in [Commands -> Steps] /\ gone \in [Commands -> BOOLEAN]
        /\ row \in [Commands -> {"none", "queued", "cancelled"}]
        /\ decision \in [Commands -> Keys \cup {"none"}]
        /\ approvalRow \in [Commands -> Keys \cup {"none"}]
        /\ ledger \in [Commands -> Labels] /\ bells \in [Commands -> Nat]
    BY <2>2 DEF Init, Steps
  <2>6. pendingCount \in 0..Cardinality(Commands)
    BY <1>2 DEF Init
  <2>7. /\ pending \subseteq Commands /\ input \in Inputs /\ choice \in Choices
        /\ displayed \subseteq Commands /\ notified \subseteq Commands
        /\ shown \subseteq Commands /\ at = "starting"
        /\ changed = FALSE /\ authz = FALSE /\ swallow = FALSE
        /\ prompt = FALSE
    BY <2>1, NoChoiceType DEF Init
  <2> QED
    BY <2>1, <2>3, <2>4, <2>5, <2>6, <2>7 DEF TypeOK
<1>4. Fresh /\ UndecidedWhilePending /\ Written /\ Remembered
  BY DEF Init, Fresh, UndecidedWhilePending, Written, Remembered
<1>5. Carried /\ Synced /\ LedgerTruth
  BY <1>1 DEF Init, Carried, Synced, LedgerTruth
<1> QED
  BY <1>3, <1>4, <1>5 DEF IInv

(***************************************************************************)
(* Type correctness.                                                       *)
(***************************************************************************)
LEMMA GoroutineTypeOK ==
    ASSUME TypeOK, NEW c \in Commands, Goroutine(c) \/ Leave(c)
    PROVE  TypeOK'
<1> USE DEF TypeOK, ConsoleUnchanged, brokerVars, readerVars, modeVars,
            screenVars, Goto, Steps
<1>1. CASE Submit(c)
  BY <1>1 DEF Submit
<1>2. CASE CreateCommand(c)
  BY <1>2, ZenonT(60) DEF CreateCommand
<1>3. CASE Publish(c)
  BY <1>3, ZenonT(60) DEF Publish
<1>4. CASE Announce(c)
  BY <1>4 DEF Announce
<1>5. CASE AbandonWait(c)
  BY <1>5 DEF AbandonWait
<1>6. CASE CancelWaiting(c)
  BY <1>6 DEF CancelWaiting
<1>7. CASE RecordApproval(c)
  BY <1>7 DEF RecordApproval
<1>8. CASE NotifyAuthorization(c)
  BY <1>8 DEF NotifyAuthorization
<1>9. CASE Leave(c)
  BY <1>9 DEF Leave
<1> QED
  BY <1>1, <1>2, <1>3, <1>4, <1>5, <1>6, <1>7, <1>8, <1>9 DEF Goroutine

LEMMA ReaderTypeOK == TypeOK /\ Reader => TypeOK'
<1> SUFFICES ASSUME TypeOK, Reader PROVE TypeOK'
  OBVIOUS
<1> USE DEF TypeOK, ReaderStep, commandVars, brokerVars, modeVars, screenVars
<1>1. ASSUME NEW k \in Keys, TypeDecisionKey(k) PROVE TypeOK'
  BY <1>1 DEF TypeDecisionKey, Inputs
<1>2. ASSUME NEW words \in Lines, TypeLine(words) PROVE TypeOK'
  BY <1>2 DEF TypeLine, Inputs
<1> QED
  BY <1>1, <1>2 DEF Reader

(* The broker's list is a finite set of commands.                           *)
LEMMA ListType ==
    ASSUME TypeOK
    PROVE  List \subseteq Commands
           /\ Cardinality(List) \in 0..Cardinality(Commands)
<1>1. List \subseteq Commands
  BY DEF TypeOK, List
<1> QED
  BY <1>1, ConstantsAssumption, FS_Subset, FS_CardinalityType

LEMMA LookType ==
    ASSUME TypeOK, Look(List)
    PROVE  /\ pendingCount' \in 0..Cardinality(Commands)
           /\ notified' \subseteq Commands
           /\ bells' \in [Commands -> Nat]
BY ListType DEF TypeOK, Look

LEMMA DrawType ==
    ASSUME TypeOK, Draw(List) \/ UNCHANGED <<displayed, shown>>
    PROVE  displayed' \subseteq Commands /\ shown' \subseteq Commands
BY ListType DEF TypeOK, Draw

LEMMA LabelType ==
    ASSUME TypeOK, NEW c \in Commands
    PROVE  Label(c) \in Labels
BY DEF Label, Labels

LEMMA LedgerType ==
    ASSUME TypeOK, RefreshAuthorizations
    PROVE  ledger' \in [Commands -> Labels]
BY LabelType DEF TypeOK, RefreshAuthorizations

LEMMA LoopTypeOK == TypeOK /\ Carried /\ Loop => TypeOK'
<1> SUFFICES ASSUME TypeOK, Carried, Loop PROVE TypeOK'
  OBVIOUS
<1> USE DEF commandVars, brokerVars, readerVars, modeVars, screenVars
<1>1. CASE Start
  BY <1>1, LedgerType DEF TypeOK, Start
<1>2. CASE Open
  BY <1>2, LookType, DrawType DEF TypeOK, Open
<1>3. CASE OnChanged
  <2>1. prompt' \in BOOLEAN
    BY <1>3 DEF TypeOK, OnChanged
  <2> QED
    BY <1>3, <2>1, LookType, DrawType DEF TypeOK, OnChanged
<1>4. CASE OnAuthorization
  BY <1>4, LedgerType DEF TypeOK, OnAuthorization
<1>5. CASE ShowLedger
  BY <1>5, LookType, DrawType DEF TypeOK, ShowLedger
<1>6. CASE ReceiveDecision
  <2>1. ASSUME NEW c \in Commands, NEW k \in Keys, NEW named \in BOOLEAN
        PROVE  [command |-> c, action |-> k, named |-> named] \in Choices
    BY DEF Choices
  <2>2. input[1] \in Keys /\ List \subseteq Commands
    BY <1>6, ListType DEF ReceiveDecision, IsDecision
  <2>3. \/ choice' = choice /\ at' = "relisting"
        \/ /\ at' = "deciding"
           /\ \E c \in List, named \in BOOLEAN :
                choice' = [command |-> c, action |-> input[1], named |-> named]
    BY <1>6 DEF ReceiveDecision
  <2>4. choice' \in Choices /\ at' \in {"deciding", "relisting"}
    <3>1. choice \in Choices
      BY DEF TypeOK
    <3>2. ASSUME NEW c \in List, NEW named \in BOOLEAN
          PROVE  [command |-> c, action |-> input[1], named |-> named] \in Choices
      BY <2>1, <2>2
    <3> QED
      BY <2>3, <3>1, <3>2
  <2> QED
    BY <1>6, <2>4 DEF TypeOK, ReceiveDecision, Receive, Inputs
<1>7. CASE ReceiveOther
  BY <1>7, ListType DEF TypeOK, ReceiveOther, Receive, Inputs
<1>8. CASE Decide
  <2>1. choice' \in Choices
    BY <1>8, NoChoiceType DEF TypeOK, Decide
  <2>2. decision' \in [Commands -> Keys \cup {"none"}]
    BY <1>8 DEF TypeOK, Decide, Carried
  <2> QED
    BY <1>8, <2>1, <2>2 DEF TypeOK, Decide
<1>9. CASE Relist
  <2>1. prompt' \in BOOLEAN
    BY <1>9 DEF Relist
  <2> QED
    BY <1>9, <2>1, LookType, DrawType DEF TypeOK, Relist, NoChoice, Choices
<1> QED
  BY <1>1, <1>2, <1>3, <1>4, <1>5, <1>6, <1>7, <1>8, <1>9 DEF Loop

LEMMA NextTypeOK == TypeOK /\ Carried /\ [Next]_vars => TypeOK'
<1> SUFFICES ASSUME TypeOK, Carried, [Next]_vars PROVE TypeOK'
  OBVIOUS
<1>1. CASE Next
  BY <1>1, LoopTypeOK, ReaderTypeOK, GoroutineTypeOK DEF Next
<1>2. CASE UNCHANGED vars
  BY <1>2 DEF TypeOK, vars, commandVars, brokerVars, readerVars, modeVars,
     screenVars
<1> QED
  BY <1>1, <1>2
-----------------------------------------------------------------------------
(***************************************************************************)
(* The life of a command: each step of its goroutine writes what the parts *)
(* Fresh, UndecidedWhilePending and Written let it.                        *)
(***************************************************************************)
Life == Fresh /\ UndecidedWhilePending /\ Written

(* The functions over the commands, for the steps that update one of them.  *)
LEMMA Functions ==
    ASSUME TypeOK
    PROVE  /\ step \in [Commands -> Steps] /\ gone \in [Commands -> BOOLEAN]
           /\ row \in [Commands -> {"none", "queued", "cancelled"}]
           /\ decision \in [Commands -> Keys \cup {"none"}]
           /\ approvalRow \in [Commands -> Keys \cup {"none"}]
           /\ bells \in [Commands -> Nat] /\ pending \subseteq Commands
BY DEF TypeOK

LEMMA GoroutineLife ==
    ASSUME TypeOK, Life, NEW c \in Commands, Goroutine(c) \/ Leave(c)
    PROVE  Life'
<1> USE Functions DEF Life, Fresh, UndecidedWhilePending, Written, Goto,
        ConsoleUnchanged, brokerVars, screenVars
<1>1. CASE Submit(c)
  BY <1>1 DEF Submit
<1>2. CASE CreateCommand(c)
  BY <1>2 DEF CreateCommand
<1>3. CASE Publish(c)
  BY <1>3 DEF Publish
<1>4. CASE Announce(c)
  BY <1>4 DEF Announce
<1>5. CASE AbandonWait(c)
  BY <1>5 DEF AbandonWait
<1>6. CASE CancelWaiting(c)
  BY <1>6 DEF CancelWaiting
<1>7. CASE RecordApproval(c)
  BY <1>7 DEF RecordApproval
<1>8. CASE NotifyAuthorization(c)
  BY <1>8 DEF NotifyAuthorization
<1>9. CASE Leave(c)
  BY <1>9 DEF Leave
<1> QED
  BY <1>1, <1>2, <1>3, <1>4, <1>5, <1>6, <1>7, <1>8, <1>9 DEF Goroutine

(* Only pending requests ring, and only pending requests are decided.       *)
LEMMA LookBells ==
    ASSUME TypeOK, Look(List)
    PROVE  \A c \in Commands :
              /\ c \notin pending => bells'[c] = bells[c]
              /\ c \in pending => bells'[c] = IF c \in notified THEN bells[c]
                                             ELSE bells[c] + 1
BY Functions DEF Look, List

LEMMA LoopLife ==
    ASSUME TypeOK, Life, Loop
    PROVE  Life'
<1> USE DEF Life, Fresh, UndecidedWhilePending, Written
<1>1. ASSUME UNCHANGED <<commandVars, brokerVars>>,
             Look(List) \/ UNCHANGED bells
      PROVE  Life'
  BY <1>1, LookBells DEF commandVars, brokerVars
<1>2. CASE Decide
  BY <1>2, Functions DEF Decide, commandVars, screenVars
<1> QED
  BY <1>1, <1>2 DEF Loop, Start, Open, OnChanged, OnAuthorization, ShowLedger,
     ReceiveDecision, ReceiveOther, Receive, Relist

LEMMA NextLife == TypeOK /\ Life /\ [Next]_vars => Life'
<1> SUFFICES ASSUME TypeOK, Life, [Next]_vars PROVE Life'
  OBVIOUS
<1>1. CASE UNCHANGED <<commandVars, brokerVars, bells>>
  BY <1>1 DEF Life, Fresh, UndecidedWhilePending, Written, commandVars,
     brokerVars
<1>2. CASE Reader
  BY <1>1, <1>2 DEF Reader, TypeDecisionKey, TypeLine, ReaderStep, screenVars
<1> QED
  BY <1>1, <1>2, GoroutineLife, LoopLife DEF Next, vars, screenVars

(***************************************************************************)
(* The bell.                                                               *)
(***************************************************************************)
LEMMA NextRemembered ==
    TypeOK /\ Life /\ Remembered /\ [Next]_vars => Remembered'
<1> SUFFICES ASSUME TypeOK, Life, Remembered, [Next]_vars PROVE Remembered'
  OBVIOUS
<1> USE DEF Remembered
<1>1. ASSUME UNCHANGED <<notified, displayed, bells>>,
             pending' \subseteq pending
      PROVE  Remembered'
  BY <1>1
<1>2. ASSUME Look(List), Draw(List) \/ UNCHANGED displayed, UNCHANGED pending
      PROVE  Remembered'
  <2>1. notified' = pending
    BY <1>2 DEF Look, List
  <2>2. displayed' \in {pending, displayed}
    BY <1>2 DEF Draw, List
  <2>3. \A c \in Commands : bells[c] \in Nat
    BY Functions
  <2> QED
    BY <1>2, <2>1, <2>2, <2>3, LookBells
<1>3. ASSUME NEW c \in Commands, Publish(c) PROVE Remembered'
  <2>1. bells[c] = 0
    BY <1>3 DEF Publish, Life, Fresh
  <2> QED
    BY <1>3, <2>1 DEF Publish, ConsoleUnchanged, screenVars
<1>4. ASSUME NEW c \in Commands, Goroutine(c) \/ Leave(c), ~Publish(c)
      PROVE  Remembered'
  BY <1>1, <1>4 DEF Goroutine, Submit, CreateCommand, Announce, AbandonWait,
     CancelWaiting, RecordApproval, NotifyAuthorization, Leave,
     ConsoleUnchanged, brokerVars, screenVars
<1>5. CASE Open \/ OnChanged \/ ShowLedger \/ Relist
  BY <1>2, <1>5 DEF Open, OnChanged, ShowLedger, Relist, brokerVars
<1>6. CASE \/ Start \/ OnAuthorization \/ ReceiveDecision \/ ReceiveOther
           \/ Decide \/ Reader \/ UNCHANGED vars
  BY <1>1, <1>6 DEF Start, OnAuthorization, ReceiveDecision, ReceiveOther,
     Receive, Decide, Reader, TypeDecisionKey, TypeLine, ReaderStep, vars,
     brokerVars, screenVars
<1> QED
  BY <1>3, <1>4, <1>5, <1>6 DEF Next, Loop

(***************************************************************************)
(* What the loop carries from one step to the next.                        *)
(***************************************************************************)
LEMMA NextCarried == TypeOK /\ Carried /\ [Next]_vars => Carried'
<1> SUFFICES ASSUME TypeOK, Carried, [Next]_vars PROVE Carried'
  OBVIOUS
<1> USE DEF Carried
<1>1. ASSUME UNCHANGED <<at, choice>>, changed => changed' PROVE Carried'
  BY <1>1
<1>2. CASE \/ Start \/ Open \/ OnChanged \/ OnAuthorization \/ ShowLedger
           \/ ReceiveOther \/ Relist
  BY <1>2 DEF Start, Open, OnChanged, OnAuthorization, ShowLedger,
     ReceiveOther, Receive, Relist
<1>3. CASE ReceiveDecision
  <2>1. choice = NoChoice /\ input[1] \in Keys
    BY <1>3 DEF ReceiveDecision, Receive, IsDecision
  <2>2. \/ choice' = choice /\ at' = "relisting"
        \/ at' = "deciding" /\ choice'.action = input[1]
    BY <1>3 DEF ReceiveDecision
  <2> QED
    BY <2>1, <2>2
<1>4. CASE Decide
  BY <1>4 DEF Decide
<1>5. ASSUME NEW c \in Commands, Goroutine(c) \/ Leave(c) PROVE Carried'
  BY <1>1, <1>5 DEF Goroutine, Submit, CreateCommand, Publish, Announce,
     AbandonWait, CancelWaiting, RecordApproval, NotifyAuthorization, Leave,
     ConsoleUnchanged
<1>6. CASE Reader \/ UNCHANGED vars
  BY <1>1, <1>6 DEF Reader, TypeDecisionKey, TypeLine, ReaderStep, vars
<1> QED
  BY <1>2, <1>3, <1>4, <1>5, <1>6 DEF Next, Loop

(***************************************************************************)
(* The screen.                                                             *)
(***************************************************************************)
LEMMA NextSynced == TypeOK /\ Carried /\ Synced /\ [Next]_vars => Synced'
<1> SUFFICES ASSUME TypeOK, Carried, Synced, [Next]_vars PROVE Synced'
  OBVIOUS
<1> USE DEF Synced
<1>1. CASE UNCHANGED <<pending, step, changed, at, displayed, pendingCount,
                       notified>>
  BY <1>1
<1>2. ASSUME NEW c \in Commands, Goroutine(c) \/ Leave(c) PROVE Synced'
  <2> USE Functions DEF ConsoleUnchanged, screenVars, brokerVars, Goto
  <2>1. CASE Publish(c)
    BY <2>1 DEF Publish
  <2>2. CASE Announce(c)
    BY <2>2 DEF Announce
  <2>3. CASE AbandonWait(c)
    BY <2>3 DEF AbandonWait
  <2>4. CASE Submit(c) \/ CreateCommand(c) \/ Leave(c)
    BY <2>4 DEF Submit, CreateCommand, Leave
  <2>5. CASE CancelWaiting(c) \/ RecordApproval(c) \/ NotifyAuthorization(c)
    BY <2>5 DEF CancelWaiting, RecordApproval, NotifyAuthorization
  <2> QED
    BY <1>2, <2>1, <2>2, <2>3, <2>4, <2>5 DEF Goroutine
<1>3. CASE Start \/ ReceiveDecision \/ ReceiveOther \/ Decide
  BY <1>3 DEF Start, ReceiveDecision, ReceiveOther, Decide
<1>4. CASE Open \/ OnChanged
  BY <1>4 DEF Open, OnChanged, Look, Draw, List, commandVars, brokerVars
<1>5. CASE OnAuthorization
  BY <1>5 DEF OnAuthorization, commandVars, brokerVars
<1>6. CASE ShowLedger
  BY <1>6 DEF ShowLedger, Look, Draw, List, commandVars, brokerVars
<1>7. CASE Relist
  BY <1>7 DEF Relist, Carried, Look, Draw, List, commandVars, brokerVars
<1>8. CASE Reader \/ UNCHANGED vars
  BY <1>1, <1>8 DEF Reader, TypeDecisionKey, TypeLine, ReaderStep, vars,
     commandVars, brokerVars, screenVars
<1> QED
  BY <1>2, <1>3, <1>4, <1>5, <1>6, <1>7, <1>8 DEF Next, Loop

(***************************************************************************)
(* The ledger.  A label, once there is one, is final.                      *)
(***************************************************************************)
LEMMA LabelFinal ==
    ASSUME TypeOK, Life, NEW c \in Commands, Label(c) # "none",
           [Next]_vars
    PROVE  /\ Label(c)' = Label(c)
           /\ decision[c] # "none" => decision'[c] = decision[c]
           /\ gone[c] => gone'[c]
<1> USE Functions DEF Label, Life, Fresh, UndecidedWhilePending, Written, Goto,
        commandVars, brokerVars
<1>1. CASE UNCHANGED <<commandVars, brokerVars>>
  BY <1>1
<1>2. CASE Decide
  BY <1>2 DEF Decide
<1>3. ASSUME NEW d \in Commands, CreateCommand(d) \/ Publish(d)
      PROVE  /\ Label(c)' = Label(c)
             /\ decision[c] # "none" => decision'[c] = decision[c]
             /\ gone[c] => gone'[c]
  BY <1>3, ZenonT(120) DEF CreateCommand, Publish
<1>4. ASSUME NEW d \in Commands, CancelWaiting(d)
      PROVE  /\ Label(c)' = Label(c)
             /\ decision[c] # "none" => decision'[c] = decision[c]
             /\ gone[c] => gone'[c]
  BY <1>4 DEF CancelWaiting
<1>5. ASSUME NEW d \in Commands, RecordApproval(d)
      PROVE  /\ Label(c)' = Label(c)
             /\ decision[c] # "none" => decision'[c] = decision[c]
             /\ gone[c] => gone'[c]
  BY <1>5 DEF RecordApproval
<1>6. ASSUME NEW d \in Commands,
             \/ Submit(d) \/ Announce(d) \/ AbandonWait(d)
             \/ NotifyAuthorization(d) \/ Leave(d)
      PROVE  /\ Label(c)' = Label(c)
             /\ decision[c] # "none" => decision'[c] = decision[c]
             /\ gone[c] => gone'[c]
  BY <1>6, ZenonT(60) DEF Submit, Announce, AbandonWait, NotifyAuthorization, Leave
<1>7. CASE Reader
  BY <1>7 DEF Reader, TypeDecisionKey, TypeLine, ReaderStep
<1>8. CASE Loop /\ ~Decide
  BY <1>8 DEF Loop, Start, Open, OnChanged, OnAuthorization, ShowLedger,
     ReceiveDecision, ReceiveOther, Receive, Relist
<1> QED
  BY <1>1, <1>2, <1>3, <1>4, <1>5, <1>6, <1>7, <1>8 DEF Next, Goroutine, vars

(* What a label says of the decision and of the agent, when it is read.     *)
LEMMA LabelTrue ==
    ASSUME TypeOK, Life, NEW c \in Commands
    PROVE  /\ Label(c) = "USER APPROVE" => decision[c] = "y"
           /\ Label(c) = "USER BLOCKED" => decision[c] = "n"
           /\ Label(c) = "CANCELLED" => gone[c]
BY DEF Label, Life, Written

(* The loop changes its ledger by reading the labels only.                  *)
LEMMA LedgerSteps ==
    [Next]_vars =>
        \/ UNCHANGED ledger
        \/ RefreshAuthorizations /\ UNCHANGED <<commandVars, brokerVars>>
<1>1. ASSUME NEW c \in Commands, Goroutine(c) \/ Leave(c)
      PROVE  UNCHANGED ledger
  BY <1>1 DEF Goroutine, Submit, CreateCommand, Publish, Announce, AbandonWait,
     CancelWaiting, RecordApproval, NotifyAuthorization, Leave,
     ConsoleUnchanged, screenVars
<1> QED
  BY <1>1 DEF Next, vars, Loop, Start, Open, OnChanged, OnAuthorization,
     ShowLedger, ReceiveDecision, ReceiveOther, Receive, Decide, Relist, Reader,
     TypeDecisionKey, TypeLine, ReaderStep, screenVars

LEMMA NextLedgerTruth ==
    TypeOK /\ Life /\ LedgerTruth /\ [Next]_vars => LedgerTruth'
<1> SUFFICES ASSUME TypeOK, Life, LedgerTruth, [Next]_vars,
                    NEW c \in Commands, ledger'[c] # "none"
             PROVE  /\ ledger'[c] = Label(c)'
                    /\ ledger'[c] = "USER APPROVE" => decision'[c] = "y"
                    /\ ledger'[c] = "USER BLOCKED" => decision'[c] = "n"
                    /\ ledger'[c] = "CANCELLED" => gone'[c]
  BY DEF LedgerTruth
<1>1. CASE ledger'[c] = ledger[c]
  <2>1. /\ ledger[c] = Label(c) /\ Label(c) # "none"
        /\ ledger[c] = "USER APPROVE" => decision[c] = "y"
        /\ ledger[c] = "USER BLOCKED" => decision[c] = "n"
        /\ ledger[c] = "CANCELLED" => gone[c]
    BY <1>1 DEF LedgerTruth
  <2> QED
    BY <1>1, <2>1, LabelFinal
<1>2. CASE RefreshAuthorizations /\ UNCHANGED <<commandVars, brokerVars>>
  <2>1. Label(c)' = Label(c) /\ UNCHANGED <<decision, gone>>
    BY <1>2 DEF Label, commandVars, brokerVars
  <2>2. ledger'[c] \in {Label(c), ledger[c]}
    BY <1>2 DEF RefreshAuthorizations
  <2> QED
    BY <1>1, <2>1, <2>2, LabelTrue
<1> QED
  BY <1>1, <1>2, LedgerSteps

(***************************************************************************)
(* The invariant is inductive.                                             *)
(***************************************************************************)
LEMMA NextIInv == IInv /\ [Next]_vars => IInv'
BY NextTypeOK, NextLife, NextRemembered, NextCarried, NextSynced,
   NextLedgerTruth DEF IInv, Life

LEMMA SpecIInv == Spec => []IInv
BY InitIInv, NextIInv, PTL DEF Spec

-----------------------------------------------------------------------------
(* Every variable keeps to its kind: the count the reader of keys looks at  *)
(* is always one of a list of commands, and whatever line is entered, what  *)
(* decide takes from it is a command and a decision.                        *)
THEOREM TypeCorrect == Spec => []TypeOK
BY SpecIInv, PTL DEF IInv

(* App.Run never waits with a stale screen: when the channels are empty and *)
(* nobody is about to send, what is displayed, counted and has rung is the  *)
(* broker's list, although sends are merged and branches skip the drawing.  *)
THEOREM ScreenStaysInSync == Spec => []ScreenInSync
<1>1. IInv => ScreenInSync
  BY DEF IInv, Synced, ScreenInSync, List
<1> QED
  BY <1>1, SpecIInv, PTL

(* notifyPending rings once for each request, and for all that are drawn.   *)
THEOREM RingsOnce == Spec => []BellOnce
<1>1. IInv => BellOnce
  BY DEF IInv, Remembered, BellOnce
<1> QED
  BY <1>1, SpecIInv, PTL

(* refreshAuthorizations reads a label once; the label stays what the row   *)
(* and the operator's decision say.                                         *)
THEOREM LedgerStaysTrue == Spec => []LedgerTruth
BY SpecIInv, PTL DEF IInv

(* Broker.Decide is final: no decision is replaced by another.              *)
THEOREM DecisionsAreFinal ==
    Spec => [][\A c \in Commands :
                  decision[c] # "none" => decision'[c] = decision[c]]_decision
<1>1. ASSUME IInv, [Next]_vars, NEW c \in Commands, decision[c] # "none"
      PROVE  decision'[c] = decision[c]
  <2>1. CASE Decide
    BY <1>1, <2>1, Functions DEF Decide, IInv, UndecidedWhilePending
  <2>2. ASSUME NEW d \in Commands, Goroutine(d) \/ Leave(d)
        PROVE  UNCHANGED decision
    BY <2>2 DEF Goroutine, Submit, CreateCommand, Publish, Announce,
       AbandonWait, CancelWaiting, RecordApproval, NotifyAuthorization, Leave,
       brokerVars
  <2>3. CASE ~Decide /\ (Loop \/ Reader \/ UNCHANGED vars)
    BY <2>3 DEF Loop, Start, Open, OnChanged, OnAuthorization, ShowLedger,
       ReceiveDecision, ReceiveOther, Receive, Relist, Reader, TypeDecisionKey,
       TypeLine, ReaderStep, vars, brokerVars
  <2> QED
    BY <1>1, <2>1, <2>2, <2>3 DEF Next
<1>2. IInv /\ [Next]_vars =>
        [\A c \in Commands :
            decision[c] # "none" => decision'[c] = decision[c]]_decision
  BY <1>1
<1> QED
  BY <1>2, SpecIInv, PTL DEF Spec
=============================================================================
