# A verification of Windmill Gate

Gate (`src/`) lets an AI agent run commands on a remote production system under
human control: each command is classified by a policy, approved by an operator
when no rule matches, executed through a Windmill support session, and audited in
SQLite.  This directory holds TLA+ models of it, the TLC runs that check them
and the proofs TLAPS checks.

## 1. Inventory

| Part | Source | State it keeps | Operations |
| --- | --- | --- | --- |
| Gate service | `internal/gate/service.go`, `internal/command` | attachments, sessions, running map with cancel functions, a state machine per command | AddTarget, Attach, OpenSession, Exec, AddForward, AddHostAlias, CancelCommand, DetachTarget |
| Approval broker | `internal/approval` | pending requests, one decision channel of capacity 1 each | Wait, Decide, List |
| Target registry | `internal/target` | bindings of random IDs to backend IDs | Add, Resolve, Remove |
| Policy engine | `internal/policy` | compiled rules, temporary rules per target | Evaluate, AllowForTarget, DetachTarget |
| Audit store | `internal/storage` | rows of targets, sessions, commands, approvals, output, forwards, aliases | Save*, Update*, Record*, Append*, Close*, queries |
| Forwards, aliases | `internal/forward` | live SSH processes, a map of forwards, a map of aliases, lines of the hosts file | Add, Close, CloseTarget, wait, Remove, cleaning at start |
| Agent server | `internal/agent/server.go`, `internal/protocol` | one context and two goroutines per connection | hello, one request, a cancel frame |
| Agent client, SSH bridge | `internal/agent/client.go`, `control.go`, `internal/remote` | the peer's half of the exchange; a bridge has one goroutine and two streams | Exec, Control, Run |
| Operator console | `internal/tui` | the displayed list of pending requests, the ledger, input mode, notification channels | the select loop, the key reader, attach, detach, cancel, approve, deny |
| Windmill backend | `internal/backend/windmill` | cache of connections, the bytes each redactor holds back | ListTargets, Exec, OpenForward, redaction |
| Output audit | `internal/gate` (auditWriter), `internal/storage` | the rows of output, one sticky error per stream | Write, AppendOutput |
| Policy review | `internal/review` | a clone of the policy repository, a branch and a pull request upstream | analyse history, validate rules, propose them |

The agent's connection goroutine calls the service; it parks in the broker when a
human is needed; the operator's single goroutine wakes it by `Decide`, or
disturbs it by `CancelCommand` and `DetachTarget`.  They share the maps of the
service under its mutex, the broker's map under another, the policy's temporary
rules under a third, and the SQLite rows under none: each write is a statement
of its own, under the context of whoever issues it.  Change notifications are
sent on channels of capacity 1 and may be coalesced.  Forwards add a goroutine
per SSH process and a file (`/etc/hosts`) that outlives the daemon.

What is hard here: the order of audit rows, rules and effects when the agent may
leave between any two of them; a decision that races the agent's departure; a
detach that races commands and forwards under way; what a killed daemon leaves
on disk; writes that fail half-way; two output streams that share a limit and a
store; frames, closings and cancellations that cross on a connection; proposers
that meet on one branch.  `PROJECT.json` lists these hazards at their
lines, with the properties that cover them.

## 2. Modules

* `GateService` - one goroutine per command, the operator's goroutine, the broker,
  the temporary rules, the registry and the rows.
* `CommandLifecycle` - what a reader of the audit store may rely on, without
  goroutines: the abstract specification `GateService` implements.
* `GateServiceProofs`, `ForwardingProofs`, `OperatorConsoleProofs`,
  `AgentConnectionProofs`, `PolicyReviewProofs`, `RedactionProofs`,
  `ExecOutputProofs` - the theorems about these modules; `Recursion` - what a
  recursive function computes, for the last two.
* `Forwarding` - forwards, aliases, the hosts file, their rows, and the daemon's
  lives and deaths.
* `OperatorConsole` - the reader of keys, the select loop of `App.Run`, the two
  coalesced notification channels, and the ledger of authorizations.
* `AgentConnection` - clients, bridges, `ServeConn` and `Serve`, frame by frame.
* `Redaction` - the text functions of the backend; `ExecOutput` - the way of a
  command's output through redactors and audit writers to store and agent.
* `PolicyEngine` - `Evaluate` over the views of a command line; `PolicyReview`,
  which extends it - the analysis of the history and the steps of `Propose`.
* `MCGateService`, `MCForwarding`, `MCOperatorConsole`, `MCAgentConnection`,
  `MCExecOutput`, `MCPolicyReview` - the small instances TLC checks.

How they fit: `AgentConnection` delivers the request `GateService` executes and
assumes of it that a request whose context is cancelled ends
(`CancelledRequestEnds`); the process `GateService` starts writes its output as
`ExecOutput` says, whose `result` is the error or the exit status `GateService`
goes on with; capabilities `GateService` authorizes are the requests of
`Forwarding`; `OperatorConsole` is what stands behind `Decide`; the rows of
`GateService` are the history of `PolicyReview`.

### GateService and the code

`pc[c]` is where the goroutine of command `c` stands in `execute` (or in
`authorizeCapability` and `completeCapability` for the `gate forward add` and
`gate host add` requests, the set `Capabilities`).  One action is one step that
another goroutine can tell apart: a change of memory under a lock, a write to
the store, a channel operation.  A step of the code that writes a row and then
sends a frame is one action with the three outcomes the code distinguishes: both
done, the write refused, the frame refused.

A store write under the request context is refused once that context is
cancelled (`StoreMayFail`); a write under `context.WithoutCancel` is not.
`StoreFaults` lets either fail for reasons of its own.  A payload is a class of
payloads with the same `SimilarPattern`; `PolicyOf` is what the persistent rules
say of it and `Composed` marks those the shell tokenizer refuses.  `decision[c]`
is the decision the broker accepted, first in the request's channel, then in a
local variable of the goroutine.  `ran[c]` is history: the payload has reached
the target.

`ServeConn` reads one request per session, so a session is named by its command.
The operator is one goroutine (the console, then the shutdown loop), so its
other operations wait while a detach is under way (`operator`).  A crash of the
daemon needs no action: it stops everything and nothing repairs rows of
commands at the next start, so what holds of `row`, `approvalRow` and `ran` in
every state holds after a crash.

### Forwarding and the code

A request is a goroutine from its authorization (the subject of `GateService`) to
its result, one action per critical section, process start or disk write.  The
forward, the row and the hosts line it makes have random IDs, so they are named
by the request.  A closer (the operator's detach, or a session that removes) is
a job over the lists it took.  Any disk write may fail.  `Crash` forgets the
memory and the processes and keeps the disk; `StartDaemon`, `CleanLine`,
`CleanRow` and `FinishStart` are `EnableForwarding`.

### OperatorConsole and the code

`at` is where the goroutine of `App.Run` stands: in its `select`, or between two
reads or writes of shared state inside a branch.  The reader goroutine offers
one line at a time (`input`, the unbuffered channel `lines`) and decides by the
last stored `pendingCount` whether a key is a line by itself; echoes and the
editing within a line are left out, the keys `s` and `y` are one.  `changed` and
`authz` are the channels of capacity 1: a send to a full one is lost.
Commands are followed only as far as the console sees them: the entry in the
broker, the rows `AuthorizationsSince` joins, and the two announcements.
`singleKey` and `terminal` are the four kinds of console `Run` may find itself
on.  `shown` and `bells` are history.  The end of the input and of the daemon
(`scanErrors`, `ctx.Done`) stop the loop as `quit` does and are not actions of
their own.

### AgentConnection and the code

A byte stream is a record of what is on its way up and down and of its two
closings (`wire`): a local client and a bridge hold the socket's "unix" stream, a
remote client the "ssh" stream of its bridge.  Closing keeps what is on its way,
as sockets and pipes do; sending on a closed stream fails.  `client` is
`Client.Exec` or `Client.Control`, `bridge` is `Bridge.Run`, `srv` is
`ServeConn`, `next` its reader of a second frame (both may take a step at any
time), `request` is the goroutine of `runRequest`.  `SelectDone` and
`SelectCancel` are the ready cases of one `select`.  A request accepts, reports
and ends in any way `GateService` allows (`Endings`).  `loop`, `active` and
`closer` are `Serve`: the connection between `Accept` and the map is a value of
`loop`.  Frames are named by their type; what `Decode` or `Validate` refuses is
"junk".  The clients of the repository send nothing after the request;
`SendSecond` is another client of the same protocol.

### ExecOutput, Redaction and the code

`text` is what the process would write; `Emit` lets the copying goroutine of a
stream read any next part of it.  `Chain` passes the part through the redactors
(`pending`) into the `auditWriter`, whose place is `at`: one action for the
transaction of `AppendOutput`, one for the frame, one for the marker.  The write
has returned to the redactors only when the last piece is done, so what they
forget then is kept in `trimmed` until it is.  `CloseRedactor` is the deferred
`Close` in the code's order.  A byte is a letter; a character of two bytes is a
pair of letters that `Frame` replaces when it is torn; a mark in the place of a
secret counts one byte.  `Bytes` is the alphabet of all of these; the marker of a
cut output is not in it, so it is told from output that happens to read like it.
`Kept` and `Joined` are the queries over the rows: those of one stream, and their
bytes put together.

### PolicyEngine, PolicyReview and the code

A command line is a program, an operand and a wrapper; a rule matches a program
behind one wrapper with a set of operands, as the anchored expressions do.
`Views` are the texts `commandViews` derives, `Parses` its refusals.
`Generalizes` and `PatternOf` are `generalize`: a program is one with a bounded
family (`journalctl`, `systemctl`, `podman logs`), one allowed exactly, or
neither.  The history is a fixed log the daemon goes on writing; each action of
`Propose` is one external command with what the code does before the next.  A
step that fails, or a process that is killed, is `Abort`; a push or a `gh pr
create` that has its effect and fails all the same is a choice in the action.
`branches`, `open`, `merged` and `upstream` are the remote repository, with
people who merge, close, delete and edit.

## 3. Runs

| Run | Question | Bounds |
| --- | --- | --- |
| `GateService_faults` | Are rows ahead of effects, and is the service an implementation of `CommandLifecycle`, with store faults and departures? | an allowed command and a composed capability, 1 target, 1 agent |
| `GateService_targets` | Do rules stay with the target they were given for, do denials hold, and does a connected agent's command get its final row? | 2 asked commands, 2 targets |
| `GateService_live` | Do cancelled requests, cancelled commands and decisions come to their end? | an asked and a denied command, fair |
| `GateService_result` | Violated: every result is recorded | 2 asked commands, no store faults |
| `Forwarding_faults` | Do map, rows, hosts file and processes account for each other, whatever fails or is killed? | 2 alias requests for one name and port, 1 removing session, 1 target |
| `Forwarding_live` | Do detaches and removals end, and dead forwards leave the list? | 1 alias request, 1 removing session, 2 targets (so that the daemon can live twice), fair |
| `Forwarding_detach` | Violated: forwards are closed when the target detaches | a forward and an alias request |
| `OperatorConsole_screen` | Does the loop ever rest on a stale list, ring twice, or take a label that changes? | 2 asked commands, all kinds of lines, all four kinds of console |
| `OperatorConsole_live` | Is every request shown and every authorization listed? | an asked and an allowed command, single keys on a plain output, fair |
| `AgentConnection_ends` | Are cancels recognised, do clients get the true result, and do departures and shutdowns end requests? | 1 client, local or bridged, every kind of request and of second frame, `MaxReports` = 1, fair |
| `ExecOutput_streams` | Is what is stored redacted and limited, what is sent what is stored, and an exit status complete? | texts of 4 or 5 bytes on one stream and a fixed one on the other, 1 or 2 secrets, reads of at most 3 bytes, pieces of 2, limits 3 and 99 |
| `PolicyReview_publish` | Is what is pushed checked, does it only widen the policy, does it rest on evidence, and is what is reported there? | 2 proposers, `MaxRuns` = 3 starts, `MaxEdits` = 1, 2 of the code's 4 preflights, a log of 9 entries |

Two commands are enough for the interactions the code has: commands meet only in
the temporary rules (one earns a rule another uses) and in the maps a detach
walks over; two targets are enough for a rule or an alias to go to the wrong
one.  Every request and target ID is used once, as the random IDs of the code
are, so no counter has to be bounded; `OperatorConsole` has none either, since
what the operator enters leaves no trace but decisions.  For the console two
commands are enough to have a request on display while another arrives, and a
full channel while another announcement is made.

Connections share nothing but the loop of `Serve` and its map, so one client is
enough for what can happen on it, the late `Accept` included; one state or output
frame is enough for a bridge that finds its client gone.  A secret of three
letters and one of two that may overlap it, texts longer than a secret by two,
and limits below and above a text make every boundary of `FlushLen` and
`AppendOutput` occur, several pieces to a write included (`PieceSize` stands for
32 KiB).  Three starts of two proposers let a retry meet another's branch; the
log has a reattached target, a failure, a rule's approval, a sensitive name and
a wrapped command beside the evidence; two preflights are enough for one to
spoil what the other has seen.

In `Forwarding_faults`, `OperatorConsole_screen` and `PolicyReview_publish`
interchangeable requests, commands and proposers are declared symmetric, in
`GateService_targets` targets too; no liveness is checked there.  Deadlock is
not checked: when every command is done and no target ID is left, the system
rests.

Fairness.  In `GateService` every step of a command's goroutine is weakly fair:
the Go scheduler runs what can run, and the store and the sink return.  A remote
process is fair only once its context is cancelled, when the backend kills it;
it may otherwise run for ever.  A detach under way is carried on.  Agents and the
operator owe nothing.  A peer is assumed to read the frames sent to it, since
the socket writes of the sink have no deadline.  In `Forwarding` the steps that
take the alias mutex are strongly fair, as a Go mutex starves no waiter; the
death of tunnels, crashes and starts are not fair.  In `OperatorConsole` the
cases of the `select` are strongly fair: Go chooses at random among the ready
ones, so a case that is ready again and again is taken.  The operator may never
type and agents may never leave.  In `AgentConnection` goroutines, bridges and
`Serve` are weakly fair, clients read what they are sent, and a request ends
once its context is cancelled, which is `CancelledRequestEnds` of `GateService`;
nobody has to dial, ask, cancel or leave, and a request that is not cancelled may
run for ever.

## 4. What disagrees with the documents

* The result of a command whose agent has left is lost if the backend reports an
  exit code rather than an error: its row stays `running`
  (`GateService_result`).
* A forward being added while its target is detached survives the detach
  (`Forwarding_detach`).

Met while modelling, without a run of their own:

* A tunnel that dies leaves its hostname alias behind, in memory, row and hosts
  file (PLAN.md:434: "clean up aliases when forwards close").
* A decision without an ID goes to the newest request of a fresh list
  (`tui.go:601-603`), which may have arrived after the last redraw; in single-key
  mode one key is enough.  The comment there says "the command the operator most
  recently saw arrive".
* A command that waits while its target is detached can still install a rule for
  it (PLAN.md: "Expire them when the target is detached/closed"; the ID is never
  used again, so the rule is dead).
* The broker may report success for a decision that reaches no row, when the agent
  leaves at the same moment; the console then prints no prompt until something
  else happens, because only a recorded approval is announced.
* A bridge whose SSH client goes away notices with the next frame it relays: a
  silent request keeps running (`agent/server.go:118-119`: "EOF means the agent
  disconnected, which also cancels execution"); `DepartureEnds` says what holds.
* A connection accepted while the daemon stops may be entered too late to be
  closed; if its peer says nothing, `Serve` waits for it, and `runServer` does not
  wait for `Serve`.
* Ctrl-C in `gate exec` on the local socket cancels only the context of the dial.
* A command killed because its context is cancelled returns an exit status (-1)
  and no error from ssh: without output errors it is recorded as failed, not
  cancelled.
* When a chunk of output ends exactly at the limit and more is dropped, the marker
  is sent but no row is truncated (`storage.go:350`: "truncation is recorded
  exactly once").
* A character torn between two pieces reaches the agent as replacement characters,
  although the store has its bytes.
* A secret that overlaps itself, like an address ending as it begins, may be
  replaced in another place than in the whole text; `Separable` excepts such
  secrets.
* A proposal whose branch was pushed but whose pull request was not created cannot
  be repeated: the retry pushes an unrelated commit to the same branch and is
  refused.  Two pull requests may propose the same rule when their sets of rules
  differ (`workflow.go:128`: "Content-derived names prevent duplicate proposals").
* The family rules match names that `hasSecret` refuses in the evidence.

## 5. Proofs

`GateServiceProofs` proves, for any finite or infinite sets of commands, agents,
targets and payloads, any policy, with or without store faults (only
`ConstantsAssumption` is assumed):

* `TypeCorrect`, `Inductive`: `TypeOK` and `IInv` are invariants;
* `HumanBehind`, `AuditFirst`, `DenialIsFinal`, `ProcessesAreTracked`: the safety
  invariants of the runs;
* `PendingIsLive` (`PendingAwaitsDecision`) and `AuditIsMonotone` (the action
  property `AuditHistory`), which like `IInv` are left to the proofs alone;
* `RulesEarned`: the action property `RulesAreEarned`.  Rules of a target are
  dropped only by an operator in the last steps of its detach, so the proof adds
  the invariant `RemovedBeforeRules`: whoever is about to drop them has removed
  the target;
* `AuditIsComplete`: `ConnectedAuditComplete`, under the assumption that no write
  fails by itself (`~StoreFaults`).  The proof adds `Followed`: as long as the
  request's context lives and the sink works, the row follows the state at
  every step of the goroutine;
* `Refinement`: the service implements `CommandLifecycle`.

None of the invariants is inductive by itself.  That a command which ran has a
human behind it needs to know, at every step before, what is already written:
`IInv` says of each value of `pc` which row, state, decision and approval the
command has (`StepFacts`), relates the rows to each other wherever the goroutine
stands (`RowFacts`), and says of every temporary rule that the decision it came
from is in the approvals table (`RuleFacts`).  `StepFacts` carries the sequential
order of `execute` through interleavings with the other commands and the
operator; `RowFacts` keeps what outlives the goroutine; `RuleFacts` is where one
command's approval becomes another's permission.

`ForwardingProofs`, for any requests, removing sessions, names, ports and targets:
`TypeCorrect`; `MirrorHolds` (`RowsMirrorAliases`), `OneLineHolds`
(`OneLinePerName`), `OwnershipHolds` (`TunnelsOwned`), the action property
`ClosedOnceHolds`, and `MutexAlwaysHeldByWorker`.  What lies between memory and
disk belongs to a goroutine, so the invariant says whose it is: the holder of
the mutex stands between its line and its row (`MutexHeld`), a hostname is
reserved by the line, the row or the worker (`NameReserved`), each row names an
alias of its own hostname that was made (`RowsNamed`, `RowlessBefore`), and a
daemon that is down has no memory (`DownIsEmpty`).

`OperatorConsoleProofs`, for any finite set of commands (`ConstantsAssumption`;
the count on display needs the finiteness), on all kinds of consoles:
`TypeCorrect`; `ScreenStaysInSync` (`ScreenInSync`), `RingsOnce` (`BellOnce`),
`LedgerStaysTrue` (`LedgerTruth`), and that the broker's decisions are final.
`Synced` is the heart of it: at every place of the loop it says which of
`displayed`, `notified` and `pendingCount` may still differ from the list, and
that a difference is paid for by a notification in the channel, by a goroutine
about to send one, or by a step the loop is about to make.  `Remembered` and
`Carried` (a command enters the list once; what rang and is pending is in
`notified`) give `BellOnce`; `Written` (which writes precede which) gives
`LedgerTruth`.

`AgentConnectionProofs`, for any set of connections, local or bridged, and any
bound on reports: `TypeCorrect`, `CancelIsRecognised` (`CancelRecognised`) and
`OutcomeIsTrue` (`OutcomeTruth`).  The ID is stored before the frame that tells
it is sent (`IDStoredFirst`), so a client that knows it implies that it is
stored.  A client takes the first ending that reaches it: the invariant follows
that frame through `Streams`, from the daemon through the bridge to the client,
and says that nothing on the way stands before it (`InOrder`, `DecisionKept`,
`BridgeHonest`).

`PolicyReviewProofs`, for any proposers, history, base branches and edits, any
numbers of preflights, runs and edits, and any classes of programs and operands:
`TypeCorrect`; `PublishedAsChecked` (`PublishedIsChecked`), `ProposalsOnlyWiden`
(`WidensOnly`), `RulesRestOnEvidence` (`EvidenceHolds`) and `ReportIsTrue`
(`ReportedHasRules`).  The invariant carries what a run has found out from the
step that found it to the push: the proposal is the base's policy with the rules
and passes its tests (`ProposalChecked`), preflights passed (`PreflightsPassed`),
nothing spoilt (`NothingSpoilt`), each rule rests on the history
(`CandidatesRest`).  Below it are lemmas about the operators:
`DecisionWidens`, for every command line and policy, that allow rules turn `ASK`
into `ALLOW` and nothing else, and `GroupIsEvidence`, that what `AnalyzeReport`
counts for a pattern the pattern matches.  Assumed of the constants: a threshold
of at least 2, a history that is a sequence of commands, base branches with the
parts of a policy (`UpstreamsAssumption`), numbers for the bounds, and that no
program has both a bounded family and an exact rule (`NamesAssumption`, which
`generalize` gives: its switch takes the family first, and none of the exact
commands starts like one).

`RedactionProofs` and `ExecOutputProofs`, for any texts, secrets, limits, sizes of
reads and of pieces: `FlushedForGood` (`SplitsAt`), `TypeCorrect`, `OutputLimited`
(`LimitHeld`), `RelayedAsStored` (`RelayFollowsStore`), `StoredRedacted`
(`StoredIsRedacted`) and `ResultComplete` (`ResultIsComplete`).  Assumed of the
constants: two streams, positive limits and sizes, texts and one or two secrets
that are sequences over `Bytes`, which holds the mark of a secret and not the
marker of a cut output (`OutputAssumption`, `TextAssumption`).

* What a redactor does to a text is a recursion over its positions.  `Recursion`
  writes such a recursion as tables - the rank of an argument, the next argument,
  what is made of the value there - and shows that there is one function they
  compute; its induction is over a set of numbers (a least element outside the
  set, `WFMin`), which needs no operator as a parameter.  `RedactionProofs` gets
  from it what `Redact` computes, that it splits at any place no occurrence
  straddles (`RedactConcat`), and that `FlushLen` stops at such a place whatever
  follows (`FlushedForGood`).  A secret that overlaps itself is where this
  fails, hence `Separable`.
* `StoredInv` is the invariant behind `StoredIsRedacted`: for everything the process
  may still write, what is made of the whole text is what the rows hold, then
  what the writer has yet to store, then what the redactors would make of what
  they hold and of the rest (`Through`).  A read moves bytes from the rest into
  the redactors, a piece from the writer into a row, and a close empties one
  redactor; after a cut or an error only the beginning stays.
* `RelayInv` says which one frame is owed while a writer stands between store and
  agent; `LimitInv` and `WriterInv` which rows, writers and redactors agree;
  `MarkInv` that a writer at rest has told of its cut.  At the end all redactors
  are closed, nothing is held and nothing owed: that is `ResultIsComplete`.

Every invariant was checked by TLC on the instance of its run before it was
proved.

Model-checked only: all liveness, which is out of the prover's reach
(`CancelledRequestEnds`, `CancelledCommandEnds`, `DecisionRecorded`; `JobsEnd`,
`DeadForwardsLeave`; `PendingIsShown`, `LedgerComplete`; `DepartureEnds`,
`ResultReaches`, `ShutdownEnds`).  Every other property of the passing runs is also
proved.  The bound `MaxRuns` is checked as a guard: `TypeOK` says of `runs` only
that they are numbers, since their sum is a fold.

## 6. Not modelled

Formatting, rendering, flags, installers and platform files; the recognisers of
single diagnostic commands in `internal/policy` (pure tables of flags,
unit-tested: a model would be a transliteration); the text of regular
expressions and the characters the shell tokenizer refuses, which are classes of
operands and one wrapper; the listing of Windmill sessions, the cache of
connections and the quoting of ssh command lines; squash merges and
force-pushes of the policy repository; port numbers and the text of the hosts file.  Agent
sessions' rows are written but never read by the daemon.  Processes a killed
daemon leaves behind are taken to die with it, as `storage.go` says of process
handles.  `CancelSessionCommand` has no caller outside the tests.

## 7. Plan

In this order:

1. `GateService`, `CommandLifecycle`, `GateServiceProofs` - done.
2. `Forwarding`, `ForwardingProofs` - done.
3. `OperatorConsole`, `OperatorConsoleProofs` - done.
4. `AgentConnection`, `AgentConnectionProofs` - done.
5. `Redaction`, `ExecOutput`, `Recursion`, `RedactionProofs`, `ExecOutputProofs` -
   done.
6. `PolicyEngine`, `PolicyReview`, `PolicyReviewProofs` - done.
7. Later, if wanted: the connection cache of the Windmill backend.
