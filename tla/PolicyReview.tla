----------------------------- MODULE PolicyReview -----------------------------
(* Policy review (internal/review): rules derived from the audit history    *)
(* are proposed to the policy repository as a branch and a pull request.    *)
(* Several investigations do this at once, every external command may fail, *)
(* with or without its effect, a proposer may die at any step and try       *)
(* again, and people merge, close and edit upstream meanwhile.              *)
EXTENDS PolicyEngine, Naturals, FiniteSets

CONSTANTS
    Proposers,     \* invocations of "gate policy-review propose"
    Log,           \* the audit history there will be: a sequence of entries
    Old,           \* the entries there are at the start
    Bounded,       \* programs with a bounded family: journalctl, systemctl ...
    Exact,         \* programs allowed exactly as they were approved
    Units,         \* operands that are harmless names
    Sensitive,     \* names the family matches and hasSecret refuses
    Typical,       \* the name in the documented cases of a family
    Example,       \* the name that replaces an observed one
    Nothing,       \* no operand
    Improper,      \* an operand outside the grammar: an option, a path
    Baseline,      \* the regression suite in the Gate binary
    Active,        \* the local policy
    Upstreams,     \* what people may put on the base branch
    ConfigMinimum, \* minimum_approvals of the configuration
    FlagMinimums,  \* --minimum-approvals, 0 when it is absent
    Preflights,    \* the number of checks a Gate source repository has to pass
    MaxRuns,       \* bound on the runs of all proposers
    MaxEdits       \* bound on the edits of the base branch

ASSUME ThresholdAssumption == ConfigMinimum \in Nat /\ ConfigMinimum >= 2
ASSUME LogAssumption ==
    /\ Log \in Seq({Log[i] : i \in DOMAIN Log})
    /\ \A i \in DOMAIN Log : Log[i].command \in Commands
    /\ Old \in 0 .. Len(Log)

(* A program with a family is never one of the exact commands: "podman ps"  *)
(* is another program than "podman logs".                                   *)
ASSUME NamesAssumption ==
    /\ Units \cup Sensitive \cup {Nothing, Improper} \subseteq Operands
    /\ {Typical, Example} \subseteq Units /\ Bounded \cup Exact \subseteq Programs
    /\ Bounded \cap Exact = {}

(* A policy and a base branch have these parts.                             *)
IsPolicy(policy) ==
    policy = [allow |-> policy.allow, deny |-> policy.deny,
              validated |-> policy.validated]

IsBase(base) ==
    /\ base = [policy |-> base.policy, tests |-> base.tests,
               source |-> base.source]
    /\ IsPolicy(base.policy)

ASSUME UpstreamsAssumption == \A u \in Upstreams : IsBase(u)
ASSUME BoundsAssumption ==
    Preflights \in Nat /\ MaxRuns \in Nat /\ MaxEdits \in Nat

VARIABLES
    known,         \* how much of the log has been written
    upstream,      \* the base branch: policy, tests, source (go.mod present)
    edits,         \* edits of the base branch so far
    merged,        \* the commits the base branch contains
    branches,      \* the branches of the remote: name -> commit
    open,          \* the branches with an open pull request
    at,            \* at[p]: where p stands in Propose
    runs,          \* runs[p]: how often p was started
    candidates,    \* candidates[p]: what AnalyzeReport found
    clone,         \* clone[p]: the base branch p works on
    proposal,      \* proposal[p]: what ApplyCandidates returned
    passed,        \* passed[p]: preflights passed
    spoilt         \* spoilt[p]: a preflight changed "bytes" or "files"

remoteVars == <<upstream, edits, merged, branches, open>>
workVars == <<candidates, clone, proposal, passed, spoilt>>
vars == <<known, remoteVars, at, runs, workVars>>

-----------------------------------------------------------------------------
(* Analysis.                                                                *)

Plain(program, operand) ==
    [wrapper |-> "none", program |-> program, operand |-> operand]

(* safeShape and hasSecret.                                                 *)
Harmless(c) == ~HasUnsafeComposition(c) /\ c.operand \notin Sensitive

(* The family's grammar: journalctl of a unit, systemctl status of one ...  *)
InFamily(c) == c.program \in Bounded /\ c.operand \in Units \cup Sensitive

(* exactReadOnly, and no program that hasSideEffects knows.                 *)
ExactlyRead(c) == c.program \in Exact /\ c.operand = Nothing

(* generalize: a plain command of a bounded family with a harmless name, or *)
(* one of the exact read-only commands.                                     *)
Generalizes(c) ==
    /\ c.wrapper = "none"
    /\ Harmless(c)
    /\ InFamily(c) \/ ExactlyRead(c)

PatternOf(c) ==
    [wrapper |-> "none", program |-> c.program,
     operands |-> IF c.program \in Bounded THEN Units \cup Sensitive
                  ELSE {c.operand}]

Sanitized(c) == IF c.program \in Bounded
                THEN Plain(c.program, Example) ELSE c

(* adversarialMutations, and the boundary cases of the family.              *)
Mutations(c) == {Wrapped(c, "nested"), Wrapped(c, "composed"),
                 Plain(c.program, Improper)}

(* The documented cases of the family, and the sanitized examples.          *)
Documented(candidate) ==
    LET program == candidate.pattern.program IN
    candidate.examples
      \cup {Plain(program, IF program \in Bounded THEN Typical ELSE Nothing)}

NegativeTests(candidate) == UNION {Mutations(c) : c \in Documented(candidate)}

(* Simple commands as they are, and behind one module and container.        *)
Inherited(commands) ==
    {IF c.wrapper = "none" THEN Wrapped(c, w) ELSE c :
        c \in commands, w \in {"none", "module1", "both"}}

(* positiveCases: the documented commands, and those of the regression      *)
(* suite the rule covers, by themselves or behind a module.                 *)
PositiveCases(candidate) ==
    Inherited(Documented(candidate))
      \cup {c \in {test.command : test \in Baseline} :
                c.wrapper # "container" /\ Matches(candidate.pattern, Last(Views[c]))}

(* Mutation: the outcome of an approved command does not matter.            *)
CountsAnyOutcome(entry) ==
    /\ entry.policy = "ASK"
    /\ entry.action \in {"approve_once", "allow_target"}

(* What AnalyzeReport counts: a command that succeeded after a person       *)
(* approved it, that is still asked about, and that generalizes.            *)
Counts(entry) ==
    /\ entry.succeeded
    /\ entry.policy = "ASK"
    /\ entry.action \in {"approve_once", "allow_target"}

Group(history, pattern) ==
    {i \in DOMAIN history :
        /\ Counts(history[i])
        /\ Decision(Active, history[i].command) = "ASK"
        /\ Generalizes(history[i].command)
        /\ PatternOf(history[i].command) = pattern}

(* A target attached anew has another ID and keeps its name; the spelling   *)
(* of a name does not matter.                                               *)
Context(entry) == entry.name.folded

Patterns(history) == {PatternOf(c) : c \in {d \in {history[i].command :
                                i \in DOMAIN history} : Generalizes(d)}}

Candidate(history, pattern) ==
    LET group == Group(history, pattern) IN
    [pattern   |-> pattern,
     examples  |-> {Sanitized(history[i].command) : i \in group},
     approvals |-> Cardinality(group),
     targets   |-> Cardinality({Context(history[i]) : i \in group})]

Evidenced(candidate, minimum) ==
    candidate.approvals >= minimum /\ candidate.targets >= 2

AnalyzeReport(history, minimum) ==
    {c \in {Candidate(history, pattern) : pattern \in Patterns(history)} :
        Evidenced(c, minimum)}

(* canonicalCandidate: every example by itself leads to the same pattern.   *)
Canonical(candidate) ==
    /\ candidate.examples # {}
    /\ \A c \in candidate.examples :
          Generalizes(c) /\ PatternOf(c) = candidate.pattern

(* validateEvidenceCandidate.                                               *)
Acceptable(candidate) ==
    Canonical(candidate) /\ Evidenced(candidate, ConfigMinimum)

-----------------------------------------------------------------------------
(* The proposal.                                                            *)

RulesOf(cands) == {c.pattern : c \in cands}

(* ApplyCandidates appends the rules that are not there yet ...             *)
WithRules(policy, cands) == [policy EXCEPT !.allow = @ \cup RulesOf(cands)]

(* ... and the cases of each to the tests, as the new policy decides them.  *)
WithTests(tests, policy, cands) ==
    tests \cup UNION {{[command |-> c, expect |-> Decision(policy, c)] :
                          c \in PositiveCases(cand) \cup NegativeTests(cand)} :
                       cand \in cands}

Corpus(tests, cands) ==
    {test.command : test \in tests \cup Baseline}
      \cup UNION {PositiveCases(cand) \cup Inherited(NegativeTests(cand)) :
                      cand \in cands}

(* validateDifferential: a rule matches its documented cases and no         *)
(* boundary case, and in the corpus only documented cases go from ASK to    *)
(* ALLOW.                                                                   *)
DifferentialHolds(before, after, tests, cands) ==
    /\ \A cand \in cands :
          /\ \A c \in Documented(cand) : Matches(cand.pattern, c)
          /\ \A c \in NegativeTests(cand) : ~Matches(cand.pattern, c)
    /\ \A c \in Corpus(tests, cands) :
          \/ Decision(before, c) = Decision(after, c)
          \/ /\ Decision(before, c) = "ASK" /\ Decision(after, c) = "ALLOW"
             /\ \E cand \in cands : c \in PositiveCases(cand)

Applicable(base, cands) ==
    LET after == WithRules(base.policy, cands) IN
    /\ ~(RulesOf(cands) \subseteq base.policy.allow)
    /\ Passes(base.tests, base.policy)
    /\ Passes(base.tests, after)
    /\ DifferentialHolds(base.policy, after, base.tests, cands)
    /\ \A cand \in cands :
          /\ \A c \in PositiveCases(cand) : Decision(after, c) = "ALLOW"
          /\ \A c \in NegativeTests(cand) : Decision(after, c) # "ALLOW"

(* Mutation: the name is made of the configured paths alone.                *)
BranchOfPaths(cands) == {}

(* The name of a branch is a digest of the configured paths and the rules.  *)
Branch(cands) == RulesOf(cands)

-----------------------------------------------------------------------------
(* The steps of Propose, one for each command of git, gh and make.          *)

NoClone == <<>>

Init ==
    /\ known = Old
    /\ upstream \in Upstreams
    /\ edits = 0
    /\ merged = {}
    /\ branches = <<>>
    /\ open = {}
    /\ at = [p \in Proposers |-> "idle"]
    /\ runs = [p \in Proposers |-> 0]
    /\ candidates = [p \in Proposers |-> {}]
    /\ clone = [p \in Proposers |-> NoClone]
    /\ proposal = [p \in Proposers |-> NoClone]
    /\ passed = [p \in Proposers |-> 0]
    /\ spoilt = [p \in Proposers |-> {}]

Goto(p, step) == at' = [at EXCEPT ![p] = step]

(* The workspace is removed at the end of every run.                        *)
Discard(p) ==
    /\ candidates' = [candidates EXCEPT ![p] = {}]
    /\ clone' = [clone EXCEPT ![p] = NoClone]
    /\ proposal' = [proposal EXCEPT ![p] = NoClone]
    /\ passed' = [passed EXCEPT ![p] = 0]
    /\ spoilt' = [spoilt EXCEPT ![p] = {}]

(* Mutation: the clone of a failed run is kept.                             *)
LeaveKeeping(p, how) == Goto(p, how) /\ UNCHANGED workVars

Leave(p, how) == Goto(p, how) /\ Discard(p)

(* The daemon writes the next row of the history.                           *)
Record ==
    /\ known < Len(Log)
    /\ known' = known + 1
    /\ UNCHANGED <<remoteVars, at, runs, workVars>>

Starts == SumFunction(runs)

(* The threshold of the analysis, which the command line may replace.       *)
Minimum(flag) == IF flag = 0 THEN ConfigMinimum ELSE flag

(* runPolicyReview reads the history; Propose refuses an empty proposal, or *)
(* one with a candidate below the configured threshold.                     *)
Analyze(p) ==
    /\ at[p] \in {"idle", "done", "failed"} /\ Starts < MaxRuns
    /\ runs' = [runs EXCEPT ![p] = @ + 1]
    /\ \E flag \in FlagMinimums :
          LET minimum == Minimum(flag)
              found == AnalyzeReport(SubSeq(Log, 1, known), minimum)
          IN /\ minimum >= 2
             /\ IF found # {} /\ \A c \in found : Acceptable(c)
                THEN /\ candidates' = [candidates EXCEPT ![p] = found]
                     /\ Goto(p, "clone")
                ELSE UNCHANGED candidates /\ Goto(p, "failed")
    /\ UNCHANGED <<known, remoteVars, clone, proposal, passed, spoilt>>

Clone(p) ==
    /\ at[p] = "clone"
    /\ clone' = [clone EXCEPT ![p] = [base |-> upstream, commits |-> merged]]
    /\ Goto(p, "list")
    /\ UNCHANGED <<known, remoteVars, runs, candidates, proposal, passed, spoilt>>

(* An open pull request for the branch is reported as the proposal.         *)
ListPulls(p) ==
    /\ at[p] = "list"
    /\ IF Branch(candidates[p]) \in open
       THEN Leave(p, "done")
       ELSE Goto(p, "apply") /\ UNCHANGED workVars
    /\ UNCHANGED <<known, remoteVars, runs>>

(* The branch is made in the clone and the two files are written.           *)
ApplyCandidates(p) ==
    /\ at[p] = "apply"
    /\ LET base == clone[p].base
           cands == candidates[p]
           policy == WithRules(base.policy, cands)
       IN /\ Applicable(base, cands)
          /\ proposal' = [proposal EXCEPT ![p] =
                             [policy |-> policy,
                              tests |-> WithTests(base.tests, policy, cands)]]
          /\ Goto(p, IF base.source THEN "check" ELSE "verify")
    /\ UNCHANGED <<known, remoteVars, runs, candidates, clone, passed, spoilt>>

(* A check of the branch passes, and may leave its traces in the checkout.  *)
Preflight(p) ==
    /\ at[p] = "check"
    /\ passed[p] < Preflights
    /\ passed' = [passed EXCEPT ![p] = @ + 1]
    /\ \E traces \in {{}, {"bytes"}, {"files"}} :
          spoilt' = [spoilt EXCEPT ![p] = @ \cup traces]
    /\ Goto(p, IF passed[p] + 1 = Preflights THEN "verify" ELSE "check")
    /\ UNCHANGED <<known, remoteVars, runs, candidates, clone, proposal>>

(* Mutation: only the names of the changed files are looked at.             *)
VerifyNames(p) ==
    /\ at[p] = "verify"
    /\ "files" \notin spoilt[p]
    /\ Goto(p, "push")
    /\ UNCHANGED <<known, remoteVars, runs, workVars>>

(* The two files hold what was validated, no other file has changed; they   *)
(* are added and committed.                                                 *)
Verify(p) ==
    /\ at[p] = "verify"
    /\ spoilt[p] = {}
    /\ Goto(p, "push")
    /\ UNCHANGED <<known, remoteVars, runs, workVars>>

(* A commit on top of the clone's base; its author's run tells it from the  *)
(* others.                                                                  *)
CommitOf(p) ==
    [base |-> clone[p].base, policy |-> proposal[p].policy,
     tests |-> proposal[p].tests, passed |-> passed[p],
     spoilt |-> spoilt[p], run |-> <<p, runs[p]>>]

SameContent(k, l) == [k EXCEPT !.run = l.run] = l

(* git push: a new branch, a fast forward, or a commit that is there        *)
(* already (made in the same second of the same files).                     *)
Accepts(p) ==
    LET b == Branch(candidates[p]) IN
    b \in DOMAIN branches =>
        \/ branches[b].run \in clone[p].commits
        \/ SameContent(branches[b], CommitOf(p))

(* The push may be done although the command fails.                         *)
Push(p) ==
    /\ at[p] = "push"
    /\ Accepts(p)
    /\ LET b == Branch(candidates[p]) IN
       branches' = IF b \in DOMAIN branches /\ SameContent(branches[b], CommitOf(p))
                   THEN branches
                   ELSE [c \in DOMAIN branches \cup {b} |->
                            IF c = b THEN CommitOf(p) ELSE branches[c]]
    /\ \/ Goto(p, "create") /\ UNCHANGED workVars
       \/ Leave(p, "failed")
    /\ UNCHANGED <<known, upstream, edits, merged, open, runs>>

(* gh pr create: one pull request for a branch that exists; its answer may  *)
(* be lost, or empty.                                                       *)
CreatePull(p) ==
    /\ at[p] = "create"
    /\ Branch(candidates[p]) \in DOMAIN branches \ open
    /\ open' = open \cup {Branch(candidates[p])}
    /\ Leave(p, "done") \/ Leave(p, "failed")
    /\ UNCHANGED <<known, upstream, edits, merged, branches, runs>>

(* Any command fails, a check finds fault, or the process is killed.        *)
Abort(p) ==
    /\ at[p] \notin {"idle", "done", "failed"}
    /\ Leave(p, "failed")
    /\ UNCHANGED <<known, remoteVars, runs>>

Propose(p) ==
    \/ Analyze(p) \/ Clone(p) \/ ListPulls(p) \/ ApplyCandidates(p)
    \/ Preflight(p) \/ Verify(p) \/ Push(p) \/ CreatePull(p) \/ Abort(p)

-----------------------------------------------------------------------------
(* People and the hosting service.                                          *)

Merge(b) ==
    /\ b \in open
    /\ LET k == branches[b] IN
       /\ upstream' = [upstream EXCEPT
                          !.policy.allow =
                             @ \cup (k.policy.allow \ k.base.policy.allow),
                          !.tests = @ \cup k.tests]
       /\ merged' = merged \cup {k.run}
    /\ open' = open \ {b}
    /\ UNCHANGED <<known, edits, branches, at, runs, workVars>>

ClosePull(b) ==
    /\ b \in open
    /\ open' = open \ {b}
    /\ UNCHANGED <<known, upstream, edits, merged, branches, at, runs,
                   workVars>>

DeleteBranch(b) ==
    /\ b \in DOMAIN branches \ open
    /\ branches' = [c \in DOMAIN branches \ {b} |-> branches[c]]
    /\ UNCHANGED <<known, upstream, edits, merged, open, at, runs,
                   workVars>>

Edit ==
    /\ edits < MaxEdits
    /\ edits' = edits + 1
    /\ \E u \in Upstreams : upstream' = [u EXCEPT !.source = upstream.source]
    /\ UNCHANGED <<known, merged, branches, open, at, runs, workVars>>

People ==
    \/ Edit
    \/ \E b \in DOMAIN branches : Merge(b) \/ ClosePull(b) \/ DeleteBranch(b)

Next == Record \/ People \/ \E p \in Proposers : Propose(p)

Spec == Init /\ [][Next]_vars

-----------------------------------------------------------------------------
(* Properties.                                                              *)

(* Every variable has a value of its kind; only a run under way holds a     *)
(* clone, and an open pull request has its branch.                          *)
TypeOK ==
    /\ known \in Old .. Len(Log)
    /\ IsBase(upstream)
    /\ edits \in 0 .. MaxEdits
    /\ open \subseteq DOMAIN branches
    /\ \A p \in Proposers :
          /\ at[p] \in {"idle", "clone", "list", "apply", "check", "verify",
                        "push", "create", "done", "failed"}
          /\ runs[p] \in Nat
          /\ passed[p] \in 0 .. Preflights
          /\ spoilt[p] \subseteq {"bytes", "files"}
          /\ at[p] \in {"list", "apply", "check", "verify", "push", "create"}
                <=> clone[p] # NoClone
          /\ at[p] \in {"check", "verify", "push", "create"}
                <=> proposal[p] # NoClone

(* The branches a step pushes.                                              *)
Pushed == {b \in DOMAIN branches' :
              b \in DOMAIN branches => branches'[b] # branches[b]}

(* What is pushed is, byte for byte, what the checks were run on: the       *)
(* base's policy with the branch's rules, and tests that it passes.         *)
PublishedIsChecked ==
    [][\A b \in Pushed :
          LET k == branches'[b] IN
          /\ k.spoilt = {}
          /\ k.base.source => k.passed = Preflights
          /\ k.policy = [k.base.policy EXCEPT !.allow = @ \cup b]
          /\ k.base.tests \subseteq k.tests /\ Passes(k.tests, k.policy)]_branches

(* The text of a proposal: "DENY and existing ALLOW classifications are     *)
(* preserved", for every command line and not only for those of the corpus. *)
WidensOnly ==
    [][\A b \in Pushed : \A c \in Commands :
          LET before == Decision(branches'[b].base.policy, c)
              after == Decision(branches'[b].policy, c)
          IN  before # after =>
                 /\ before = "ASK" /\ after = "ALLOW"
                 /\ MatchesAny(b, c) /\ Parses(c)]_branches

(* The commands of the history that speak for a rule: a person approved     *)
(* them, and they succeeded.                                                *)
Evidence(rule, length) ==
    {i \in 1 .. length : /\ Matches(rule, Log[i].command)
                         /\ Log[i].succeeded
                         /\ Log[i].action # "none"}

RestsOnEvidence(rule, length) ==
    LET evidence == Evidence(rule, length) IN
    /\ Cardinality(evidence) >= ConfigMinimum
    /\ Cardinality({Log[i].name.folded : i \in evidence}) >= 2

(* Every rule that is pushed rests on enough commands of the history that   *)
(* people approved and that succeeded, on two targets by name.              *)
EvidenceHolds ==
    [][\A b \in Pushed : \A rule \in b :
          RestsOnEvidence(rule, known)]_branches

(* A proposal reported to the operator, new or found, is an open pull       *)
(* request whose policy has every rule of this run's candidates.            *)
ReportedHasRules ==
    [][\A p \in Proposers :
          at[p] # "done" /\ at'[p] = "done" =>
             /\ Branch(candidates[p]) \in open'
             /\ RulesOf(candidates[p])
                  \subseteq branches'[Branch(candidates[p])].policy.allow]_vars
=============================================================================
