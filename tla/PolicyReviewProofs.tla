-------------------------- MODULE PolicyReviewProofs --------------------------
(* Proofs about the policy review.  What a proposer knows of its own run is *)
(* carried from step to step by an inductive invariant: which proposal the  *)
(* checkout holds, that the checks passed, that nothing spoilt it and that  *)
(* each rule rests on evidence.  The action properties follow for the one   *)
(* step that publishes, Push, and the two that report, ListPulls and        *)
(* CreatePull.                                                              *)
EXTENDS PolicyReview, FiniteSetTheorems, SequenceTheorems, TLAPS

(* The steps of a run that has a clone, and of one that has a proposal.     *)
Cloned == {"list", "apply", "check", "verify", "push", "create"}
Proposed == {"check", "verify", "push", "create"}

-----------------------------------------------------------------------------
(* The inductive invariant.                                                 *)

(* A clone is of a base branch with all its parts.                          *)
CloneIsBase ==
    \A p \in Proposers : at[p] \in Cloned => IsBase(clone[p].base)

(* What the files of the checkout are to hold: the base's policy with the   *)
(* rules, and the base's tests with more, all of which it passes.           *)
ProposalChecked ==
    \A p \in Proposers : at[p] \in Proposed =>
        LET base == clone[p].base IN
        /\ proposal[p].policy = WithRules(base.policy, candidates[p])
        /\ base.tests \subseteq proposal[p].tests
        /\ Passes(proposal[p].tests, proposal[p].policy)

(* Behind the checks all of them passed, if the base has a Gate source.     *)
PreflightsPassed ==
    \A p \in Proposers :
        at[p] \in {"verify", "push", "create"} /\ clone[p].base.source =>
            passed[p] = Preflights

(* Behind the verification nothing but the proposal is in the checkout.     *)
NothingSpoilt ==
    \A p \in Proposers : at[p] \in {"push", "create"} => spoilt[p] = {}

(* Each rule of a candidate rests on evidence that has been written.        *)
CandidatesRest ==
    \A p \in Proposers : \A rule \in RulesOf(candidates[p]) :
        RestsOnEvidence(rule, known)

(* The policy of a branch has all the rules the branch is named for.        *)
BranchesHaveRules ==
    \A b \in DOMAIN branches : b \subseteq branches[b].policy.allow

(* Each proposer has its part of the state.                                 *)
Shape ==
    /\ DOMAIN at = Proposers /\ DOMAIN runs = Proposers
    /\ DOMAIN candidates = Proposers /\ DOMAIN clone = Proposers
    /\ DOMAIN proposal = Proposers /\ DOMAIN passed = Proposers
    /\ DOMAIN spoilt = Proposers

IInv ==
    /\ TypeOK
    /\ Shape
    /\ CloneIsBase
    /\ ProposalChecked
    /\ PreflightsPassed
    /\ NothingSpoilt
    /\ CandidatesRest
    /\ BranchesHaveRules

-----------------------------------------------------------------------------
(* Lemmas about the data.                                                   *)

(* A record with parts is not the sequence of no elements.                  *)
LEMMA CloneIsThere ==
    ASSUME NEW base, NEW commits
    PROVE  [base |-> base, commits |-> commits] # NoClone
<1>1. "base" \in DOMAIN [base |-> base, commits |-> commits]
    OBVIOUS
<1>2. DOMAIN NoClone = {}
    BY DEF NoClone
<1> QED
    BY <1>1, <1>2

LEMMA ProposalIsThere ==
    ASSUME NEW policy, NEW tests
    PROVE  [policy |-> policy, tests |-> tests] # NoClone
<1>1. "policy" \in DOMAIN [policy |-> policy, tests |-> tests]
    OBVIOUS
<1>2. DOMAIN NoClone = {}
    BY DEF NoClone
<1> QED
    BY <1>1, <1>2

(* ApplyCandidates leaves the rules that deny and the validated ones alone. *)
LEMMA RulesAppended ==
    ASSUME NEW policy, IsPolicy(policy), NEW rules
    PROVE  LET after == [policy EXCEPT !.allow = @ \cup rules] IN
           /\ IsPolicy(after)
           /\ after.allow = policy.allow \cup rules
           /\ after.deny = policy.deny
           /\ after.validated = policy.validated
    BY DEF IsPolicy

(* With more rules a command line matches more: what it matches anew are    *)
(* the rules added.                                                         *)
LEMMA MatchesMore ==
    ASSUME NEW rules, NEW more, NEW c
    PROVE  MatchesAny(rules \cup more, c)
              <=> MatchesAny(rules, c) \/ MatchesAny(more, c)
    BY DEF MatchesAny

(* The decision about any command line stays, or goes from ASK to ALLOW     *)
(* by a rule that was added.                                                *)
LEMMA DecisionWidens ==
    ASSUME NEW policy, IsPolicy(policy), NEW rules, NEW c
    PROVE  LET before == Decision(policy, c)
               after == Decision([policy EXCEPT !.allow = @ \cup rules], c)
           IN  before # after =>
                  /\ before = "ASK" /\ after = "ALLOW"
                  /\ MatchesAny(rules, c) /\ Parses(c)
<1> DEFINE wider == [policy EXCEPT !.allow = @ \cup rules]
<1>1. /\ wider.allow = policy.allow \cup rules
      /\ wider.deny = policy.deny
      /\ wider.validated = policy.validated
    BY RulesAppended
<1> HIDE DEF wider
<1>2. Permits(wider, {}, c)
         <=> Permits(policy, {}, c) \/ MatchesAny(rules, c)
    BY <1>1, MatchesMore DEF Permits
<1>3. MatchesAny(wider.deny, c) = MatchesAny(policy.deny, c)
    BY <1>1
<1>4. Decision(policy, c) # Decision(wider, c) =>
         /\ Decision(policy, c) = "ASK" /\ Decision(wider, c) = "ALLOW"
         /\ MatchesAny(rules, c) /\ Parses(c)
    BY <1>2, <1>3 DEF Decision, Evaluate
<1> QED
    BY <1>4 DEF wider

(* The cases that ApplyCandidates adds are what the new policy decides.     *)
LEMMA NewTestsPass ==
    ASSUME NEW tests, NEW policy, NEW cands, Passes(tests, policy)
    PROVE  /\ tests \subseteq WithTests(tests, policy, cands)
           /\ Passes(WithTests(tests, policy, cands), policy)
    BY DEF Passes, WithTests

(* What the history says for a rule is finite, and grows with it.           *)
LEMMA EvidenceIsFinite ==
    ASSUME NEW rule, NEW n \in Nat
    PROVE  /\ IsFiniteSet(Evidence(rule, n))
           /\ IsFiniteSet({Log[i].name.folded : i \in Evidence(rule, n)})
<1> DEFINE S == Evidence(rule, n)
           T == {Log[i].name.folded : i \in S}
           f == [i \in S |-> Log[i].name.folded]
<1>1. IsFiniteSet(1 .. n)
    BY FS_Interval
<1>2. IsFiniteSet(S)
    <2>1. S \in SUBSET (1 .. n)
        BY DEF Evidence
    <2> QED
        BY <1>1, <2>1, FS_Subset
<1>3. f \in Surjection(S, T)
    BY DEF Surjection
<1>4. IsFiniteSet(T)
    <2> HIDE DEF S, T, f
    <2> QED
        BY <1>2, <1>3, FS_Surjection
<1> QED
    BY <1>2, <1>4

(* Enough evidence within the evidence is enough.                           *)
LEMMA MoreEvidence ==
    ASSUME NEW rule, NEW n \in Nat, NEW part \in SUBSET Evidence(rule, n),
           Cardinality(part) >= ConfigMinimum,
           Cardinality({Log[i].name.folded : i \in part}) >= 2
    PROVE  RestsOnEvidence(rule, n)
<1> DEFINE S == Evidence(rule, n)
           T == {Log[i].name.folded : i \in S}
           names == {Log[i].name.folded : i \in part}
<1>1. IsFiniteSet(S) /\ IsFiniteSet(T)
    BY EvidenceIsFinite
<1>2. names \in SUBSET T
    OBVIOUS
<1>3. /\ Cardinality(S) \in Nat /\ Cardinality(T) \in Nat
      /\ Cardinality(part) \in Nat /\ Cardinality(names) \in Nat
      /\ Cardinality(part) <= Cardinality(S)
      /\ Cardinality(names) <= Cardinality(T)
    <2>1. part \in SUBSET S
        OBVIOUS
    <2> HIDE DEF S, T, names
    <2>2. IsFiniteSet(part) /\ Cardinality(part) <= Cardinality(S)
        BY <1>1, <2>1, FS_Subset
    <2>3. IsFiniteSet(names) /\ Cardinality(names) <= Cardinality(T)
        BY <1>1, <1>2, FS_Subset
    <2> QED
        BY <1>1, <2>2, <2>3, FS_CardinalityType
<1>4. Cardinality(part) >= ConfigMinimum /\ Cardinality(names) >= 2
    OBVIOUS
<1>5. Cardinality(S) >= ConfigMinimum /\ Cardinality(T) >= 2
    <2> HIDE DEF S, T, names
    <2> QED
        BY <1>3, <1>4, ThresholdAssumption
<1> QED
    BY <1>5 DEF RestsOnEvidence

LEMMA EvidenceGrows ==
    ASSUME NEW rule, NEW m \in Nat, NEW n \in Nat, m <= n,
           RestsOnEvidence(rule, m)
    PROVE  RestsOnEvidence(rule, n)
<1>1. Evidence(rule, m) \in SUBSET Evidence(rule, n)
    BY DEF Evidence
<1> QED
    BY <1>1, MoreEvidence DEF RestsOnEvidence

(* The group of a pattern is evidence for it: every command of the group    *)
(* was approved by a person and succeeded, and the pattern matches it.      *)
LEMMA GroupIsEvidence ==
    ASSUME NEW n \in 0 .. Len(Log), NEW pattern
    PROVE  /\ Group(SubSeq(Log, 1, n), pattern) \subseteq Evidence(pattern, n)
           /\ \A i \in Group(SubSeq(Log, 1, n), pattern) :
                 SubSeq(Log, 1, n)[i] = Log[i]
<1> DEFINE history == SubSeq(Log, 1, n)
<1>1. Len(Log) \in Nat /\ n \in Nat /\ n <= Len(Log)
    BY LogAssumption
<1>2. DOMAIN history = 1 .. n /\ \A i \in 1 .. n : history[i] = Log[i]
    <2> DEFINE Entries == {Log[i] : i \in DOMAIN Log}
    <2>1. Log \in Seq(Entries)
        BY LogAssumption
    <2> HIDE DEF Entries
    <2>2. \A i \in 1 .. n : Log[i] \in Entries
        BY <1>1, <2>1
    <2>3. /\ history \in Seq(Entries)
          /\ Len(history) = IF 1 <= n THEN n - 1 + 1 ELSE 0
          /\ \A i \in 1 .. n - 1 + 1 : history[i] = Log[1 + i - 1]
        BY <1>1, <2>2, SubSeqProperties
    <2> HIDE DEF history
    <2> QED
        BY <1>1, <2>3
<1> HIDE DEF history
<1>3. \A c : Generalizes(c) => Matches(PatternOf(c), c)
    BY NamesAssumption
       DEF Generalizes, Matches, PatternOf, InFamily, ExactlyRead
<1>4. ASSUME NEW i \in Group(history, pattern)
      PROVE  i \in Evidence(pattern, n) /\ history[i] = Log[i]
    <2>1. i \in 1 .. n /\ history[i] = Log[i]
        BY <1>2, <1>4 DEF Group
    <2>2. Counts(Log[i])
        BY <1>4, <2>1 DEF Group
    <2>3. Matches(pattern, Log[i].command)
        BY <1>3, <1>4, <2>1 DEF Group
    <2> QED
        BY <2>1, <2>2, <2>3 DEF Evidence, Counts
<1> QED
    BY <1>4 DEF history

(* What AnalyzeReport counts for a candidate is in the history.             *)
LEMMA CandidateRests ==
    ASSUME NEW n \in 0 .. Len(Log), NEW minimum,
           NEW cand \in AnalyzeReport(SubSeq(Log, 1, n), minimum),
           Acceptable(cand)
    PROVE  RestsOnEvidence(cand.pattern, n)
<1> DEFINE history == SubSeq(Log, 1, n)
<1>1. PICK pattern : cand = Candidate(history, pattern)
    BY DEF AnalyzeReport
<1> DEFINE part == Group(history, pattern)
<1>2. /\ cand.pattern = pattern /\ cand.approvals = Cardinality(part)
      /\ cand.targets = Cardinality({Context(history[i]) : i \in part})
    BY <1>1 DEF Candidate
<1>3. part \in SUBSET Evidence(pattern, n)
    BY GroupIsEvidence
<1>4. {Context(history[i]) : i \in part}
         = {Log[i].name.folded : i \in part}
    BY GroupIsEvidence DEF Context
<1>5. /\ Cardinality(part) >= ConfigMinimum
      /\ Cardinality({Log[i].name.folded : i \in part}) >= 2
    BY <1>2, <1>4 DEF Acceptable, Evidenced
<1>6. n \in Nat
    BY LogAssumption
<1> HIDE DEF part
<1> QED
    BY <1>2, <1>3, <1>5, <1>6, MoreEvidence

-----------------------------------------------------------------------------
(* The steps.                                                               *)

(* What a step of one proposer leaves alone.                                *)
OthersUntouched(p) ==
    \A q \in Proposers \ {p} :
        /\ at'[q] = at[q] /\ runs'[q] = runs[q]
        /\ candidates'[q] = candidates[q] /\ clone'[q] = clone[q]
        /\ proposal'[q] = proposal[q] /\ passed'[q] = passed[q]
        /\ spoilt'[q] = spoilt[q]

(* What is left of a run that has ended.                                    *)
Ended(p) ==
    /\ at'[p] \in {"done", "failed"}
    /\ candidates'[p] = {} /\ clone'[p] = NoClone /\ proposal'[p] = NoClone
    /\ passed'[p] = 0 /\ spoilt'[p] = {}

LEMMA LeaveEnds ==
    ASSUME Shape, NEW p \in Proposers, NEW how \in {"done", "failed"},
           Leave(p, how), runs' = runs
    PROVE  Shape' /\ OthersUntouched(p) /\ Ended(p)
<1>1. Shape'
    BY DEF Shape, Leave, Goto, Discard
<1>2. OthersUntouched(p)
    BY DEF Shape, Leave, Goto, Discard, OthersUntouched
<1>3. Ended(p)
    BY DEF Shape, Leave, Goto, Discard, Ended
<1> QED
    BY <1>1, <1>2, <1>3

(* A step of a proposer is one of the nine, and leaves the others alone.    *)
LEMMA ProposeStep ==
    ASSUME Shape, NEW p \in Proposers, Propose(p)
    PROVE  Shape' /\ OthersUntouched(p)
<1>1. CASE Analyze(p)
    BY <1>1 DEF Analyze, Goto, Shape, OthersUntouched
<1>2. CASE Clone(p)
    BY <1>2 DEF Clone, Goto, Shape, OthersUntouched
<1>3. CASE ListPulls(p)
    <2>1. CASE Leave(p, "done")
        BY <1>3, <2>1, LeaveEnds DEF ListPulls
    <2>2. CASE Goto(p, "apply") /\ UNCHANGED workVars
        BY <1>3, <2>2 DEF ListPulls, Goto, workVars, Shape, OthersUntouched
    <2> QED
        BY <1>3, <2>1, <2>2 DEF ListPulls
<1>4. CASE ApplyCandidates(p)
    BY <1>4 DEF ApplyCandidates, Goto, Shape, OthersUntouched
<1>5. CASE Preflight(p)
    BY <1>5 DEF Preflight, Goto, Shape, OthersUntouched
<1>6. CASE Verify(p)
    BY <1>6 DEF Verify, Goto, workVars, Shape, OthersUntouched
<1>7. CASE Push(p)
    <2>1. CASE Leave(p, "failed")
        BY <1>7, <2>1, LeaveEnds DEF Push
    <2>2. CASE Goto(p, "create") /\ UNCHANGED workVars
        BY <1>7, <2>2 DEF Push, Goto, workVars, Shape, OthersUntouched
    <2> QED
        BY <1>7, <2>1, <2>2 DEF Push
<1>8. CASE CreatePull(p)
    BY <1>8, LeaveEnds DEF CreatePull
<1>9. CASE Abort(p)
    BY <1>9, LeaveEnds DEF Abort
<1> QED
    BY <1>1, <1>2, <1>3, <1>4, <1>5, <1>6, <1>7, <1>8, <1>9 DEF Propose

(* A step of the daemon or of people leaves every run alone.                *)
LEMMA OutsideStep ==
    ASSUME Record \/ People \/ UNCHANGED vars
    PROVE  UNCHANGED <<at, runs, candidates, clone, proposal, passed, spoilt>>
    BY DEF Record, People, Edit, Merge, ClosePull, DeleteBranch, vars,
           remoteVars, workVars

LEMMA ShapeKept ==
    ASSUME Shape, [Next]_vars
    PROVE  Shape'
<1>1. CASE Record \/ People \/ UNCHANGED vars
    <2>1. UNCHANGED <<at, runs, candidates, clone, proposal, passed, spoilt>>
        BY <1>1, OutsideStep
    <2> QED
        BY <2>1 DEF Shape
<1>2. ASSUME NEW p \in Proposers, Propose(p)
      PROVE  Shape'
    BY <1>2, ProposeStep
<1> QED
    BY <1>1, <1>2 DEF Next

-----------------------------------------------------------------------------
(* What a run knows of itself: one conjunct of the invariant, for one       *)
(* proposer.                                                                *)

(* The part of the type invariant that is about one proposer.               *)
RunTyped(p) ==
    /\ at[p] \in {"idle", "clone", "list", "apply", "check", "verify",
                  "push", "create", "done", "failed"}
    /\ runs[p] \in Nat
    /\ passed[p] \in 0 .. Preflights
    /\ spoilt[p] \subseteq {"bytes", "files"}
    /\ at[p] \in Cloned <=> clone[p] # NoClone
    /\ at[p] \in Proposed <=> proposal[p] # NoClone

RunChecked(p) ==
    at[p] \in Proposed =>
        LET base == clone[p].base IN
        /\ proposal[p].policy = WithRules(base.policy, candidates[p])
        /\ base.tests \subseteq proposal[p].tests
        /\ Passes(proposal[p].tests, proposal[p].policy)

RunPassed(p) ==
    at[p] \in {"verify", "push", "create"} /\ clone[p].base.source =>
        passed[p] = Preflights

RunClean(p) == at[p] \in {"push", "create"} => spoilt[p] = {}

RunRests(p) == \A rule \in RulesOf(candidates[p]) : RestsOnEvidence(rule, known)

RunKnows(p) ==
    /\ RunTyped(p)
    /\ at[p] \in Cloned => IsBase(clone[p].base)
    /\ RunChecked(p)
    /\ RunPassed(p)
    /\ RunClean(p)
    /\ RunRests(p)

(* A run that has ended knows nothing.                                      *)
LEMMA EndedKnows ==
    ASSUME NEW p \in Proposers, RunKnows(p), Ended(p), runs' = runs
    PROVE  RunKnows(p)'
<1>1. Preflights \in Nat
    BY BoundsAssumption
<1>2. RunTyped(p)'
    BY <1>1 DEF Ended, RunTyped, RunKnows, Cloned, Proposed
<1>3. RunChecked(p)' /\ RunPassed(p)' /\ RunClean(p)'
    BY DEF Ended, RunChecked, RunPassed, RunClean, Proposed
<1>4. RunRests(p)'
    BY DEF Ended, RunRests, RulesOf
<1>5. at'[p] \notin Cloned
    BY DEF Ended, Cloned
<1> QED
    BY <1>2, <1>3, <1>4, <1>5 DEF RunKnows

(* The invariant is what is known of the remote and of every run.           *)
RemoteTyped ==
    /\ known \in Old .. Len(Log)
    /\ IsBase(upstream)
    /\ edits \in 0 .. MaxEdits
    /\ open \subseteq DOMAIN branches

LEMMA InvParts ==
    /\ IInv <=> /\ RemoteTyped /\ Shape /\ BranchesHaveRules
                /\ \A p \in Proposers : RunKnows(p)
    /\ IInv' <=> /\ RemoteTyped' /\ Shape' /\ BranchesHaveRules'
                 /\ \A p \in Proposers : RunKnows(p)'
<1>1. TypeOK <=> RemoteTyped /\ \A p \in Proposers : RunTyped(p)
    BY DEF TypeOK, RemoteTyped, RunTyped, Cloned, Proposed
<1>2. TypeOK' <=> RemoteTyped' /\ \A p \in Proposers : RunTyped(p)'
    BY DEF TypeOK, RemoteTyped, RunTyped, Cloned, Proposed
<1>3. /\ ProposalChecked <=> \A p \in Proposers : RunChecked(p)
      /\ PreflightsPassed <=> \A p \in Proposers : RunPassed(p)
      /\ NothingSpoilt <=> \A p \in Proposers : RunClean(p)
      /\ CandidatesRest <=> \A p \in Proposers : RunRests(p)
    BY DEF ProposalChecked, PreflightsPassed, NothingSpoilt, CandidatesRest,
           RunChecked, RunPassed, RunClean, RunRests
<1>4. /\ ProposalChecked' <=> \A p \in Proposers : RunChecked(p)'
      /\ PreflightsPassed' <=> \A p \in Proposers : RunPassed(p)'
      /\ NothingSpoilt' <=> \A p \in Proposers : RunClean(p)'
      /\ CandidatesRest' <=> \A p \in Proposers : RunRests(p)'
    BY DEF ProposalChecked, PreflightsPassed, NothingSpoilt, CandidatesRest,
           RunChecked, RunPassed, RunClean, RunRests
<1> QED
    BY <1>1, <1>2, <1>3, <1>4 DEF IInv, RunKnows, CloneIsBase

(* Analyze finds candidates that rest on the history it read.               *)
LEMMA AnalyzeKnows ==
    ASSUME Shape, RemoteTyped, NEW p \in Proposers, RunKnows(p), Analyze(p)
    PROVE  RunKnows(p)'
<1>1. known \in 0 .. Len(Log) /\ known' = known
    BY LogAssumption DEF RemoteTyped, Analyze
<1>2. /\ at[p] \in {"idle", "done", "failed"}
      /\ at'[p] \in {"clone", "failed"} /\ runs'[p] = runs[p] + 1
      /\ clone'[p] = clone[p] /\ proposal'[p] = proposal[p]
      /\ passed'[p] = passed[p] /\ spoilt'[p] = spoilt[p]
    BY DEF Analyze, Goto, Shape
<1>3. RunTyped(p)'
    BY <1>2 DEF RunKnows, RunTyped, Cloned, Proposed
<1>4. RunChecked(p)' /\ RunPassed(p)' /\ RunClean(p)'
    BY <1>2 DEF RunChecked, RunPassed, RunClean, Proposed
<1>5. RunRests(p)'
    <2>1. PICK flag \in FlagMinimums :
             LET found == AnalyzeReport(SubSeq(Log, 1, known), Minimum(flag)) IN
             \/ /\ \A c \in found : Acceptable(c)
                /\ candidates' = [candidates EXCEPT ![p] = found]
             \/ candidates' = candidates
        BY DEF Analyze
    <2> DEFINE found == AnalyzeReport(SubSeq(Log, 1, known), Minimum(flag))
    <2>2. CASE candidates' = candidates
        BY <1>1, <2>2 DEF RunKnows, RunRests
    <2>3. CASE /\ \A c \in found : Acceptable(c)
               /\ candidates' = [candidates EXCEPT ![p] = found]
        <3>1. candidates'[p] = found
            BY <2>3 DEF Shape
        <3>2. \A c \in found : RestsOnEvidence(c.pattern, known)
            BY <1>1, <2>3, CandidateRests
        <3> HIDE DEF found
        <3> QED
            BY <1>1, <3>1, <3>2 DEF RunRests, RulesOf
    <2> QED
        BY <2>1, <2>2, <2>3
<1>6. at'[p] \notin Cloned
    BY <1>2 DEF Cloned
<1> QED
    BY <1>3, <1>4, <1>5, <1>6 DEF RunKnows

LEMMA CloneKnows ==
    ASSUME Shape, RemoteTyped, NEW p \in Proposers, RunKnows(p), Clone(p)
    PROVE  RunKnows(p)'
<1>1. /\ at[p] = "clone" /\ at'[p] = "list" /\ runs'[p] = runs[p]
      /\ clone'[p] = [base |-> upstream, commits |-> merged]
      /\ proposal'[p] = proposal[p] /\ candidates'[p] = candidates[p]
      /\ passed'[p] = passed[p] /\ spoilt'[p] = spoilt[p]
      /\ known' = known
    BY DEF Clone, Goto, Shape
<1>2. clone'[p] # NoClone /\ clone'[p].base = upstream
    BY <1>1, CloneIsThere
<1>3. RunTyped(p)'
    BY <1>1, <1>2 DEF RunKnows, RunTyped, Cloned, Proposed
<1>4. RunChecked(p)' /\ RunPassed(p)' /\ RunClean(p)' /\ RunRests(p)'
    BY <1>1 DEF RunChecked, RunPassed, RunClean, Proposed, RunKnows, RunRests
<1>5. IsBase(clone'[p].base)
    BY <1>2 DEF RemoteTyped
<1> QED
    BY <1>3, <1>4, <1>5 DEF RunKnows

LEMMA ListPullsKnows ==
    ASSUME Shape, NEW p \in Proposers, RunKnows(p), ListPulls(p)
    PROVE  RunKnows(p)'
<1>1. CASE Leave(p, "done")
    BY <1>1, LeaveEnds, EndedKnows DEF ListPulls
<1>2. CASE Goto(p, "apply") /\ UNCHANGED workVars
    <2>1. /\ at[p] = "list" /\ at'[p] = "apply" /\ runs'[p] = runs[p]
          /\ UNCHANGED <<candidates, clone, proposal, passed, spoilt, known>>
        BY <1>2 DEF ListPulls, Goto, Shape, workVars
    <2> QED
        BY <2>1 DEF RunKnows, RunTyped, RunChecked, RunPassed, RunClean,
                    RunRests, Cloned, Proposed
<1> QED
    BY <1>1, <1>2 DEF ListPulls

(* The proposal is made of a base that passes its tests with the new rules. *)
LEMMA ApplyKnows ==
    ASSUME Shape, NEW p \in Proposers, RunKnows(p), ApplyCandidates(p)
    PROVE  RunKnows(p)'
<1> DEFINE base == clone[p].base
           policy == WithRules(base.policy, candidates[p])
           tests == WithTests(base.tests, policy, candidates[p])
<1>1. /\ at[p] = "apply" /\ runs'[p] = runs[p] /\ known' = known
      /\ at'[p] = IF base.source THEN "check" ELSE "verify"
      /\ clone'[p] = clone[p] /\ candidates'[p] = candidates[p]
      /\ proposal'[p] = [policy |-> policy, tests |-> tests]
      /\ passed'[p] = passed[p] /\ spoilt'[p] = spoilt[p]
      /\ Applicable(base, candidates[p])
    BY DEF ApplyCandidates, Goto, Shape
<1>2. Passes(base.tests, policy)
    BY <1>1 DEF Applicable
<1>3. base.tests \subseteq tests /\ Passes(tests, policy)
    BY <1>2, NewTestsPass
<1> HIDE DEF policy, tests
<1>4. /\ proposal'[p] # NoClone /\ proposal'[p].policy = policy
      /\ proposal'[p].tests = tests
    BY <1>1, ProposalIsThere
<1>5. RunTyped(p)'
    BY <1>1, <1>4 DEF RunKnows, RunTyped, Cloned, Proposed
<1>6. RunChecked(p)'
    BY <1>1, <1>3, <1>4 DEF RunChecked, policy
<1>7. RunPassed(p)' /\ RunClean(p)' /\ RunRests(p)'
    BY <1>1 DEF RunKnows, RunPassed, RunClean, RunRests
<1>8. IsBase(clone'[p].base)
    BY <1>1 DEF RunKnows, Cloned
<1> QED
    BY <1>5, <1>6, <1>7, <1>8 DEF RunKnows

LEMMA PreflightKnows ==
    ASSUME Shape, NEW p \in Proposers, RunKnows(p), Preflight(p)
    PROVE  RunKnows(p)'
<1>1. /\ at[p] = "check" /\ runs'[p] = runs[p] /\ known' = known
      /\ passed[p] < Preflights /\ passed'[p] = passed[p] + 1
      /\ at'[p] = IF passed[p] + 1 = Preflights THEN "verify" ELSE "check"
      /\ clone'[p] = clone[p] /\ candidates'[p] = candidates[p]
      /\ proposal'[p] = proposal[p]
      /\ spoilt'[p] \subseteq spoilt[p] \cup {"bytes", "files"}
    BY DEF Preflight, Goto, Shape
<1>2. Preflights \in Nat
    BY BoundsAssumption
<1>3. RunTyped(p)'
    BY <1>1, <1>2 DEF RunKnows, RunTyped, Cloned, Proposed
<1>4. RunPassed(p)' /\ RunClean(p)'
    BY <1>1 DEF RunPassed, RunClean
<1>5. RunChecked(p)' /\ RunRests(p)' /\ IsBase(clone'[p].base)
    BY <1>1 DEF RunKnows, RunChecked, RunRests, Cloned, Proposed
<1> QED
    BY <1>3, <1>4, <1>5 DEF RunKnows

LEMMA VerifyKnows ==
    ASSUME Shape, NEW p \in Proposers, RunKnows(p), Verify(p)
    PROVE  RunKnows(p)'
<1>1. /\ at[p] = "verify" /\ at'[p] = "push" /\ spoilt[p] = {}
      /\ UNCHANGED <<known, runs, candidates, clone, proposal, passed, spoilt>>
    BY DEF Verify, Goto, Shape, workVars
<1> QED
    BY <1>1 DEF RunKnows, RunTyped, RunChecked, RunPassed, RunClean,
                RunRests, Cloned, Proposed

LEMMA PushKnows ==
    ASSUME Shape, NEW p \in Proposers, RunKnows(p), Push(p)
    PROVE  RunKnows(p)'
<1>1. CASE Leave(p, "failed")
    BY <1>1, LeaveEnds, EndedKnows DEF Push
<1>2. CASE Goto(p, "create") /\ UNCHANGED workVars
    <2>1. /\ at[p] = "push" /\ at'[p] = "create" /\ runs' = runs
          /\ UNCHANGED <<candidates, clone, proposal, passed, spoilt, known>>
        BY <1>2 DEF Push, Goto, Shape, workVars
    <2> QED
        BY <2>1 DEF RunKnows, RunTyped, RunChecked, RunPassed, RunClean,
                    RunRests, Cloned, Proposed
<1> QED
    BY <1>1, <1>2 DEF Push

(* Every step of a proposer keeps what it knows.                            *)
LEMMA ProposerKnows ==
    ASSUME Shape, RemoteTyped, NEW p \in Proposers, RunKnows(p), Propose(p)
    PROVE  RunKnows(p)'
<1>1. CASE CreatePull(p)
    BY <1>1, LeaveEnds, EndedKnows DEF CreatePull
<1>2. CASE Abort(p)
    BY <1>2, LeaveEnds, EndedKnows DEF Abort
<1> QED
    BY <1>1, <1>2, AnalyzeKnows, CloneKnows, ListPullsKnows, ApplyKnows,
       PreflightKnows, VerifyKnows, PushKnows DEF Propose

(* What a run knows stays true while it stands still: the history grows.    *)
LEMMA StandingKnows ==
    ASSUME NEW q \in Proposers, RunKnows(q), RemoteTyped,
           known' \in Nat, known <= known',
           at'[q] = at[q], runs'[q] = runs[q],
           candidates'[q] = candidates[q], clone'[q] = clone[q],
           proposal'[q] = proposal[q], passed'[q] = passed[q],
           spoilt'[q] = spoilt[q]
    PROVE  RunKnows(q)'
<1>1. known \in Nat
    BY LogAssumption DEF RemoteTyped
<1>2. RunRests(q)'
    BY <1>1, EvidenceGrows DEF RunKnows, RunRests
<1>3. RunTyped(q)' /\ RunChecked(q)' /\ RunPassed(q)' /\ RunClean(q)'
    BY DEF RunKnows, RunTyped, RunChecked, RunPassed, RunClean
<1> QED
    BY <1>2, <1>3 DEF RunKnows

-----------------------------------------------------------------------------
(* The remote.                                                              *)

(* A push puts the commit of the run on its branch, or leaves it there.     *)
LEMMA PushEffect ==
    ASSUME NEW p \in Proposers, Push(p)
    PROVE  LET b == Branch(candidates[p]) IN
           /\ DOMAIN branches' = DOMAIN branches \cup {b}
           /\ \A c \in DOMAIN branches \ {b} : branches'[c] = branches[c]
           /\ \/ b \in DOMAIN branches /\ branches'[b] = branches[b]
              \/ branches'[b] = CommitOf(p)
<1> DEFINE b == Branch(candidates[p])
           pushed == [c \in DOMAIN branches \cup {b} |->
                         IF c = b THEN CommitOf(p) ELSE branches[c]]
<1>1. \/ b \in DOMAIN branches /\ branches' = branches
      \/ branches' = pushed
    BY DEF Push
<1>2. b \in DOMAIN branches => DOMAIN branches \cup {b} = DOMAIN branches
    OBVIOUS
<1> HIDE DEF b
<1>3. /\ DOMAIN branches' = DOMAIN branches \cup {b}
      /\ \A c \in DOMAIN branches \ {b} : branches'[c] = branches[c]
      /\ \/ b \in DOMAIN branches /\ branches'[b] = branches[b]
         \/ branches'[b] = CommitOf(p)
    BY <1>1, <1>2
<1> QED
    BY <1>3 DEF b

(* No other step puts anything on a branch, or adds one.                    *)
LEMMA OnlyPushPublishes ==
    ASSUME [Next]_vars, ~\E p \in Proposers : Push(p)
    PROVE  /\ DOMAIN branches' \subseteq DOMAIN branches
           /\ \A b \in DOMAIN branches' : branches'[b] = branches[b]
<1>1. CASE branches' = branches
    BY <1>1
<1>2. ASSUME NEW b \in DOMAIN branches, DeleteBranch(b)
      PROVE  /\ DOMAIN branches' \subseteq DOMAIN branches
             /\ \A c \in DOMAIN branches' : branches'[c] = branches[c]
    BY <1>2 DEF DeleteBranch
<1>3. \/ branches' = branches
      \/ \E b \in DOMAIN branches : DeleteBranch(b)
    <2>1. CASE Record \/ Edit \/ UNCHANGED vars
        BY <2>1 DEF Record, Edit, vars, remoteVars
    <2>2. ASSUME NEW b, Merge(b) \/ ClosePull(b)
          PROVE  branches' = branches
        BY <2>2 DEF Merge, ClosePull
    <2>3. ASSUME NEW p \in Proposers, Propose(p)
          PROVE  branches' = branches
        BY <2>3 DEF Propose, Analyze, Clone, ListPulls, ApplyCandidates,
                    Preflight, Verify, CreatePull, Abort, remoteVars
    <2> QED
        BY <2>1, <2>2, <2>3 DEF Next, People
<1> QED
    BY <1>1, <1>2, <1>3

(* What is pushed is the commit of a run that stands before its push.       *)
LEMMA PushedIsCommit ==
    ASSUME [Next]_vars, NEW b \in Pushed
    PROVE  \E p \in Proposers :
              /\ Push(p) /\ at[p] = "push"
              /\ b = Branch(candidates[p]) /\ branches'[b] = CommitOf(p)
<1>1. PICK p \in Proposers : Push(p)
    BY OnlyPushPublishes DEF Pushed
<1>2. b = Branch(candidates[p]) /\ branches'[b] = CommitOf(p)
    BY <1>1, PushEffect DEF Pushed
<1>3. at[p] = "push"
    BY <1>1 DEF Push
<1> QED
    BY <1>1, <1>2, <1>3

(* A base stays a base when a branch is merged or a person edits it.        *)
LEMMA MergedIsBase ==
    ASSUME NEW base, IsBase(base), NEW allow, NEW tests
    PROVE  IsBase([base EXCEPT !.policy.allow = allow, !.tests = tests])
<1> DEFINE policy == [base.policy EXCEPT !.allow = allow]
<1>1. IsPolicy(policy)
    BY DEF IsBase, IsPolicy
<1>2. base = [policy |-> base.policy, tests |-> base.tests,
              source |-> base.source]
    BY DEF IsBase
<1>3. [base EXCEPT !.policy.allow = allow]
         = [base EXCEPT !.policy = policy]
    OBVIOUS
<1>4. [base EXCEPT !.policy.allow = allow, !.tests = tests]
         = [[base EXCEPT !.policy = policy] EXCEPT !.tests = tests]
    BY <1>3
<1> HIDE DEF policy
<1>5. [[base EXCEPT !.policy = policy] EXCEPT !.tests = tests]
         = [policy |-> policy, tests |-> tests, source |-> base.source]
    <2>1. ASSUME NEW P, NEW T, NEW S, base = [policy |-> P, tests |-> T,
                                              source |-> S]
          PROVE  /\ [base EXCEPT !.policy = policy]
                      = [policy |-> policy, tests |-> T, source |-> S]
                 /\ [[policy |-> policy, tests |-> T, source |-> S]
                        EXCEPT !.tests = tests]
                      = [policy |-> policy, tests |-> tests, source |-> S]
        BY <2>1
    <2> QED
        BY <1>2, <2>1
<1>6. IsBase([policy |-> policy, tests |-> tests, source |-> base.source])
    BY <1>1 DEF IsBase
<1> QED
    BY <1>4, <1>5, <1>6

LEMMA EditedIsBase ==
    ASSUME NEW base, IsBase(base), NEW source
    PROVE  IsBase([base EXCEPT !.source = source])
    BY DEF IsBase, IsPolicy

LEMMA RemoteTypedKept ==
    ASSUME RemoteTyped, [Next]_vars
    PROVE  RemoteTyped' /\ known <= known'
<1>1. /\ known \in Nat /\ Old \in Nat /\ Len(Log) \in Nat
      /\ MaxEdits \in Nat
    BY LogAssumption, BoundsAssumption DEF RemoteTyped
<1>2. CASE Record
    BY <1>1, <1>2 DEF Record, remoteVars, RemoteTyped
<1>3. CASE Edit
    <2>1. PICK u \in Upstreams :
             upstream' = [u EXCEPT !.source = upstream.source]
        BY <1>3 DEF Edit
    <2>2. IsBase(upstream')
        BY <2>1, UpstreamsAssumption, EditedIsBase
    <2> QED
        BY <1>1, <1>3, <2>2 DEF Edit, RemoteTyped
<1>4. ASSUME NEW b \in DOMAIN branches, Merge(b)
      PROVE  RemoteTyped' /\ known <= known'
    <2>1. PICK k : upstream' = [upstream EXCEPT
                                  !.policy.allow =
                                     @ \cup (k.policy.allow \ k.base.policy.allow),
                                  !.tests = @ \cup k.tests]
        BY <1>4 DEF Merge
    <2>2. IsBase(upstream')
        BY <2>1, MergedIsBase DEF RemoteTyped
    <2> QED
        BY <1>1, <1>4, <2>2 DEF Merge, RemoteTyped
<1>5. ASSUME NEW b \in DOMAIN branches, ClosePull(b) \/ DeleteBranch(b)
      PROVE  RemoteTyped' /\ known <= known'
    BY <1>1, <1>5 DEF ClosePull, DeleteBranch, RemoteTyped
<1>6. ASSUME NEW p \in Proposers, Push(p)
      PROVE  RemoteTyped' /\ known <= known'
    <2>1. DOMAIN branches \subseteq DOMAIN branches'
        BY <1>6, PushEffect
    <2> QED
        BY <1>1, <1>6, <2>1 DEF Push, RemoteTyped
<1>7. ASSUME NEW p \in Proposers, CreatePull(p)
      PROVE  RemoteTyped' /\ known <= known'
    BY <1>1, <1>7 DEF CreatePull, RemoteTyped
<1>8. CASE UNCHANGED <<known, remoteVars>>
    BY <1>1, <1>8 DEF remoteVars, RemoteTyped
<1>9. ASSUME NEW p \in Proposers, Propose(p), ~Push(p), ~CreatePull(p)
      PROVE  UNCHANGED <<known, remoteVars>>
    BY <1>9 DEF Propose, Analyze, Clone, ListPulls, ApplyCandidates,
                Preflight, Verify, Abort
<1>10. UNCHANGED vars => UNCHANGED <<known, remoteVars>>
    BY DEF vars
<1> QED
    BY <1>2, <1>3, <1>4, <1>5, <1>6, <1>7, <1>8, <1>9, <1>10
       DEF Next, People

(* The commit of a run has the rules of its branch, and more.               *)
LEMMA CommitHasRules ==
    ASSUME IInv, NEW p \in Proposers, at[p] \in {"push", "create"}
    PROVE  LET k == CommitOf(p) IN
           /\ k.spoilt = {}
           /\ k.base.source => k.passed = Preflights
           /\ IsPolicy(k.base.policy)
           /\ k.policy = [k.base.policy EXCEPT !.allow = @ \cup
                             Branch(candidates[p])]
           /\ Branch(candidates[p]) \subseteq k.policy.allow
           /\ k.base.tests \subseteq k.tests /\ Passes(k.tests, k.policy)
<1> DEFINE k == CommitOf(p)
<1>1. RunKnows(p)
    BY InvParts
<1>2. /\ k.base = clone[p].base /\ k.policy = proposal[p].policy
      /\ k.tests = proposal[p].tests /\ k.passed = passed[p]
      /\ k.spoilt = spoilt[p]
    BY DEF CommitOf
<1> HIDE DEF k
<1>3. k.spoilt = {} /\ (k.base.source => k.passed = Preflights)
    BY <1>1, <1>2 DEF RunKnows, RunClean, RunPassed
<1>4. /\ k.policy = WithRules(k.base.policy, candidates[p])
      /\ k.base.tests \subseteq k.tests /\ Passes(k.tests, k.policy)
    BY <1>1, <1>2 DEF RunKnows, RunChecked, Proposed
<1>5. IsPolicy(k.base.policy)
    BY <1>1, <1>2 DEF RunKnows, Cloned, IsBase
<1>6. Branch(candidates[p]) \subseteq k.policy.allow
    BY <1>4, <1>5, RulesAppended DEF WithRules, Branch
<1> QED
    BY <1>3, <1>4, <1>5, <1>6 DEF k, WithRules, Branch

LEMMA BranchesHaveRulesKept ==
    ASSUME IInv, [Next]_vars
    PROVE  BranchesHaveRules'
<1>1. ASSUME NEW p \in Proposers, Push(p)
      PROVE  BranchesHaveRules'
    <2> DEFINE b == Branch(candidates[p])
    <2>1. at[p] = "push"
        BY <1>1 DEF Push
    <2>2. b \subseteq CommitOf(p).policy.allow
        BY <2>1, CommitHasRules
    <2>3. BranchesHaveRules
        BY DEF IInv
    <2> HIDE DEF b
    <2>4. /\ DOMAIN branches' = DOMAIN branches \cup {b}
          /\ \A c \in DOMAIN branches \ {b} : branches'[c] = branches[c]
          /\ \/ b \in DOMAIN branches /\ branches'[b] = branches[b]
             \/ branches'[b] = CommitOf(p)
        BY <1>1, PushEffect DEF b
    <2> QED
        BY <2>2, <2>3, <2>4 DEF BranchesHaveRules
<1>2. CASE ~\E p \in Proposers : Push(p)
    BY <1>2, OnlyPushPublishes DEF IInv, BranchesHaveRules
<1> QED
    BY <1>1, <1>2

-----------------------------------------------------------------------------
(* The theorems.                                                            *)

LEMMA InvInit == Init => IInv
<1> SUFFICES ASSUME Init PROVE IInv
    OBVIOUS
<1>1. RemoteTyped
    BY LogAssumption, BoundsAssumption, UpstreamsAssumption
       DEF Init, RemoteTyped
<1>2. Shape
    BY DEF Init, Shape
<1>3. BranchesHaveRules
    BY DEF Init, BranchesHaveRules
<1>4. ASSUME NEW p \in Proposers
      PROVE  RunKnows(p)
    BY BoundsAssumption
       DEF Init, RunKnows, RunTyped, RunChecked, RunPassed, RunClean,
           RunRests, RulesOf, Cloned, Proposed
<1> QED
    BY <1>1, <1>2, <1>3, <1>4, InvParts

LEMMA InvNext == IInv /\ [Next]_vars => IInv'
<1> SUFFICES ASSUME IInv, [Next]_vars PROVE IInv'
    OBVIOUS
<1>1. RemoteTyped /\ Shape /\ \A p \in Proposers : RunKnows(p)
    BY InvParts
<1>2. RemoteTyped' /\ known <= known'
    BY <1>1, RemoteTypedKept
<1>3. known' \in Nat
    BY <1>2, LogAssumption DEF RemoteTyped
<1>4. ASSUME NEW q \in Proposers
      PROVE  RunKnows(q)'
    <2>1. CASE Record \/ People \/ UNCHANGED vars
        BY <1>1, <1>2, <1>3, <2>1, OutsideStep, StandingKnows
    <2>2. ASSUME NEW p \in Proposers, Propose(p), p # q
          PROVE  RunKnows(q)'
        <3>1. OthersUntouched(p)
            BY <1>1, <2>2, ProposeStep
        <3> QED
            BY <1>1, <1>2, <1>3, <2>2, <3>1, StandingKnows
               DEF OthersUntouched
    <2>3. CASE Propose(q)
        BY <1>1, <2>3, ProposerKnows
    <2> QED
        BY <2>1, <2>2, <2>3 DEF Next
<1> QED
    BY <1>1, <1>2, <1>4, ShapeKept, BranchesHaveRulesKept, InvParts

LEMMA SpecIInv == Spec => []IInv
<1> QED
    BY InvInit, InvNext, PTL DEF Spec

(* The variables of a review keep their kinds: only a run under way holds a *)
(* clone or a proposal, and an open pull request has its branch, whatever   *)
(* fails and whatever people do upstream.                                   *)
THEOREM TypeCorrect == Spec => []TypeOK
<1>1. IInv => TypeOK
    BY DEF IInv
<1> QED
    BY <1>1, SpecIInv, PTL

(* What Push publishes is what was validated: the policy of the base it was *)
(* cloned from with the rules of the branch and nothing else, tests that    *)
(* this policy passes, every preflight passed and nothing spoilt by them.   *)
THEOREM PublishedAsChecked == Spec => PublishedIsChecked
<1>1. ASSUME IInv, [Next]_vars, NEW b \in Pushed
      PROVE  LET k == branches'[b] IN
             /\ k.spoilt = {}
             /\ k.base.source => k.passed = Preflights
             /\ k.policy = [k.base.policy EXCEPT !.allow = @ \cup b]
             /\ k.base.tests \subseteq k.tests /\ Passes(k.tests, k.policy)
    <2>1. PICK p \in Proposers :
             /\ at[p] = "push"
             /\ b = Branch(candidates[p]) /\ branches'[b] = CommitOf(p)
        BY <1>1, PushedIsCommit
    <2> QED
        BY <1>1, <2>1, CommitHasRules
<1>2. IInv /\ [Next]_vars =>
         [\A b \in Pushed :
             LET k == branches'[b] IN
             /\ k.spoilt = {}
             /\ k.base.source => k.passed = Preflights
             /\ k.policy = [k.base.policy EXCEPT !.allow = @ \cup b]
             /\ k.base.tests \subseteq k.tests /\ Passes(k.tests, k.policy)
         ]_branches
    BY <1>1
<1> QED
    BY <1>2, SpecIInv, PTL DEF Spec, PublishedIsChecked

(* A published policy decides every command line as its base does, or asks  *)
(* no more about one that a new rule matches: no DENY and no ALLOW of the   *)
(* base is ever lost, and a text that does not parse is not allowed.        *)
THEOREM ProposalsOnlyWiden == Spec => WidensOnly
<1>1. ASSUME IInv, [Next]_vars, NEW b \in Pushed, NEW c \in Commands
      PROVE  LET before == Decision(branches'[b].base.policy, c)
                 after == Decision(branches'[b].policy, c)
             IN  before # after =>
                    /\ before = "ASK" /\ after = "ALLOW"
                    /\ MatchesAny(b, c) /\ Parses(c)
    <2>1. PICK p \in Proposers :
             /\ at[p] = "push"
             /\ b = Branch(candidates[p]) /\ branches'[b] = CommitOf(p)
        BY <1>1, PushedIsCommit
    <2> DEFINE policy == branches'[b].base.policy
    <2>2. /\ IsPolicy(policy)
          /\ branches'[b].policy = [policy EXCEPT !.allow = @ \cup b]
        BY <1>1, <2>1, CommitHasRules
    <2> HIDE DEF policy
    <2>3. LET before == Decision(policy, c)
              after == Decision([policy EXCEPT !.allow = @ \cup b], c)
          IN  before # after =>
                 /\ before = "ASK" /\ after = "ALLOW"
                 /\ MatchesAny(b, c) /\ Parses(c)
        BY <2>2, DecisionWidens
    <2> QED
        BY <2>2, <2>3 DEF policy
<1>2. IInv /\ [Next]_vars =>
         [\A b \in Pushed : \A c \in Commands :
             LET before == Decision(branches'[b].base.policy, c)
                 after == Decision(branches'[b].policy, c)
             IN  before # after =>
                    /\ before = "ASK" /\ after = "ALLOW"
                    /\ MatchesAny(b, c) /\ Parses(c)]_branches
    BY <1>1
<1> QED
    BY <1>2, SpecIInv, PTL DEF Spec, WidensOnly

(* Every rule that is published rests on the history written by then: as    *)
(* many commands as the configuration demands that it matches, that people  *)
(* approved and that succeeded, on two targets, whatever flag was given.    *)
THEOREM RulesRestOnEvidence == Spec => EvidenceHolds
<1>1. ASSUME IInv, [Next]_vars, NEW b \in Pushed, NEW rule \in b
      PROVE  RestsOnEvidence(rule, known)
    <2>1. PICK p \in Proposers : b = Branch(candidates[p])
        BY <1>1, PushedIsCommit
    <2> QED
        BY <1>1, <2>1 DEF IInv, CandidatesRest, Branch
<1>2. IInv /\ [Next]_vars =>
         [\A b \in Pushed : \A rule \in b :
             RestsOnEvidence(rule, known)]_branches
    BY <1>1
<1> QED
    BY <1>2, SpecIInv, PTL DEF Spec, EvidenceHolds

(* A run that reports a proposal, its own or one it found, reports an open  *)
(* pull request whose policy has all the rules it was to propose.           *)
THEOREM ReportIsTrue == Spec => ReportedHasRules
<1>1. ASSUME IInv, [Next]_vars, NEW p \in Proposers,
             at[p] # "done", at'[p] = "done"
      PROVE  /\ Branch(candidates[p]) \in open'
             /\ RulesOf(candidates[p])
                  \subseteq branches'[Branch(candidates[p])].policy.allow
    <2>1. Shape /\ BranchesHaveRules /\ open \subseteq DOMAIN branches
        BY <1>1 DEF IInv, TypeOK
    <2>2. Propose(p)
        <3>1. ASSUME NEW q \in Proposers, Propose(q), q # p
              PROVE  FALSE
            BY <1>1, <2>1, <3>1, ProposeStep DEF OthersUntouched
        <3> QED
            BY <1>1, <3>1, OutsideStep DEF Next
    <2>3. CASE ListPulls(p)
        <3>1. UNCHANGED <<branches, open>> /\ Branch(candidates[p]) \in open
            BY <1>1, <2>1, <2>3 DEF ListPulls, remoteVars, Goto, Shape
        <3> QED
            BY <2>1, <3>1 DEF BranchesHaveRules, Branch
    <2>4. CASE CreatePull(p)
        <3>1. /\ branches' = branches
              /\ Branch(candidates[p]) \in DOMAIN branches
              /\ Branch(candidates[p]) \in open'
            BY <2>4 DEF CreatePull
        <3> QED
            BY <2>1, <3>1 DEF BranchesHaveRules, Branch
    <2>5. ASSUME ~ListPulls(p), ~CreatePull(p)
          PROVE  at'[p] # "done"
        BY <2>1, <2>2, <2>5
           DEF Propose, Analyze, Clone, ApplyCandidates, Preflight, Verify,
               Push, Abort, Leave, Goto, Shape
    <2> QED
        BY <1>1, <2>3, <2>4, <2>5
<1>2. IInv /\ [Next]_vars =>
         [\A p \in Proposers :
             at[p] # "done" /\ at'[p] = "done" =>
                /\ Branch(candidates[p]) \in open'
                /\ RulesOf(candidates[p])
                     \subseteq branches'[Branch(candidates[p])].policy.allow]_vars
    BY <1>1
<1> QED
    BY <1>2, SpecIInv, PTL DEF Spec, ReportedHasRules
=============================================================================
