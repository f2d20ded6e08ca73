----------------------------- MODULE PolicyEngine -----------------------------
(* Gate's three-way policy (internal/policy): the views of a command line   *)
(* and the order in which the rules are consulted.  A command line is a     *)
(* program and what stands after it, unchanged, behind wrappers or in a     *)
(* shell composition; a rule matches one program behind one wrapper with    *)
(* some of the operands, as an anchored regular expression does.            *)
EXTENDS Sequences, SequencesExt

CONSTANTS
    Programs,      \* the programs of simple commands
    Operands       \* what may follow a program

(* How a program is wrapped: not at all; by runagent for one of two         *)
(* modules; by podman exec; by podman exec inside runagent; by a second     *)
(* runagent, which is not supported; and as a part of a shell composition.  *)
Wrappers == {"none", "module1", "module2", "container", "both", "nested",
             "composed"}

Commands == [wrapper : Wrappers, program : Programs, operand : Operands]

Wrapped(c, w) == [c EXCEPT !.wrapper = w]

(* commandViews: the submitted text, then what runagent and podman exec     *)
(* take away from it.                                                       *)
ViewWrappers ==
    [w \in Wrappers |->
        CASE w \in {"none", "composed"} -> <<w>>
          [] w \in {"module1", "module2", "container"} -> <<w, "none">>
          [] w = "both" -> <<w, "container", "none">>
          [] w = "nested" -> <<w, "module1">>]

Views == [c \in Commands |->
            [i \in DOMAIN ViewWrappers[c.wrapper] |->
                Wrapped(c, ViewWrappers[c.wrapper][i])]]

(* Every view is tokenized, and the innermost one may not be a wrapper.     *)
Parses(c) == /\ Last(Views[c]).wrapper = "none"
             /\ \A i \in DOMAIN Views[c] : Views[c][i].wrapper # "composed"

(* HasUnsafeComposition: the whole text alone is tokenized.                 *)
HasUnsafeComposition(c) == c.wrapper = "composed"

Matches(rule, c) == /\ rule.wrapper = c.wrapper /\ rule.program = c.program
                    /\ c.operand \in rule.operands

MatchesAny(rules, c) ==
    \E rule \in rules : \E i \in DOMAIN Views[c] : Matches(rule, Views[c][i])

(* Mutation: a rule that allows a view is found before one that denies it.  *)
EvaluateAllowFirst(policy, temporary, c) ==
    IF Parses(c) /\ MatchesAny(policy.allow, c) THEN "ALLOW"
    ELSE IF MatchesAny(policy.deny, c) THEN "DENY" ELSE "ASK"

(* The rules of a target see the submitted text only, those of the policy   *)
(* every view; a validated rule needs the consent of its validator, which   *)
(* looks at the words of that view.                                         *)
Permits(policy, temporary, c) ==
    \/ \E rule \in temporary : Matches(rule, c)
    \/ MatchesAny(policy.allow, c)
    \/ \E v \in policy.validated : \E i \in DOMAIN Views[c] :
          Matches(v.regexp, Views[c][i]) /\ Views[c][i].operand \in v.accepted

(* DENY looks at every view, before anything else, and a text that does not *)
(* parse is never allowed.                                                  *)
Evaluate(policy, temporary, c) ==
    IF MatchesAny(policy.deny, c) THEN "DENY"
    ELSE IF Parses(c) /\ Permits(policy, temporary, c) THEN "ALLOW" ELSE "ASK"

Decision(policy, c) == Evaluate(policy, {}, c)

(* TestSuite.Run finds no failure.                                          *)
Passes(suite, policy) ==
    \A test \in suite : Decision(policy, test.command) = test.expect
=============================================================================
