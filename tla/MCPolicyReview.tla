---------------------------- MODULE MCPolicyReview ----------------------------
(* A small instance of PolicyReview for TLC.                                *)
EXTENDS PolicyReview, TLC

CONSTANTS p1, p2

Line(program, operand, wrapper) ==
    Wrapped(Plain(program, operand), wrapper)

Journal(unit) == Line("journalctl", unit, "none")
Uptime == Line("uptime", "", "none")
Reboot == Line("reboot", "", "none")

Entry(c, name, spelling, target) ==
    [command |-> c, name |-> [folded |-> name, spelling |-> spelling],
     target |-> target, succeeded |-> TRUE, policy |-> "ASK",
     action |-> "approve_once"]

Failed(entry) == [entry EXCEPT !.succeeded = FALSE]
ByRule(entry) == [entry EXCEPT !.policy = "ALLOW", !.action = "none"]

(* A shop attached twice, a failure, an approval by rule, a sensitive name  *)
(* and a wrapped command come before the evidence for journalctl is         *)
(* complete; that for uptime follows.                                       *)
TheLog ==
    <<Entry(Journal("redis"), "shop", "Shop", "t1"),
      Entry(Journal("nginx"), "shop", "shop ", "t2"),
      Failed(Entry(Journal("redis"), "bank", "bank", "t3")),
      ByRule(Entry(Journal("redis"), "bank", "bank", "t3")),
      Entry(Line("journalctl", "redis", "module1"), "bank", "bank", "t3"),
      Entry(Journal("token"), "shop", "shop", "t2"),
      Entry(Uptime, "shop", "shop", "t2"),
      Entry(Journal("redis"), "bank", "bank", "t3"),
      Entry(Uptime, "bank", "bank", "t3")>>

Test(c, decision) == [command |-> c, expect |-> decision]

Rule(c) == [wrapper |-> c.wrapper, program |-> c.program, operands |-> {c.operand}]

Local == [allow |-> {}, validated |-> {}, deny |-> {Rule(Reboot)}]

(* The regression suite in the binary.                                      *)
Suite == {Test(Reboot, "DENY"), Test(Wrapped(Uptime, "composed"), "ASK")}

(* The base branch, in Gate's own repository: as the local policy, or with  *)
(* a test that expects the question.  In a repository of policies: with a   *)
(* rule that denies journalctl in one module, a rule that is being proposed *)
(* and a validated one.                                                     *)
Plainly == [policy |-> Local, tests |-> Suite, source |-> TRUE]
Asking == [Plainly EXCEPT !.tests = @ \cup {Test(Journal("nginx"), "ASK")}]
Ruling ==
    [policy |-> [allow |-> {Rule(Uptime)},
                 deny |-> {Rule(Reboot),
                           Rule(Line("journalctl", "nginx", "module2"))},
                 validated |-> {[regexp |-> PatternOf(Journal("redis")),
                                 accepted |-> {"example"}]}],
     tests |-> Suite, source |-> FALSE]

TheUpstreams == {Plainly, Asking, Ruling}
TheOperands == {"", "redis", "nginx", "example", "token", "--all"}

Symmetric == Permutations({p1, p2})
=============================================================================
