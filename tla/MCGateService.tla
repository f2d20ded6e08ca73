---------------------------- MODULE MCGateService ----------------------------
(* Small instances of GateService for TLC.                                  *)
EXTENDS GateService, TLC

CONSTANTS c1, c2, a1, t1, t2, ask, allow, deny, pipe

(* Two commands of one class the persistent policy asks about.              *)
TwoAsk == (c1 :> ask) @@ (c2 :> ask)

(* An execution an allow rule matches, and a capability (a shell            *)
(* composition) the operator is asked about although an allow rule matches. *)
AllowAndPipe == (c1 :> allow) @@ (c2 :> pipe)

(* One the operator is asked about, one a deny rule matches.                *)
AskDeny == (c1 :> ask) @@ (c2 :> deny)

Policy == (ask :> "ask") @@ (allow :> "allow") @@ (deny :> "deny")
            @@ (pipe :> "allow")

Symmetric == Permutations({c1, c2}) \cup Permutations({t1, t2})
=============================================================================
