-------------------------- MODULE MCOperatorConsole --------------------------
(* Small instances of OperatorConsole for TLC.                              *)
EXTENDS OperatorConsole, TLC

CONSTANTS c1, c2

(* Two commands the operator is asked about.                                *)
TwoAsked == (c1 :> "ask") @@ (c2 :> "ask")

(* Every kind of line: empty, a decision on the newest request or on a      *)
(* named one, a list of the requests, the end.                              *)
AllLines == {<<>>, <<"y">>, <<"n">>, <<"approvals">>, <<"quit">>}
              \cup {<<"y", c>> : c \in Commands}

BareLines == {<<>>, <<"y">>, <<"n">>, <<"quit">>}

Symmetric == Permutations({c1, c2})

(* One the operator is asked about and one the policy allows.               *)
AskedAndAllowed == (c1 :> "ask") @@ (c2 :> "allow")
=============================================================================
