----------------------------- MODULE MCForwarding -----------------------------
(* Small instances of Forwarding for TLC.                                   *)
EXTENDS Forwarding, TLC

CONSTANTS r1, r2, r3, h1, t1, t2

(* Two aliases that want the same hostname for the same remote port.        *)
TwoAliasKinds == (r2 :> "host_add") @@ (r3 :> "host_add")
TwoAliasPorts == (r2 :> 443) @@ (r3 :> 443)
TwoAliasNames == (r2 :> h1) @@ (r3 :> h1)

Symmetric == Permutations({r2, r3})

(* One alias.                                                               *)
OneAliasKinds == (r2 :> "host_add")
OneAliasPorts == (r2 :> 443)
OneAliasNames == (r2 :> h1)

(* A plain forward and an alias that may share it.                          *)
MixedKinds == (r1 :> "forward_add") @@ (r2 :> "host_add")
MixedPorts == (r1 :> 443) @@ (r2 :> 443)
MixedNames == (r1 :> h1) @@ (r2 :> h1)
=============================================================================
