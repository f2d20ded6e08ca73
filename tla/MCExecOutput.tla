----------------------------- MODULE MCExecOutput -----------------------------
(* Small instances of ExecOutput for TLC.                                   *)
EXTENDS ExecOutput

(* A session ID and a host; the host may stand next to the ID or run into   *)
(* it.                                                                      *)
ID == <<"a", "b", "b">>
Host == <<"b", "c">>

(* Every text of four letters and some longer ones: an ID after its own     *)
(* beginning, an ID that a host overlaps, a character of two bytes.         *)
Words == [1 .. 4 -> {"a", "b", "c"}]
           \cup {<<"a", "b", "a", "b", "b">>, <<"a", "b", "b", "b", "c">>,
                 <<"b", "a", "b", "b", "c">>, <<"a", "lead", "trail", "b", "b">>}
Redactable == [stdout |-> Words, stderr |-> {<<"a", "b">>}]

BothLists == {<<ID>>, <<ID, Host>>}
=============================================================================
