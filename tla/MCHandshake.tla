---------------------------- MODULE MCHandshake ----------------------------
(***************************************************************************)
(* Two miners and a third that joins while the first broadcasts a payload, *)
(* and asks for the same payload: it is offered up to three times.         *)
(***************************************************************************)
EXTENDS Handshake

MCFirst == <<"a", "b">>
MCMaker == [p \in {"block"} |-> "a"]
MCWanted == {<<"c", "block">>}
=============================================================================
