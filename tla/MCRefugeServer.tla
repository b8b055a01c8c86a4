--------------------------- MODULE MCRefugeServer ---------------------------
(* Two clients, one of each family: one that may log in, and one that says nothing. *)
EXTENDS RefugeServer, TLC

CONSTANTS Root, Guest

ByFamily == (Root :> "v4") @@ (Guest :> "v6")
Lines    == (Root :> Words) @@ (Guest :> {})
Numbers  == Permutations(Fds)
=============================================================================
