--------------------------- MODULE MCRefugeStore ---------------------------
(* Small instances of RefugeStore. *)
EXTENDS RefugeStore, TLC

num(n)     == [kind |-> "int", n |-> n]
AllTexts   == {num(7), num(-1), [kind |-> "garbage", n |-> 0], [kind |-> "huge", n |-> 0]}
OneText    == {num(7)}
TwoTexts   == {num(7), num(-1)}
=============================================================================
