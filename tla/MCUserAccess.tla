---------------------------- MODULE MCUserAccess ----------------------------
(***************************************************************************)
(* Two users.  One command changes the password of the first of them, the  *)
(* other one adds the second.  Only the first three lines are read.         *)
(***************************************************************************)
EXTENDS UserAccess

Ann == [user |-> "ann", pass |-> "1", prefixes |-> {"/a"}]
Ann2 == [user |-> "ann", pass |-> "2", prefixes |-> {"/a"}]
Bob == [user |-> "bob", pass |-> "1", prefixes |-> {"/a", "/b"}]

MCEntry == {Ann, Ann2, Bob}
MCNewEntry == [a \in Adder |-> IF a = "passwd" THEN Ann2 ELSE Bob]
MCByHand == {<<Ann, Blank>>}
MCStarts == {<<"/a", "/a">>, <<"/b", "/b">>}

=============================================================================
