----------------------------- MODULE MCStudioServer -----------------------------
(* Three requests at once: one account with a saved design, another member, and an       *)
(* address nobody has registered.                                                        *)
EXTENDS StudioServer, TLC
CONSTANTS r1, r2, r3, owner, other, guest, d1, n1, n2, s1, s2

Requests  == {r1, r2, r3}
Accounts  == {owner, other, guest}
Known     == {owner, other}
Ids       == {d1, r1, r2, r3}
Names     == {n1, n2}
Shapes    == {s1, s2}
Stored    == [d \in {d1} |-> [owner |-> owner, name |-> n1, design |-> s1, ansysStartedAt |-> None]]
Alike     == Permutations(Requests)
================================================================================
