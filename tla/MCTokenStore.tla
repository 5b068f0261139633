----------------------------- MODULE MCTokenStore -----------------------------
(* Instances of TokenStore for TLC. *)
EXTENDS TokenStore, TLC

CONSTANTS p1, p2, c1, c2, c3, a1, a2

\* Two requests of one process and one of another.
Homes == [c \in Call |-> IF c = c3 THEN p2 ELSE p1]

\* The two processes share an account, or only the file.
OneOrTwoAccounts == {(p1 :> a1 @@ p2 :> a1), (p1 :> a1 @@ p2 :> a2)}

Symmetry == Permutations({c1, c2})
=============================================================================
