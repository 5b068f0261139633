---------------------------- MODULE MCOAuthServer ----------------------------
(* Instances of OAuthServer for TLC. *)
EXTENDS OAuthServer, TLC

CONSTANTS c1, c2, t1, t2, a1, a2, a3, i1, i2, r1, r2

Symmetry ==
    Permutations({c1, c2}) \cup Permutations({t1, t2}) \cup Permutations({a1, a2, a3})
    \cup Permutations({i1, i2}) \cup Permutations({r1, r2})
=============================================================================
