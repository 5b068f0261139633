------------------------------ MODULE MCToolCall ------------------------------
(* Instances of ToolCall for TLC. *)
EXTENDS ToolCall, TLC

CONSTANTS c1, c2, c3, p1, p2, h1, h2

\* Calls, processes and argument hashes are interchangeable.
Symmetry == Permutations({c1, c2, c3}) \cup Permutations({p1, p2}) \cup Permutations({h1, h2})
=============================================================================
