------------------------------ MODULE MCFileLock ------------------------------
(* Instances of FileLock for TLC. *)
EXTENDS FileLock

CONSTANTS p1, p2, d1, d2

Mark(p, q) == [file |-> p, claim |-> q]
Left(markers, junk) == [ino |-> 1, old |-> TRUE, markers |-> markers, junk |-> junk]

\* Nothing, an empty directory, the marker of a dead owner, the claim of a dead claimant.
OrdinaryLeftovers ==
    {NoDir, Left({}, FALSE), Left({Mark(d1, Nobody)}, FALSE), Left({Mark(d1, d1)}, FALSE)}

\* Two markers of dead owners, or entries of another origin.
OddLeftovers == {Left({Mark(d1, Nobody), Mark(d2, Nobody)}, FALSE), Left({}, TRUE)}
=============================================================================
