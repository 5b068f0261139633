---------------------------- MODULE MCConfirmedCall ----------------------------
(* Instances of ConfirmedCall for TLC. *)
EXTENDS ConfirmedCall, TLC

CONSTANTS a1, a2, f1, f2, f3, x1, p1, p2, h1, h2

MCPayload == [kind : {"preview", "result"}, of : Action]

\* Actions, confirmations and processes are interchangeable.
Symmetry ==
    Permutations({a1, a2}) \cup Permutations({f1, f2, f3}) \cup Permutations({p1, p2})
        \cup Permutations({h1, h2})

\* Instances about a key look at proposals that give one.
AllKeyed == \A a \in Action : Keyed(a)

\* Keys and arguments are interchangeable: it matters only whether the second
\* proposal gives the key and the arguments of the first.
Canonical ==
    LET key == CHOOSE k \in Key : TRUE
        args == CHOOSE h \in Args : TRUE
    IN /\ proposal[a1].key = key /\ proposal[a1].argsHash = args
       /\ proposal[a2].key = key \/ (proposal[a2].key # NoKey /\ proposal[a2].argsHash = args)

\* Instances about an approval can do without the ledger.
NoneKeyed == \A a \in Action : ~Keyed(a)
=============================================================================
