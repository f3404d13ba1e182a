---------------------------- MODULE ChainRemoval ----------------------------
(***************************************************************************)
(* What the removal of a chain of snapshots removes, defined without a     *)
(* walk: by ancestors and descendants in a store value s.                  *)
(***************************************************************************)
EXTENDS SnapshotOps, FiniteSets, Integers

\* n and its ancestors: the least set with n that is closed under parents.
Line(s, n) ==
    {m \in DOMAIN s :
        \A S \in SUBSET DOMAIN s :
            n \in S /\ (\A x \in S : s[x].parent \in S \cup {NoParent}) => m \in S}

\* The line of n as far as nothing else is built on it, up to rm snapshots.
Removable(s, n, rm) ==
    IF n \notin DOMAIN s THEN {}
    ELSE {m \in Line(s, n) :
            /\ \A x \in DOMAIN s : m \in Line(s, x) => x \in Line(s, n)
            /\ rm > 0 => Cardinality(Line(s, n)) - Cardinality(Line(s, m)) < rm}
=============================================================================
