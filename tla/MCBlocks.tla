------------------------------ MODULE MCBlocks ------------------------------
(***************************************************************************)
(* Label sets and selectors for TLC.                                       *)
(***************************************************************************)
EXTENDS Blocks

\* Every series has a label, and no label is empty: for a series without
\* labels, or with an empty value, head and block do not agree.
Labelled == {"job" :> "web", ("job" :> "api") @@ ("env" :> "web")}

\* Every matcher alone, and an equality of one label with an inequality of the
\* other.
Asked ==
    LET Of(type, name) == {m \in Matchers : m.type = type /\ m.name = name}
    IN {<<m>> : m \in Matchers}
         \cup {<<m1, m2>> : m1 \in Of("Eq", "job"), m2 \in Of("Neq", "env")}

\* At most one directory is left behind that does not open, and it counts as an
\* append.  No call reads such a directory; two of three would leave a single
\* block to compact.
FewBroken ==
    LET broken == {d \in DOMAIN disk \ InUse : ~Openable(disk[d])}
    IN Cardinality(broken) <= 1 /\ Cardinality(broken) + appended <= MaxAppends
=============================================================================
