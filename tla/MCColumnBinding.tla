--------------------------- MODULE MCColumnBinding ---------------------------
(* An instance of ColumnBinding with two descriptors.  Both take every      *)
(* state, but from there the run goes on only while one of them is new or   *)
(* has the records of the other (with a count of its own), none that a      *)
(* failed SQLBindCol left: what one does leaves the other alone, except for *)
(* SQLCopyDesc.                                                             *)
EXTENDS ColumnBinding

IsNew(d) == desc[d] = NewDescriptor /\ asked[d] = [c \in Column |-> BlankRecord]

CopyOrNew ==
    \/ \E d \in Desc : IsNew(d)
    \/ \A d, e \in Desc : desc[d].records = desc[e].records /\ dressed[d] = dressed[e]
           /\ broken[d] = {} /\ reopened[d] = reopened[e]

DescSymmetry == {[d \in Desc |-> d], [d \in Desc |-> CHOOSE e \in Desc : e # d]}
=============================================================================
