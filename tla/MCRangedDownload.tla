-------------------------- MODULE MCRangedDownload --------------------------
(***************************************************************************)
(* Instances of RangedDownload for TLC.                                    *)
(***************************************************************************)
EXTENDS RangedDownload, TLC

\* An ETag: every version has its own.
StrongTag == [v \in Version |-> v]

\* A Last-Modified date with a granularity of one second: two versions of the
\* file published within the same second have the same one.
SameSecondTag == [v \in Version |-> 0]

Symmetric == Permutations(Files)
=============================================================================
