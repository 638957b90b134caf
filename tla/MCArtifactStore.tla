--------------------------- MODULE MCArtifactStore ---------------------------
(* An instance of ArtifactStore for TLC: one reservation, two workers.      *)
EXTENDS ArtifactStore

CONSTANTS u1, part1, w1, w2

MCPartial(u) == part1
=============================================================================
