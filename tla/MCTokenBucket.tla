--------------------------- MODULE MCTokenBucket ----------------------------
(* Instances of TokenBucket for TLC. *)
EXTENDS TokenBucket, TLC

CONSTANTS cpu1, cpu2

MCCPUs == {cpu1, cpu2}
MCOneCPU == {cpu1}

CPUSymmetry == Permutations(CPUs)

=============================================================================
