---------------------------- MODULE MCDumpStats -----------------------------
(* Instances of DumpStats for TLC. *)
EXTENDS DumpStats, TLC

CONSTANTS cpu1, cpu2, elephant

MCCPUs == {cpu1, cpu2}
MCFlows == {elephant}
MCCols == {0}
MCHash == elephant :> <<0>>

CPUSymmetry == Permutations(CPUs)

=============================================================================
