---------------------------- MODULE MCDataplane -----------------------------
(* Instances of Dataplane for TLC. *)
EXTENDS Dataplane, TLC

CONSTANTS cpu1, cpu2, elephant, mouse

MCCPUs == {cpu1, cpu2}
MCOneCPU == {cpu1}
MCFlows == {elephant, mouse}
MCCols == 0..1

(* Two rows: the flows share a cell in the second, not in the first. *)
MCSharedHash == (elephant :> <<0, 0>>) @@ (mouse :> <<1, 0>>)

=============================================================================
