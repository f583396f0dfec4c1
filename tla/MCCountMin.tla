----------------------------- MODULE MCCountMin -----------------------------
(* Instances of CountMin for TLC. *)
EXTENDS CountMin, TLC

CONSTANTS cpu1, cpu2, elephant, mouse

MCCPUs == {cpu1, cpu2}
MCOneCPU == {cpu1}
MCFlows == {elephant, mouse}
MCCols == 0..1

(* The flows share their cell of the first row and part in the second. *)
MCHash == (elephant :> <<0, 0>>) @@ (mouse :> <<0, 1>>)

=============================================================================
