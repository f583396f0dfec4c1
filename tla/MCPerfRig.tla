----------------------------- MODULE MCPerfRig ------------------------------
(* An instance of PerfRig for TLC. *)
EXTENDS PerfRig

(* The CI profile; two with more rates, workloads in another order or more *)
(* samples; and one that the specification refuses.                        *)
MCProfiles ==
  {[rates |-> <<"10M">>, workloads |-> <<"iperfSweep", "mixed", "memory">>, samples |-> 1],
   [rates |-> <<"10M", "1G">>, workloads |-> <<"mixed", "iperfSweep">>, samples |-> 2],
   [rates |-> <<"10M">>, workloads |-> <<"memory">>, samples |-> 2],
   [rates |-> <<"10M">>, workloads |-> <<"mixed">>, samples |-> 3]}

=============================================================================
