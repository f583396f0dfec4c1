----------------------------- MODULE DumpStats ------------------------------
(***************************************************************************)
(* natra dump-stats against a program that keeps running: dumpStats goes   *)
(* through the directions of a container whose maps are pinned; of each it *)
(* looks up the configuration, and prints the six counters of one that has *)
(* a rate, each summed over the CPUs by one lookup in the per-CPU map.     *)
(* The histogram of the sketch, which comes after, is left out.            *)
(***************************************************************************)
EXTENDS Dataplane, Sequences

CONSTANTS
  Live,        \* the direction that has a rate: the one Dataplane models
  ValueBytes,  \* sizeof(struct natra_config), the value of natra_config_map
  BufferBytes  \* what dumpStats looks such a value up into: [24]byte

VARIABLE dump  \* where dumpStats is, and what it has printed of Live

dumpVars == <<vars, dump>>

Directions == <<"ingress", "egress">>
Order == <<"passed", "throttled", "hh_hits",
           "ecn_marked", "edt_delayed", "dropped">>

DumpInit == Init /\ dump = [at |-> "config", dir |-> 1, printed |-> <<>>]

(* The next direction, or the end of the loop over them. *)
Onward(d) ==
  IF d.dir < Len(Directions)
    THEN [d EXCEPT !.at = "config", !.dir = @ + 1]
    ELSE [d EXCEPT !.at = "done"]

(* external: Map.Lookup of cilium/ebpf copies a value out into a buffer of *)
(* its size, and is an error for a buffer of another.                      *)
LookupFits == BufferBytes = ValueBytes

(* The lookup of a direction's configuration: it fails, or the direction   *)
(* has no rate and is skipped, or its counters are read.                   *)
LookupConfig ==
  /\ dump.at = "config"
  /\ dump' = IF ~LookupFits THEN [dump EXCEPT !.at = "failed"]
             ELSE IF Directions[dump.dir] # Live THEN Onward(dump)
             ELSE [dump EXCEPT !.at = "slots"]
  /\ UNCHANGED vars

(* The next slot is looked up and printed. *)
ReadSlot ==
  LET printed == Append(dump.printed, Total(Order[Len(dump.printed) + 1]))
      d == [dump EXCEPT !.printed = printed]
  IN  /\ dump.at = "slots"
      /\ dump' = IF Len(printed) < Len(Order) THEN d ELSE Onward(d)
      /\ UNCHANGED vars

DumpNext == LookupConfig \/ ReadSlot \/ (Next /\ UNCHANGED dump)

DumpSpec == DumpInit /\ [][DumpNext]_dumpVars

----------------------------------------------------------------------------
(* troubleshooting.md says of dump-stats that it is the way to see the     *)
(* live classification on a pod: "Watch `passed`, `throttled`, `hh_hits`". *)
(* A dump of a container with a limit that has ended has printed them.     *)
DumpShowsTheCounters ==
  dump.at \in {"done", "failed"} => Len(dump.printed) = Len(Order)

=============================================================================
