----------------------------- MODULE Installer -----------------------------
(***************************************************************************)
(* The init container of the natra DaemonSet on one node:                  *)
(* deploy/cni-installer.yaml and install-cni-chain of cmd/natra-tools,     *)
(* beside an upstream installer that rewrites its conflists as it likes,   *)
(* and containerd, which loads the first conflist by name.  Originals are  *)
(* numbered in the order of their names, which all sort after "00-natra-"; *)
(* the sibling of o is "00-natra-" and the name of o.                      *)
(***************************************************************************)
EXTENDS Integers, Sequences

CONSTANTS
  N,          \* conflists of upstream: 1..N
  Chains,     \* plugin lists that upstream may write
  Bandwidth,  \* the plugin of type bandwidth
  Envs,       \* settings of the DaemonSet
  Valid,      \* those that install-cni-chain takes
  Absent, Torn, NoPlugins,  \* no file; a file half written; one without a list
  MaxWrites,  \* bound of upstream's changes
  MaxFaults,  \* bound of crashes and failed writes
  MaxRollouts \* bound of new settings

Originals == 1..N

VARIABLES
  orig,       \* upstream's files
  sib, tmp,   \* natra's, and the temporary ones
  binary,     \* natra in the CNI bin directory
  env,        \* the settings in force
  proc,       \* the init container
  had,        \* what each of upstream's files has held
  disturbed,  \* upstream changed something since ReadDir
  count       \* what the bounds are about

vars == <<orig, sib, tmp, binary, env, proc, had, disturbed, count>>

(* The plugins without those of type bandwidth, natra after them: the      *)
(* entry of natra is the settings.                                         *)
Chain(plugins, e) ==
  [plugins |-> SelectSeq(plugins, LAMBDA p : p # Bandwidth), natra |-> e]

Siblings == {Chain(c, e) : c \in Chains, e \in Valid}
Upstream == {Torn, NoPlugins} \cup Chains

ASSUME InstallerAssumption ==
  /\ N \in Nat
  /\ Valid \subseteq Envs
  /\ {Absent, Torn, NoPlugins} \cap Chains = {}
  /\ Absent # Torn /\ Absent # NoPlugins /\ Torn # NoPlugins
  /\ MaxWrites \in Nat /\ MaxFaults \in Nat /\ MaxRollouts \in Nat
  /\ \A c \in Chains : c \in Seq(STRING)
  /\ {Absent, Torn} \cap Siblings = {}

Idle == [at |-> "down", todo |-> {}, data |-> Absent, out |-> Absent]

Init ==
  /\ orig \in [Originals -> {Absent} \cup Chains]
  /\ sib = [o \in Originals |-> Absent]
  /\ tmp = [o \in Originals |-> Absent]
  /\ binary = Absent
  /\ env \in Envs
  /\ proc = Idle
  /\ had = [o \in Originals |-> {orig[o]}]
  /\ disturbed = FALSE
  /\ count = [writes |-> 0, faults |-> 0, rollouts |-> 0]

Goto(at) == proc' = [proc EXCEPT !.at = at]
Files == <<orig, sib, tmp, binary>>
World == <<env, had, disturbed, count>>

----------------------------------------------------------------------------
(* kubelet starts the init container again until it has succeeded; install *)
(* unlinks the old binary and writes the new one.                          *)
Start ==
  /\ proc.at \in {"down", "failed"}
  /\ binary' = Torn
  /\ Goto("install")
  /\ UNCHANGED <<orig, sib, tmp, World>>

InstallBinary ==
  /\ proc.at = "install"
  /\ binary' = "natra"
  /\ Goto("wait")
  /\ UNCHANGED <<orig, sib, tmp, World>>

(* Any *.conflist will do, also natra's own of an earlier run. *)
Wait ==
  /\ proc.at = "wait"
  /\ \E o \in Originals : orig[o] # Absent \/ sib[o] # Absent
  /\ Goto("list")
  /\ UNCHANGED <<Files, World>>

ReadDir ==
  /\ proc.at = "list"
  /\ proc' = [proc EXCEPT !.at = "loop",
                          !.todo = {o \in Originals : orig[o] # Absent}]
  /\ disturbed' = FALSE
  /\ UNCHANGED <<Files, env, had, count>>

(* Mutant of Entry: the entries come in no order of their names. *)
LastEntry == CHOOSE o \in proc.todo : \A p \in proc.todo : o >= p

(* os.ReadDir sorts what it returns. *)
Entry == CHOOSE o \in proc.todo : \A p \in proc.todo : o <= p

NextEntry == [proc EXCEPT !.at = "loop", !.todo = @ \ {Entry},
                          !.data = Absent, !.out = Absent]

(* Mutant of Failed: the loop goes on with the other entries. *)
Skipped == proc' = NextEntry

(* The first error ends the loop. *)
Failed == proc' = [Idle EXCEPT !.at = "failed"]

ReadFile ==
  /\ proc.at = "loop" /\ proc.todo # {}
  /\ \/ /\ orig[Entry] \in Chains
        /\ proc' = [proc EXCEPT !.at = "build", !.data = orig[Entry]]
     \/ orig[Entry] \notin Chains /\ Failed
  /\ UNCHANGED <<Files, World>>

Finish ==
  /\ proc.at = "loop" /\ proc.todo = {}
  /\ proc' = [Idle EXCEPT !.at = "done"]
  /\ UNCHANGED <<Files, World>>

(* Mutant of UpToDate: a sibling is always written. *)
NeverUpToDate(o, out) == FALSE

UpToDate(o, out) == sib[o] = out

(* Mutant of Build: a setting that is not known counts as one that is not  *)
(* given.                                                                  *)
BuildAny ==
  /\ proc.at = "build"
  /\ LET out == Chain(proc.data, env)
     IN \/ UpToDate(Entry, out) /\ proc' = NextEntry
        \/ ~UpToDate(Entry, out) /\ proc' = [proc EXCEPT !.at = "create", !.out = out]
  /\ UNCHANGED <<Files, World>>

Build ==
  /\ proc.at = "build"
  /\ LET out == Chain(proc.data, env)
     IN \/ env \notin Valid /\ Failed
        \/ env \in Valid /\ UpToDate(Entry, out) /\ proc' = NextEntry
        \/ /\ env \in Valid /\ ~UpToDate(Entry, out)
           /\ proc' = [proc EXCEPT !.at = "create", !.out = out]
  /\ UNCHANGED <<Files, World>>

(* Mutant of CanCreate: the temporary file must not exist. *)
CanCreateNew(o) == tmp[o] = Absent

CanCreate(o) == TRUE

(* Mutant of CreateTemp: the sibling itself is written. *)
CreateInPlace ==
  /\ proc.at = "create"
  /\ sib' = [sib EXCEPT ![Entry] = Torn]
  /\ Goto("write")
  /\ UNCHANGED <<orig, tmp, binary, World>>

(* os.WriteFile truncates what a crash may have left. *)
CreateTemp ==
  /\ proc.at = "create"
  /\ \/ /\ CanCreate(Entry)
        /\ tmp' = [tmp EXCEPT ![Entry] = Torn]
        /\ Goto("write")
     \/ ~CanCreate(Entry) /\ Failed /\ UNCHANGED tmp
  /\ UNCHANGED <<orig, sib, binary, World>>

WriteTemp ==
  /\ proc.at = "write"
  /\ tmp' = [tmp EXCEPT ![Entry] = proc.out]
  /\ Goto("rename")
  /\ UNCHANGED <<orig, sib, binary, World>>

Rename ==
  /\ proc.at = "rename"
  /\ sib' = [sib EXCEPT ![Entry] = tmp[Entry]]
  /\ tmp' = [tmp EXCEPT ![Entry] = Absent]
  /\ proc' = NextEntry
  /\ UNCHANGED <<orig, binary, World>>

----------------------------------------------------------------------------
Fault == /\ count.faults < MaxFaults
         /\ count' = [count EXCEPT !.faults = @ + 1]
         /\ UNCHANGED <<orig, sib, env, had, disturbed>>

(* A write fails: a temporary file that could not be renamed is removed,   *)
(* one that could not be written stays.                                    *)
WriteFails ==
  /\ proc.at \in {"create", "write", "rename"}
  /\ Fault /\ Failed
  /\ tmp' = IF proc.at = "rename" THEN [tmp EXCEPT ![Entry] = Absent] ELSE tmp
  /\ UNCHANGED binary

(* The container is killed, or the node restarts with all that was written *)
(* on its disk: os.WriteFile does not sync, so that after a loss of power  *)
(* a renamed file may be empty, which is not modelled.                     *)
Crash ==
  /\ proc.at \notin {"down", "failed"}
  /\ Fault /\ proc' = Idle
  /\ UNCHANGED <<tmp, binary>>

(* The DaemonSet is given other settings; its pod is replaced. *)
Rollout ==
  /\ count.rollouts < MaxRollouts
  /\ env' \in Envs \ {env}
  /\ proc' = Idle
  /\ count' = [count EXCEPT !.rollouts = @ + 1]
  /\ UNCHANGED <<Files, had, disturbed>>

----------------------------------------------------------------------------
Writes == /\ count.writes < MaxWrites
          /\ count' = [count EXCEPT !.writes = @ + 1]
          /\ disturbed' = TRUE
          /\ UNCHANGED <<tmp, binary, env, proc>>

Holds(o, c) == /\ orig' = [orig EXCEPT ![o] = c]
               /\ had' = [had EXCEPT ![o] = @ \cup {c}]
               /\ UNCHANGED sib

(* Upstream replaces a file, starts to write over it, or removes it. *)
Replace(o) == Writes /\ \E c \in Upstream : Holds(o, c)
Remove(o) == orig[o] # Absent /\ Writes /\ Holds(o, Absent)

CompleteWrite(o) ==
  /\ orig[o] = Torn
  /\ \E c \in Chains : Holds(o, c)
  /\ disturbed' = TRUE
  /\ UNCHANGED <<tmp, binary, env, proc, count>>

(* A plugin that wants the directory for itself takes the sibling away. *)
TakeSibling(o) ==
  /\ sib[o] # Absent /\ Writes
  /\ sib' = [sib EXCEPT ![o] = Absent]
  /\ UNCHANGED <<orig, had>>

----------------------------------------------------------------------------
Run == \/ Start \/ InstallBinary \/ Wait \/ ReadDir \/ ReadFile \/ Finish
       \/ Build \/ CreateTemp \/ WriteTemp \/ Rename

Next ==
  \/ Run
  \/ WriteFails \/ Crash \/ Rollout
  \/ \E o \in Originals :
       Replace(o) \/ Remove(o) \/ CompleteWrite(o) \/ TakeSibling(o)

(* The container goes on when it can, and kubelet restarts it: the restart *)
(* policy of a DaemonSet's pods is Always.  Upstream ends its own writes.  *)
Spec == /\ Init /\ [][Next]_vars
        /\ WF_vars(Run)
        /\ \A o \in Originals : WF_vars(CompleteWrite(o))

----------------------------------------------------------------------------
TypeOK ==
  /\ orig \in [Originals -> {Absent} \cup Upstream]
  /\ sib \in [Originals -> {Absent, Torn} \cup Siblings]
  /\ tmp \in [Originals -> {Absent, Torn} \cup Siblings]
  /\ binary \in {Absent, Torn, "natra"}
  /\ env \in Envs
  /\ proc \in [at : {"down", "install", "wait", "list", "loop", "build", "create",
                     "write", "rename", "done", "failed"},
               todo : SUBSET Originals,
               data : {Absent} \cup Chains, out : {Absent} \cup Siblings]
  /\ had \in [Originals -> SUBSET ({Absent} \cup Upstream)]
  /\ disturbed \in BOOLEAN
  /\ count \in [writes : 0..MaxWrites, faults : 0..MaxFaults,
                rollouts : 0..MaxRollouts]

(* writeChainedSibling: whatever is torn, removed or crashed, and whoever  *)
(* wins a race, containerd finds under natra's name no file, or all of one *)
(* that chains natra, under valid settings, to a list that the original    *)
(* has held.                                                               *)
SiblingsAreChained ==
  \A o \in Originals :
    sib[o] # Absent =>
      \E c \in had[o] \cap Chains, e \in Valid : sib[o] = Chain(c, e)

(* The conflist containerd uses: the first by name. *)
First(S) == CHOOSE o \in S : \A p \in S : o <= p
Pick ==
  LET ours == {o \in Originals : sib[o] # Absent}
  IN IF ours # {} THEN First(ours) ELSE 0

Present == {o \in Originals : orig[o] # Absent}

(* installCNIChain: natra takes containerd from one conflist to another    *)
(* without a detour.  When natra changes which one containerd loads, and   *)
(* upstream has done nothing meanwhile, it becomes the chain of the first  *)
(* of upstream's, also when the loop goes on where a crash ended an        *)
(* earlier one.  When a run has succeeded so, it is that one, or one left  *)
(* over from a conflist that upstream has removed: natra never removes the *)
(* sibling of such a conflist, and it stays ahead of all later ones.       *)
NoDetour ==
  [][ ~disturbed =>
        /\ Rename /\ Pick' # Pick => Pick' = First(Present)
        /\ Finish /\ Present # {} =>
             Pick = First(Present) \/ orig[Pick] = Absent ]_vars

(* writeChainedSibling: containerd reloads at every rename, which may race *)
(* with the creation of a sandbox, so none is in vain; nor does it load a  *)
(* chain whose plugin is not installed yet.                                *)
NoIdleReload ==
  [][ Rename => sib' # sib /\ binary = "natra" ]_vars

(* install-cni-chain: a run that succeeds while upstream holds still       *)
(* leaves each original with a chain of its contents and the settings.     *)
DoneMeansChained ==
  proc.at = "done" /\ ~disturbed =>
    \A o \in Originals :
      orig[o] # Absent => orig[o] \in Chains /\ sib[o] = Chain(orig[o], env)

(* cni-installer.yaml: a container that fails on a file half written, or   *)
(* on what a crash left, is restarted and gets there in the end.           *)
Healthy ==
  /\ env \in Valid
  /\ \A o \in Originals : orig[o] \in {Absent} \cup Chains
  /\ \E o \in Originals : orig[o] # Absent
InstallEnds == <>[]Healthy => <>[](proc.at = "done")

=============================================================================
