------------------------------ MODULE PerfRig ------------------------------
(***************************************************************************)
(* The benchmark that compares natra with the bundled bandwidth plugin:    *)
(* the executor of internal/perfrig, which runs the phases and their       *)
(* workloads, the two substrates it drives (k3d containers, lima VMs), and *)
(* the cluster they make, where pods get their shaper when they are        *)
(* admitted and keep it until their sandbox is gone.                       *)
(*                                                                         *)
(* Every external command may fail.  A poll has its attempts, and a wait   *)
(* of kubectl its timeout; "k3d cluster create --wait" has none.  The      *)
(* process may be interrupted and started again; what it made stays.       *)
(***************************************************************************)
EXTENDS Integers, Sequences, SequencesExt

CONSTANTS
  Substrates,    \* among "k3d" and "lima"
  Rates,         \* Spec.Rates
  Samples,       \* Spec.Samples
  Profiles,      \* what may be asked for: rates, workloads, samples
  NPods,         \* MemoryNPodCount
  Tries,         \* attempts of a poll (30 in the code)
  MaxFaults      \* bound of failed commands and interruptions

ASSUME RigAssumption ==
  /\ Substrates \subseteq {"k3d", "lima"}
  /\ Samples \in Nat \ {0} /\ NPods \in Nat \ {0, 1} /\ MaxFaults \in Nat
  /\ Tries \in Nat \ {0}
  /\ Profiles \subseteq [rates : Seq(STRING), workloads : Seq(STRING), samples : Int]

VARIABLES
  kind,     \* the substrate
  plan,     \* what was asked for
  rig,      \* the executor: where it is, and the report so far
  jobs,     \* the goroutines of a mixed sample
  vms,      \* nodes, by the phase that made them; 0 if there is none
  chained,  \* nodes with natra in their conflist
  pods,     \* pods in the API server, with the shaper they were given
  ghosts,   \* pods deleted by force whose sandbox is still there
  reach,    \* pods that the client can reach
  cache,    \* bin/bpftool on the host
  faults    \* what the bound is about

made == <<vms, chained, pods, ghosts, reach>>
vars == <<kind, plan, rig, jobs, made, cache, faults>>

Nodes == {"server", "agent"}
Phases == <<"baseline", "vanilla", "natra">>
Workloads == {"iperfSweep", "mixed", "memory"}
Jobs == {"elephant", "podMice", "byMice"}

Phase == Phases[rig.phase]

----------------------------------------------------------------------------
(* Apply: a profile may narrow the specification, never widen it.          *)
Accepted(p) ==
  /\ ToSet(p.rates) \subseteq Rates /\ p.rates # <<>>
  /\ ToSet(p.workloads) \subseteq Workloads /\ p.workloads # <<>>
  /\ p.samples \in 1..Samples

(* runPhase, as it begins. *)
Begin(phase, epoch, phases) ==
  [at |-> "wipe", phase |-> phase, epoch |-> epoch, work |-> 1, rate |-> 1,
   sample |-> 1, n |-> 0, tries |-> 0, left |-> FALSE, works |-> <<>>, phases |-> phases,
   failed |-> FALSE]

Init ==
  /\ kind \in Substrates
  /\ plan \in Profiles
  /\ rig = [Begin(1, 0, <<>>) EXCEPT !.at = "start"]
  /\ jobs = [j \in Jobs |-> "idle"]
  /\ vms = [n \in Nodes |-> 0]
  /\ chained = {} /\ pods = {} /\ ghosts = {} /\ reach = {}
  /\ cache = "none"
  /\ faults = 0

Goto(to) == rig' = [rig EXCEPT !.at = to, !.tries = 0]
Fault == faults < MaxFaults /\ faults' = faults + 1

(* An error returns through runIperfSweep's deferred deletion, if it has   *)
(* come that far, and runPhase's deferred Down.                            *)
Deferred == {"ratesReady", "ratesPatch", "rateGate", "iperf"}

(* Mutants of Unwind: the error is lost on the way; Down is not deferred.  *)
UnwindSilently == [rig EXCEPT !.at = IF @ \in Deferred THEN "undo" ELSE "down"]
UnwindAtOnce == [rig EXCEPT !.at = "exit", !.failed = TRUE]

Unwind == [rig EXCEPT !.at = IF @ \in Deferred THEN "undo" ELSE "down",
                      !.failed = TRUE]

Start ==
  /\ rig.at = "start"
  /\ rig' = IF Accepted(plan) THEN Begin(1, rig.epoch + 1, <<>>)
                              ELSE [rig EXCEPT !.at = "exit", !.failed = TRUE]
  /\ UNCHANGED <<kind, plan, jobs, made, cache, faults>>

(* The process is interrupted; nothing deferred runs.  Then a new one.     *)
Interrupt ==
  /\ rig.at \notin {"start", "exit"}
  /\ Fault
  /\ rig' = [Begin(1, rig.epoch, <<>>) EXCEPT !.at = "start"]
  /\ jobs' = [j \in Jobs |-> "idle"]
  /\ UNCHANGED <<kind, plan, made, cache>>

----------------------------------------------------------------------------
(* The substrates.                                                         *)

Detached(S) == {[p EXCEPT !.by = "pending"] : p \in S}
Attached(S) == {p \in S : p.by # "pending"}

(* The nodes in gone are deleted, with what was on them. *)
Wipe(gone) ==
  /\ vms' = [n \in Nodes |-> IF n \in gone THEN 0 ELSE vms[n]]
  /\ chained' = chained \ gone
  /\ pods' = IF "server" \in gone THEN {}
             ELSE IF "agent" \in gone THEN Detached(pods) ELSE pods
  /\ ghosts' = IF "agent" \in gone THEN {}
               ELSE IF "server" \in gone THEN ghosts \union Attached(pods) ELSE ghosts
  /\ reach' = IF gone = {} THEN reach ELSE {}

(* Down: its errors are swallowed, by deleteCluster or by runPhase. *)
Deletes(gone) ==
  /\ Wipe(gone)
  /\ \/ gone = Nodes /\ UNCHANGED faults
     \/ gone # Nodes /\ Fault

Absent == \A n \in Nodes : vms[n] = 0

OpeningDown ==
  /\ rig.at = "wipe"
  /\ \E gone \in SUBSET Nodes : Deletes(gone)
  /\ Goto("up")
  /\ UNCHANGED <<kind, plan, jobs, cache>>

(* The end of a phase; after the last one, or an error, of the run: main   *)
(* writes the report only if there was no error.                           *)
ClosingDown ==
  /\ rig.at = "down"
  /\ \E gone \in SUBSET Nodes :
       /\ Deletes(gone)
       /\ \/ /\ rig.failed
             /\ rig' = [rig EXCEPT !.at = "exit", !.left = gone # Nodes]
          \/ /\ ~rig.failed /\ rig.phase = Len(Phases)
             /\ rig' = [rig EXCEPT !.at = "report", !.left = gone # Nodes,
                                   !.phases = Append(@, rig.works)]
          \/ /\ ~rig.failed /\ rig.phase < Len(Phases)
             /\ rig' = Begin(rig.phase + 1, rig.epoch + 1, Append(rig.phases, rig.works))
  /\ UNCHANGED <<kind, plan, jobs, cache>>

WriteReport ==
  /\ rig.at = "report"
  /\ \/ Goto("exit") /\ UNCHANGED faults
     \/ Fault /\ rig' = [rig EXCEPT !.at = "exit", !.failed = TRUE]
  /\ UNCHANGED <<kind, plan, jobs, made, cache>>

(* Mutant of UpK3d: takes a cluster that is there for its own. *)
UpReuses ==
  /\ rig.at = "up" /\ kind = "k3d"
  /\ vms' = [n \in Nodes |-> IF vms[n] = 0 THEN rig.epoch ELSE vms[n]]
  /\ Goto("import")
  /\ UNCHANGED <<kind, plan, jobs, chained, pods, ghosts, reach, cache, faults>>

(* k3dSubstrate.Up deletes once more; then "k3d cluster create" fails if   *)
(* anything of the cluster is left.  A later command may fail as well, and *)
(* the creation may never return (Creating).                               *)
UpK3d ==
  /\ rig.at = "up" /\ kind = "k3d"
  /\ \/ /\ vms' = [n \in Nodes |-> rig.epoch]
        /\ chained' = {} /\ pods' = {} /\ ghosts' = {} /\ reach' = {}
        /\ \/ Goto("import") /\ UNCHANGED faults
           \/ Fault /\ rig' = Unwind
     \/ /\ \E gone \in SUBSET Nodes :
             Deletes(gone) /\ \E n \in Nodes \ gone : vms[n] # 0
        /\ rig' = Unwind
  /\ UNCHANGED <<kind, plan, jobs, cache>>

(* cmdUp creates the VMs that it does not find and starts both.  An agent  *)
(* older than the server has the token of another, and never gets Ready.   *)
UpLima ==
  /\ rig.at = "up" /\ kind = "lima"
  /\ vms' = [n \in Nodes |-> IF vms[n] = 0 THEN rig.epoch ELSE vms[n]]
  /\ IF vms'["agent"] >= vms'["server"] THEN Goto("import") ELSE rig' = Unwind
  /\ UNCHANGED <<kind, plan, jobs, chained, pods, ghosts, reach, cache, faults>>

(* cmdUp gives up on the way, with the VMs that it has created by then. *)
UpHalf ==
  /\ rig.at = "up" /\ kind = "lima"
  /\ Fault
  /\ \E S \in {{}, {"server"}, Nodes} :
       vms' = [n \in Nodes |-> IF n \in S /\ vms[n] = 0 THEN rig.epoch ELSE vms[n]]
  /\ rig' = Unwind
  /\ UNCHANGED <<kind, plan, jobs, chained, pods, ghosts, reach, cache>>

ImportImage ==
  /\ rig.at = "import"
  /\ Goto(IF Phase = "natra" THEN "install" ELSE "stage")
  /\ UNCHANGED <<kind, plan, jobs, made, cache, faults>>

(* Returns when the DaemonSet has rolled out to both nodes, or gives up. *)
InstallNatra ==
  /\ rig.at = "install"
  /\ \/ chained' = Nodes /\ Goto("stage") /\ UNCHANGED faults
     \/ Fault /\ rig' = Unwind /\ \E S \in SUBSET Nodes : chained' = chained \union S
  /\ UNCHANGED <<kind, plan, jobs, vms, pods, ghosts, reach, cache>>

----------------------------------------------------------------------------
(* The cluster.                                                            *)

(* Mutant of Pod: the baseline keeps the annotations. *)
PodAnnotated(role, i) == [name |-> <<role, i>>, limit |-> TRUE, by |-> "pending"]

(* A pod with its annotations, which the baseline strips. *)
Pod(role, i) == [name |-> <<role, i>>, limit |-> Phase # "baseline", by |-> "pending"]

Plain(role) == [name |-> <<role, 0>>, limit |-> FALSE, by |-> "pending"]

(* kubectl apply: a pod that exists keeps the shaper it has. *)
Apply(new) ==
  /\ pods' = pods \union {p \in new : \A q \in pods : q.name # p.name}
  /\ UNCHANGED <<vms, chained, ghosts, reach>>

(* kubectl delete --grace-period=0 --force: the API server forgets the     *)
(* pods at once, and the kubelet takes down their sandboxes later.         *)
ForceDelete(roles) ==
  LET gone == {p \in pods : p.name[1] \in roles}
  IN  /\ pods' = pods \ gone
      /\ ghosts' = ghosts \union Attached(gone)
      /\ reach' = reach \ {p.name : p \in gone}
      /\ UNCHANGED <<vms, chained>>

(* patchVanillaTBF changes the tbf qdiscs that a node has in its root      *)
(* netns by now.  On k3d a pod's egress has one more, in the pod's netns,  *)
(* which keeps the huge burst of the kubelet: only its ingress gets 1 MB.  *)
Burst1m == IF kind = "k3d" THEN "tbfIngress1m" ELSE "tbf1m"

(* In the vanilla phase; the other phases have none to patch. *)
Patched(S) == {[p EXCEPT !.by = IF @ = "tbf" THEN Burst1m ELSE @] : p \in S}

PatchTBF(from, to) ==
  /\ rig.at = from
  /\ pods' = Patched(pods) /\ ghosts' = Patched(ghosts)
  /\ Goto(to)
  /\ UNCHANGED <<kind, plan, jobs, vms, chained, reach, cache, faults>>

(* external: the kubelet runs the CNI chain for a pod. *)
Admit ==
  \E p \in pods :
    /\ p.by = "pending" /\ \A n \in Nodes : vms[n] # 0
    /\ pods' = (pods \ {p}) \union
         {[p EXCEPT !.by = IF ~p.limit THEN "none"
                           ELSE IF "agent" \in chained THEN "natra" ELSE "tbf"]}
    /\ UNCHANGED <<kind, plan, rig, jobs, vms, chained, ghosts, reach, cache, faults>>

(* external: routes and service maps of the cluster catch up with a pod. *)
Route ==
  \E p \in Attached(pods) :
    /\ p.name \notin reach
    /\ reach' = reach \union {p.name}
    /\ UNCHANGED <<kind, plan, rig, jobs, vms, chained, pods, ghosts, cache, faults>>

(* external: the kubelet takes down the sandbox of a deleted pod. *)
Reap ==
  \E p \in ghosts :
    /\ ghosts' = ghosts \ {p}
    /\ UNCHANGED <<kind, plan, rig, jobs, vms, chained, pods, reach, cache, faults>>

(* external: a command of a goroutine ends. *)
Finish ==
  \E j \in Jobs :
    /\ jobs[j] = "running"
    /\ \/ jobs' = [jobs EXCEPT ![j] = "ok"] /\ UNCHANGED faults
       \/ jobs' = [jobs EXCEPT ![j] = "bad"] /\ Fault
    /\ UNCHANGED <<kind, plan, rig, made, cache>>

----------------------------------------------------------------------------
(* The executor's steps on the cluster.                                    *)

(* kubectl wait, which needs every pod of these roles to be Ready. *)
Await(from, roles, to) ==
  /\ rig.at = from
  /\ \A p \in pods : p.name[1] \in roles => p.by # "pending"
  /\ Goto(to)
  /\ UNCHANGED <<kind, plan, jobs, made, cache, faults>>

(* The polls: for the namespace's service account, and for the routes.     *)
Polling == {"stage", "gate", "rateGate"}

(* Mutant of Retry: the poll goes on until it succeeds. *)
RetryForever == rig.at \in Polling /\ UNCHANGED vars

(* A poll's attempt fails: another one after 2 s, while there are any.     *)
Retry ==
  /\ rig.at \in Polling /\ rig.tries < Tries
  /\ rig' = [rig EXCEPT !.tries = @ + 1]
  /\ UNCHANGED <<kind, plan, jobs, made, cache, faults>>

AwaitRoute(from, name, to) ==
  /\ rig.at = from /\ rig.tries < Tries
  /\ name \in reach
  /\ Goto(to)
  /\ UNCHANGED <<kind, plan, jobs, made, cache, faults>>

IfVanilla(yes, no) == IF Phase = "vanilla" THEN yes ELSE no

(* stagePhase. *)
ClearPods ==
  /\ rig.at = "stage" /\ rig.tries < Tries
  /\ \/ ForceDelete({"server", "client"}) /\ UNCHANGED faults
     \/ Fault /\ UNCHANGED made
  /\ Goto("deploy")
  /\ UNCHANGED <<kind, plan, jobs, cache>>

DeployStaged ==
  /\ rig.at = "deploy"
  /\ Apply({Pod("server", 0), Plain("client")})
  /\ Goto("ready")
  /\ UNCHANGED <<kind, plan, jobs, cache, faults>>

StagePhase ==
  \/ ClearPods
  \/ DeployStaged
  \/ Await("ready", {"server", "client"}, IfVanilla("patch", "gate"))
  \/ PatchTBF("patch", "gate")
  \/ AwaitRoute("gate", <<"server", 0>>, "next")

First == [iperfSweep |-> "rates", mixed |-> "bystander", memory |-> "bpftool"]

(* runPhase's loop over the workloads. *)
NextWorkload ==
  /\ rig.at = "next"
  /\ Goto(IF rig.work > Len(plan.workloads) THEN "down" ELSE First[plan.workloads[rig.work]])
  /\ UNCHANGED <<kind, plan, jobs, made, cache, faults>>

(* A workload returns its report. *)
Done == [rig EXCEPT !.at = "next", !.work = @ + 1, !.rate = 1, !.sample = 1, !.n = 0,
                    !.works = Append(@, [kind |-> plan.workloads[rig.work], n |-> rig.n])]

(* One sample is appended; then the next, or what comes after them.        *)
Sampled(again, after) ==
  [rig EXCEPT !.n = @ + 1,
              !.at = IF rig.sample < plan.samples THEN again ELSE after,
              !.sample = IF rig.sample < plan.samples THEN @ + 1 ELSE 1]

(* Mutant of DeployRate: one more than there are. *)
DeployRatePast ==
  /\ rig.at = "rates"
  /\ Apply({Pod("rate", rig.rate)})
  /\ rig' = IF rig.rate <= Len(plan.rates) THEN [rig EXCEPT !.rate = @ + 1]
            ELSE [rig EXCEPT !.at = "ratesReady", !.rate = 1]
  /\ UNCHANGED <<kind, plan, jobs, cache, faults>>

(* runIperfSweep: a pod per rate, a gate per rate, samples per rate.       *)
DeployRate ==
  /\ rig.at = "rates"
  /\ Apply({Pod("rate", rig.rate)})
  /\ rig' = IF rig.rate < Len(plan.rates) THEN [rig EXCEPT !.rate = @ + 1]
            ELSE [rig EXCEPT !.at = "ratesReady", !.rate = 1]
  /\ UNCHANGED <<kind, plan, jobs, cache, faults>>

MeasureRate ==
  /\ rig.at = "iperf"
  /\ LET one == Sampled("iperf", "undo")
     IN  rig' = IF one.at = "undo" /\ rig.rate < Len(plan.rates)
                THEN [one EXCEPT !.at = "rateGate", !.rate = @ + 1] ELSE one
  /\ UNCHANGED <<kind, plan, jobs, made, cache, faults>>

(* The deferred deletion, which may fail. *)
UndoRates ==
  /\ rig.at = "undo"
  /\ \/ ForceDelete({"rate"}) /\ UNCHANGED faults
     \/ Fault /\ UNCHANGED made
  /\ IF rig.failed THEN Goto("down") ELSE rig' = Done
  /\ UNCHANGED <<kind, plan, jobs, cache>>

RunIperfSweep ==
  \/ DeployRate
  \/ Await("ratesReady", {"rate"}, IfVanilla("ratesPatch", "rateGate"))
  \/ PatchTBF("ratesPatch", "rateGate")
  \/ AwaitRoute("rateGate", <<"rate", rig.rate>>, "iperf")
  \/ MeasureRate
  \/ UndoRates

(* runMixed: the elephant goes first, the two mice later. *)
DeployBystander ==
  /\ rig.at = "bystander"
  /\ Apply({Plain("bystander")})
  /\ Goto("byReady")
  /\ UNCHANGED <<kind, plan, jobs, cache, faults>>

Spawn(from, new, to) ==
  /\ rig.at = from
  /\ jobs' = [j \in Jobs |-> IF j \in new THEN "running" ELSE jobs[j]]
  /\ Goto(to)
  /\ UNCHANGED <<kind, plan, made, cache, faults>>

Ended(j) == jobs[j] \in {"ok", "bad"}

(* Mutant of Collect: a mouse that failed is reported at once. *)
CollectAtOnce ==
  /\ rig.at = "mice" /\ Ended("podMice") /\ Ended("byMice")
  /\ rig' = IF \E j \in Jobs : jobs[j] = "bad" THEN Unwind
            ELSE Sampled("elephant", "mixed")
  /\ UNCHANGED <<kind, plan, jobs, made, cache, faults>>

(* wg.Wait for the mice, the channel of the elephant, then the errors.     *)
Collect ==
  /\ rig.at = "mice" /\ \A j \in Jobs : Ended(j)
  /\ rig' = IF \E j \in Jobs : jobs[j] = "bad" THEN Unwind
            ELSE Sampled("elephant", "mixed")
  /\ jobs' = [j \in Jobs |-> "idle"]
  /\ UNCHANGED <<kind, plan, made, cache, faults>>

Return(from) ==
  /\ rig.at = from
  /\ rig' = Done
  /\ UNCHANGED <<kind, plan, jobs, made, cache, faults>>

RunMixed ==
  \/ DeployBystander
  \/ Await("byReady", {"bystander"}, "elephant")
  \/ Spawn("elephant", {"elephant"}, "lag")
  \/ Spawn("lag", {"podMice", "byMice"}, "mice")
  \/ Collect
  \/ Return("mixed")

(* EnsureBpftool: a file found in the cache is taken as it is, and fails   *)
(* at the verification if it was copied only in part.  A download is       *)
(* renamed into the cache, or copied if that is another device.            *)
EnsureBpftool ==
  /\ rig.at = "bpftool"
  /\ \/ (kind = "lima" \/ cache = "whole") /\ Goto("memory") /\ UNCHANGED cache
     \/ kind = "k3d" /\ cache = "torn" /\ rig' = Unwind /\ UNCHANGED cache
     \/ kind = "k3d" /\ cache = "none" /\ Goto("copy") /\ cache' \in {"none", "torn"}
  /\ UNCHANGED <<kind, plan, jobs, made, faults>>

CopyBpftool ==
  /\ rig.at = "copy"
  /\ cache' = "whole"
  /\ Goto("memory")
  /\ UNCHANGED <<kind, plan, jobs, made, faults>>

(* runMemory: a snapshot with one pod, a snapshot with all, and back.      *)
SnapshotOne ==
  /\ rig.at = "memory"
  /\ Goto("clones")
  /\ UNCHANGED <<kind, plan, jobs, made, cache, faults>>

DeployClones ==
  /\ rig.at = "clones"
  /\ Apply({Pod("clone", i) : i \in 2..NPods})
  /\ Goto("clonesReady")
  /\ UNCHANGED <<kind, plan, jobs, cache, faults>>

SnapshotAll ==
  /\ rig.at = "snapN"
  /\ Goto("scaleDown")
  /\ UNCHANGED <<kind, plan, jobs, made, cache, faults>>

ScaleDown ==
  /\ rig.at = "scaleDown"
  /\ ForceDelete({"clone"})
  /\ rig' = Sampled("memory", "measured")
  /\ UNCHANGED <<kind, plan, jobs, cache, faults>>

RunMemory ==
  \/ EnsureBpftool \/ CopyBpftool
  \/ SnapshotOne
  \/ DeployClones
  \/ Await("clonesReady", {"clone"}, IfVanilla("clonesPatch", "snapN"))
  \/ PatchTBF("clonesPatch", "snapN")
  \/ SnapshotAll
  \/ ScaleDown
  \/ Return("measured")

(* Commands whose error ends the phase, and kubectl waits, with --timeout. *)
Fallible == {"up", "import", "stage", "deploy", "patch", "rates", "ratesPatch", "iperf",
             "bystander", "bpftool", "copy", "memory", "clones", "clonesPatch", "snapN",
             "scaleDown"}
Timed == {"ready", "ratesReady", "byReady", "clonesReady"}

CommandFails ==
  /\ \/ rig.at \in Fallible /\ Fault
     \/ rig.at \in Timed /\ UNCHANGED faults
     \/ rig.at \in Polling /\ rig.tries = Tries /\ UNCHANGED faults
  /\ rig' = Unwind
  /\ UNCHANGED <<kind, plan, jobs, made, cache>>

RigStep ==
  \/ Start \/ OpeningDown \/ ClosingDown \/ WriteReport
  \/ UpK3d \/ UpLima \/ UpHalf \/ ImportImage \/ InstallNatra
  \/ StagePhase \/ NextWorkload
  \/ RunIperfSweep \/ RunMixed \/ RunMemory
  \/ Retry \/ CommandFails

Next == RigStep \/ Interrupt \/ Admit \/ Route \/ Reap \/ Finish

(* k3dSubstrate.Up, whose "k3d cluster create --wait" has no timeout and   *)
(* runs under a context that nothing cancels.                              *)
Creating == rig.at = "up" /\ kind = "k3d"

(* Every other command is assumed to return, with or without an error, and *)
(* so are those of the goroutines.  Of the cluster nothing is assumed: its *)
(* pods may never get Ready, nor its routes be there, nor its API answer   *)
(* to the creation.                                                        *)
Fairness == WF_vars(RigStep /\ ~Creating) /\ WF_vars(Finish)

Spec == Init /\ [][Next]_vars /\ Fairness

----------------------------------------------------------------------------
Shapers == {"pending", "none", "tbf", "tbfIngress1m", "tbf1m", "natra"}
Names == {"server", "client", "rate", "bystander", "clone"} \X Nat
PodType == [name : Names, limit : BOOLEAN, by : Shapers]

TypeOK ==
  /\ kind \in Substrates /\ plan \in Profiles
  /\ rig.phase \in 1..Len(Phases)
  /\ rig.at \notin {"start", "exit"} => rig.rate \in 1..Len(plan.rates)
  /\ rig.sample \in 1..Samples /\ rig.tries \in 0..Tries
  /\ jobs \in [Jobs -> {"idle", "running", "ok", "bad"}]
  /\ vms \in [Nodes -> 0..rig.epoch]
  /\ chained \subseteq {n \in Nodes : vms[n] # 0}
  /\ pods \subseteq PodType
  /\ \A p, q \in pods : p.name = q.name => p = q
  /\ ghosts \subseteq PodType /\ \A p \in ghosts : p.by # "pending"
  /\ reach \subseteq {p.name : p \in Attached(pods)}
  /\ cache \in {"none", "torn", "whole"}
  /\ faults \in 0..MaxFaults

Targets ==
  IF rig.at = "iperf" THEN {<<"rate", rig.rate>>}
  ELSE IF rig.at = "snapN" THEN {<<"server", 0>>} \union {<<"clone", i>> : i \in 2..NPods}
  ELSE IF rig.at \in {"lag", "mice", "memory"} THEN {<<"server", 0>>}
  ELSE {}

Wanted == [baseline |-> "none", vanilla |-> Burst1m, natra |-> "natra"][Phase]

Fresh == \A n \in Nodes : vms[n] = rig.epoch

(* What is measured in a phase is what the phase is named for: the pods    *)
(* that a sample is about have that phase's shaper, and in the vanilla     *)
(* phase every burst that can be patched from the node is: both directions *)
(* on lima; on k3d only the ingress, so that an egress sample there still  *)
(* has the kubelet's burst.  The flows of a throughput sample have been    *)
(* seen to arrive; and the cluster was made for this phase, always on k3d, *)
(* and on lima when the VMs were deleted before it.                        *)
SamplesFitThePhase ==
  Targets # {} /\ (kind = "k3d" \/ Fresh) =>
    /\ Fresh
    /\ \A t \in Targets : \E p \in pods : p.name = t /\ p.by = Wanted
    /\ rig.at \in {"iperf", "lag", "mice"} => Targets \subseteq reach

(* A mixed sample is over when its three goroutines are: none of them      *)
(* still loads the pods while anything else is measured or torn down.      *)
NothingRunsOn ==
  rig.at \notin {"lag", "mice"} => \A j \in Jobs : jobs[j] # "running"

Expected(w) == [kind |-> w, n |-> plan.samples * IF w = "iperfSweep" THEN Len(plan.rates) ELSE 1]

(* A run that succeeds reports every sample of every workload of every     *)
(* phase, in their order: no error on the way is lost.                     *)
ReportIsWhole ==
  rig.at = "exit" /\ ~rig.failed =>
    rig.phases = [i \in 1..Len(Phases) |->
                    [w \in 1..Len(plan.workloads) |-> Expected(plan.workloads[w])]]

(* When the executor returns, after an error too, no node is left behind,  *)
(* unless the last Down could not delete it.                               *)
LeavesNoCluster == rig.at = "exit" => Absent \/ rig.left

(* The run comes to an end, whatever fails or never gets ready, however    *)
(* often the polls are made in vain, unless it hangs for good in "k3d      *)
(* cluster create --wait".                                                 *)
RigEnds == <>(rig.at = "exit") \/ <>[]Creating

=============================================================================
