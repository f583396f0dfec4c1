---------------------------- MODULE PerfRigProofs ----------------------------
(***************************************************************************)
(* The safety of the benchmark, for any plan, any substrate and any number *)
(* of failed commands and interruptions: what is measured is what the      *)
(* phase is named for, nothing is left running, the report is whole, and   *)
(* no cluster stays behind.                                                *)
(***************************************************************************)
EXTENDS PerfRig, SequenceTheorems, TLAPS

(* Where the executor can be: the phase is set up, its workloads run.      *)
Sweep == {"rates", "ratesReady", "ratesPatch", "rateGate", "iperf"}
Mixed == {"bystander", "byReady", "elephant", "lag", "mice", "mixed"}
Memory == {"bpftool", "copy", "memory", "clones", "clonesReady", "clonesPatch", "snapN",
           "scaleDown", "measured"}
Working == Sweep \union Mixed \union Memory \union {"undo"}
Staging == {"stage", "deploy", "ready", "patch", "gate"}
Standing == {"import", "install"} \union Staging \union {"next"} \union Working
Control == {"start", "wipe", "up", "down", "report", "exit"} \union Standing

Over == {"start", "exit"}

(* The executor's own state.                                               *)
Entry == [kind : Workloads, n : Nat]

Rig == [at : Control, phase : 1..3, epoch : Nat, work : Nat, rate : Nat, sample : 1..Samples,
        n : Nat, tries : 0..Tries, left : BOOLEAN, works : Seq(Entry), phases : Seq(Seq(Entry)), failed : BOOLEAN]

(* The counters of the loops, and what they say of the samples taken. *)
Counters ==
  rig.at \notin Over =>
    /\ Accepted(plan)
    /\ rig.rate \in 1..Len(plan.rates) /\ rig.sample \in 1..plan.samples

Counted ==
  ~rig.failed =>
    /\ rig.at \notin Working \union {"exit"} => rig.rate = 1 /\ rig.sample = 1 /\ rig.n = 0
    /\ rig.at = "rates" => rig.sample = 1 /\ rig.n = 0
    /\ rig.at \in {"ratesReady", "ratesPatch"} => rig.rate = 1 /\ rig.sample = 1 /\ rig.n = 0
    /\ rig.at = "rateGate" => rig.sample = 1
    /\ rig.at \in {"rateGate", "iperf"} =>
         rig.n = plan.samples * (rig.rate - 1) + (rig.sample - 1)
    /\ rig.at = "undo" => rig.n = plan.samples * Len(plan.rates)
    /\ rig.at \in (Mixed \union Memory) \ {"mixed", "measured"} => rig.n = rig.sample - 1
    /\ rig.at \in {"mixed", "measured"} => rig.n = plan.samples

(* The workload at hand. *)
InTurn ==
  ~rig.failed =>
    /\ rig.at \in (Control \ Working) \ {"next", "down", "report", "exit"} => rig.work = 1
    /\ rig.at \in Working => rig.work \in 1..Len(plan.workloads)
    /\ rig.at \in Sweep \union {"undo"} => plan.workloads[rig.work] = "iperfSweep"
    /\ rig.at \in Mixed => plan.workloads[rig.work] = "mixed"
    /\ rig.at \in Memory => plan.workloads[rig.work] = "memory"
    /\ rig.at = "next" => rig.work \in 1..(Len(plan.workloads) + 1)
    /\ rig.at = "down" => rig.work = Len(plan.workloads) + 1

(* The report so far: of this phase, and of those before it. *)
IsWhole(works) ==
  /\ Len(works) = Len(plan.workloads)
  /\ \A i \in 1..Len(works) : works[i] = Expected(plan.workloads[i])

Reported ==
  ~rig.failed =>
    /\ rig.at \notin {"report", "exit"} =>
         /\ Len(rig.works) = rig.work - 1
         /\ \A i \in 1..Len(rig.works) : rig.works[i] = Expected(plan.workloads[i])
         /\ Len(rig.phases) = rig.phase - 1
    /\ rig.at \in {"report", "exit"} => Len(rig.phases) = 3
    /\ \A i \in 1..Len(rig.phases) : IsWhole(rig.phases[i])

Failing == rig.failed => rig.at \in {"undo", "down", "exit"}

JobsAtRest ==
  /\ jobs \in [Jobs -> {"idle", "running", "ok", "bad"}]
  /\ rig.at \notin {"lag", "mice"} => \A j \in Jobs : jobs[j] = "idle"

RigInv ==
  /\ kind \in Substrates /\ plan \in Profiles /\ rig \in Rig
  /\ Counters /\ Counted /\ InTurn /\ Reported /\ Failing /\ JobsAtRest
  /\ cache \in {"none", "torn", "whole"} /\ faults \in 0..MaxFaults

----------------------------------------------------------------------------
(* The cluster.                                                            *)

(* What a node took with it is gone. *)
Consistent ==
  /\ vms \in [Nodes -> Nat]
  /\ chained \subseteq {n \in Nodes : vms[n] # 0}
  /\ pods \subseteq PodType
  /\ \A p, q \in pods : p.name = q.name => p = q
  /\ ghosts \subseteq PodType /\ \A p \in ghosts : p.by # "pending"
  /\ reach \subseteq {p.name : p \in Attached(pods)}
  /\ vms["server"] = 0 => pods = {}
  /\ vms["agent"] = 0 => ghosts = {} /\ \A p \in pods : p.by = "pending"

(* The nodes of an earlier phase are older than what this one makes. *)
Aged ==
  /\ \A n \in Nodes : vms[n] <= rig.epoch
  /\ rig.at \in {"wipe", "up"} => \A n \in Nodes : vms[n] < rig.epoch
  /\ rig.at \in Standing => \A n \in Nodes : vms[n] # 0
  /\ rig.at \in Standing /\ kind = "k3d" => Fresh

(* No node is left behind but by a Down that failed. *)
Leaves ==
  /\ rig.at \in {"report", "exit"} => Absent \/ rig.left
  /\ ~Accepted(plan) => Absent /\ rig.at \in Over

(* Where the pods of each kind are there, are admitted, and are patched.   *)
ServerIsUp == Standing \ {"import", "install", "stage", "deploy"}
ServerIsIn == ServerIsUp \ {"ready"}
ServerIsSet == ServerIsIn \ {"patch"}
RatesAreUp == Sweep \ {"rates"}
RatesAreIn == RatesAreUp \ {"ratesReady"}
RatesAreSet == RatesAreIn \ {"ratesPatch"}

There(name) == \E p \in pods : p.name = name
In(name) == \E p \in pods : p.name = name /\ p.by # "pending"
Set(name) == \E p \in pods : p.name = name /\ p.by = Wanted

Clones == {<<"clone", i>> : i \in 2..NPods}
RatePods == {<<"rate", i>> : i \in 1..Len(plan.rates)}

(* The pods of a cluster that was made for this phase have the limits and  *)
(* the shaper of the phase, as far as the executor has brought them.       *)
Shaped(p) ==
  /\ p.limit = (p.name[1] \in {"server", "rate", "clone"} /\ Phase # "baseline")
  /\ p.by \in IF ~p.limit THEN {"pending", "none"}
              ELSE IF Phase = "natra" THEN {"pending", "natra"} ELSE {"pending", "tbf", Burst1m}

ShapesFit ==
  /\ Phase # "natra" => chained = {}
  /\ Phase = "natra" /\ rig.at \notin {"import", "install"} => chained = Nodes
  /\ rig.at \in {"import", "install", "stage", "deploy"} => pods = {}
  /\ \A p \in pods : Shaped(p)
  /\ rig.at \in {"patch", "ratesPatch", "clonesPatch"} => Phase = "vanilla"
  /\ rig.at = "install" => Phase = "natra"

ServerFits ==
  /\ rig.at \in ServerIsUp => There(<<"server", 0>>)
  /\ rig.at \in ServerIsIn => In(<<"server", 0>>)
  /\ rig.at \in ServerIsSet => Set(<<"server", 0>>)
  /\ rig.at \in ServerIsSet \ {"gate"} => <<"server", 0>> \in reach

RatesFit ==
  /\ rig.at = "rates" => \A i \in 1..(rig.rate - 1) : There(<<"rate", i>>)
  /\ rig.at \in RatesAreUp => \A t \in RatePods : There(t)
  /\ rig.at \in RatesAreIn => \A t \in RatePods : In(t)
  /\ rig.at \in RatesAreSet => \A t \in RatePods : Set(t)
  /\ rig.at = "iperf" => <<"rate", rig.rate>> \in reach

ClonesFit ==
  /\ rig.at \in {"clonesReady", "clonesPatch", "snapN"} => \A t \in Clones : There(t)
  /\ rig.at \in {"clonesPatch", "snapN"} => \A t \in Clones : In(t)
  /\ rig.at = "snapN" => \A t \in Clones : Set(t)

StagedInv ==
  rig.at \in Standing /\ Fresh => ShapesFit /\ ServerFits /\ RatesFit /\ ClonesFit

IInv == RigInv /\ Consistent /\ Aged /\ Leaves /\ StagedInv

----------------------------------------------------------------------------
(* The executor's steps.                                                   *)

(* The steps that only go on. *)
Edges ==
  {<<"wipe", "up">>, <<"up", "import">>, <<"import", "install">>, <<"import", "stage">>,
   <<"install", "stage">>, <<"stage", "deploy">>, <<"deploy", "ready">>, <<"ready", "patch">>,
   <<"ready", "gate">>, <<"patch", "gate">>, <<"gate", "next">>, <<"ratesReady", "ratesPatch">>,
   <<"ratesReady", "rateGate">>, <<"ratesPatch", "rateGate">>, <<"rateGate", "iperf">>,
   <<"bystander", "byReady">>, <<"byReady", "elephant">>, <<"elephant", "lag">>, <<"lag", "mice">>,
   <<"bpftool", "memory">>, <<"bpftool", "copy">>, <<"copy", "memory">>, <<"memory", "clones">>,
   <<"clones", "clonesReady">>, <<"clonesReady", "clonesPatch">>, <<"clonesReady", "snapN">>,
   <<"clonesPatch", "snapN">>, <<"snapN", "scaleDown">>}

(* The part of RigInv that is about the program, and what it asks of jobs. *)
ProgramInv == rig \in Rig /\ Counters /\ Counted /\ InTurn /\ Reported /\ Failing

LEMMA Places ==
  /\ Control = {"start", "wipe", "up", "down", "report", "exit", "import", "install", "stage",
       "deploy", "ready", "patch", "gate", "next", "rates", "ratesReady", "ratesPatch", "rateGate",
       "iperf", "bystander", "byReady", "elephant", "lag", "mice", "mixed", "bpftool", "copy",
       "memory", "clones", "clonesReady", "clonesPatch", "snapN", "scaleDown", "measured", "undo"}
  /\ Standing \subseteq Control /\ Working \subseteq Standing
BY DEF Control, Standing, Staging, Working, Sweep, Mixed, Memory

LEMMA PlanIs ==
  ASSUME plan \in Profiles
  PROVE  /\ plan.rates \in Seq(STRING) /\ plan.workloads \in Seq(STRING) /\ plan.samples \in Int
         /\ Len(plan.rates) \in Nat /\ Len(plan.workloads) \in Nat
         /\ Accepted(plan) =>
              /\ Len(plan.rates) > 0 /\ Len(plan.workloads) > 0
              /\ plan.samples \in Nat /\ plan.samples > 0 /\ plan.samples <= Samples
              /\ \A w \in 1..Len(plan.workloads) : plan.workloads[w] \in Workloads
<1>1. /\ plan.rates \in Seq(STRING) /\ plan.workloads \in Seq(STRING) /\ plan.samples \in Int
  BY RigAssumption
<1>2. Len(plan.rates) \in Nat /\ Len(plan.workloads) \in Nat
  BY <1>1
<1>3. ASSUME Accepted(plan)
      PROVE  /\ Len(plan.rates) > 0 /\ Len(plan.workloads) > 0
             /\ plan.samples \in Nat /\ plan.samples > 0 /\ plan.samples <= Samples
             /\ \A w \in 1..Len(plan.workloads) : plan.workloads[w] \in Workloads
  BY <1>1, <1>2, <1>3, RigAssumption DEF Accepted, ToSet
<1> QED
  BY <1>1, <1>2, <1>3

LEMMA RigFields ==
  ASSUME rig \in Rig
  PROVE  /\ rig.at \in Control /\ rig.phase \in 1..3 /\ rig.epoch \in Nat /\ rig.work \in Nat
         /\ rig.rate \in Nat /\ rig.sample \in 1..Samples /\ rig.n \in Nat
         /\ rig.tries \in 0..Tries /\ rig.left \in BOOLEAN /\ rig.failed \in BOOLEAN
         /\ rig.works \in Seq(Entry) /\ rig.phases \in Seq(Seq(Entry))
         /\ Len(rig.works) \in Nat /\ Len(rig.phases) \in Nat
BY DEF Rig

LEMMA NoTries == 0 \in 0..Tries
BY RigAssumption

(* A step that only goes on. *)
LEMMA GoesOn ==
  ASSUME RigInv, plan' = plan, NEW to, rig' = [rig EXCEPT !.at = to, !.tries = 0],
         <<rig.at, to>> \in Edges
  PROVE  ProgramInv'
<1>1. /\ rig' \in Rig /\ rig'.at = to /\ rig'.work = rig.work /\ rig'.rate = rig.rate
      /\ rig'.sample = rig.sample /\ rig'.n = rig.n /\ rig'.phase = rig.phase
      /\ rig'.works = rig.works /\ rig'.phases = rig.phases /\ rig'.failed = rig.failed
  BY NoTries DEF RigInv, Rig, Edges, Control, Standing, Staging, Working, Sweep, Mixed, Memory
<1>2. ~rig.failed /\ rig.failed \in BOOLEAN
  BY RigFields DEF RigInv, Failing, Edges
<1>3. rig.at \notin Over /\ to \notin Over
  BY DEF Edges, Over
<1>4. Counters'
  BY <1>1, <1>3 DEF RigInv, Counters, Accepted
<1>5. Failing'
  BY <1>1, <1>2 DEF Failing
<1>6. /\ rig.at \in Working <=> to \in Working
      /\ (rig.at \in Sweep <=> to \in Sweep)
      /\ (rig.at \in Mixed <=> to \in Mixed)
      /\ (rig.at \in Memory <=> to \in Memory)
      /\ {rig.at, to} \subseteq Control
      /\ rig.at # "rates" /\ to # "rates" /\ rig.at # "iperf"
      /\ rig.at \notin {"undo", "mixed", "measured", "down", "report", "exit"}
      /\ to \notin {"undo", "mixed", "measured", "down", "report", "exit"}
      /\ rig.at # "next"
  BY DEF Edges, Control, Standing, Staging, Working, Sweep, Mixed, Memory
<1>7. to = "iperf" <=> rig.at = "rateGate"
  BY DEF Edges
<1>8. to = "rateGate" <=> rig.at \in {"ratesReady", "ratesPatch"} /\ to # "ratesPatch"
  BY DEF Edges
<1>9. to = "ratesPatch" => rig.at = "ratesReady"
  BY DEF Edges
<1>10. to # "ratesReady"
  BY DEF Edges
<1>11. Counted'
  <2>1. rig.rate = 1 /\ rig.sample = 1 /\ rig.n = 0 =>
          rig.n = plan.samples * (rig.rate - 1) + (rig.sample - 1)
    BY PlanIs DEF RigInv
  <2> QED
    BY <1>1, <1>2, <1>6, <1>7, <1>8, <1>9, <1>10, <2>1 DEF RigInv, Counted
<1>12. InTurn'
  <2>1. rig.work \in Nat /\ Len(plan.workloads) \in Nat
    BY PlanIs, RigFields DEF RigInv
  <2> QED
    BY <1>1, <1>2, <1>6, <2>1 DEF RigInv, InTurn
<1>13. Reported'
  BY <1>1, <1>2, <1>6 DEF RigInv, Reported, IsWhole, Expected
<1> QED
  BY <1>1, <1>4, <1>5, <1>11, <1>12, <1>13 DEF ProgramInv

(* An error, at whatever point of a phase. *)
LEMMA GivesUp ==
  ASSUME RigInv, plan' = plan, rig' = Unwind, rig.at \in Control \ Over
  PROVE  ProgramInv'
<1> DEFINE to == IF rig.at \in Deferred THEN "undo" ELSE "down"
<1>1. /\ rig' \in Rig /\ rig'.at = to /\ rig'.rate = rig.rate /\ rig'.sample = rig.sample
      /\ rig'.failed = TRUE
  BY Places DEF RigInv, Rig, Unwind
<1>2. to \in {"undo", "down"}
  OBVIOUS
<1> HIDE DEF to
<1>3. Counters'
  BY <1>1, <1>2 DEF RigInv, Counters, Accepted, Over
<1>4. Failing'
  BY <1>1, <1>2 DEF Failing
<1> QED
  BY <1>1, <1>3, <1>4 DEF ProgramInv, Counted, InTurn, Reported

(* A phase begins, with all its counters at the first. *)
LEMMA BeginsAPhase ==
  ASSUME RigInv, plan' = plan, Accepted(plan),
         NEW phase \in 1..3, NEW epoch \in Nat, NEW phases \in Seq(Seq(Entry)),
         Len(phases) = phase - 1, \A i \in 1..Len(phases) : IsWhole(phases[i]),
         rig' = Begin(phase, epoch, phases)
  PROVE  ProgramInv'
<1>1. <<>> \in Seq(Entry) /\ Len(<<>>) = 0
  OBVIOUS
<1>2. /\ rig' \in Rig /\ rig'.at = "wipe" /\ rig'.rate = 1 /\ rig'.sample = 1 /\ rig'.n = 0
      /\ rig'.work = 1 /\ rig'.works = <<>> /\ rig'.phases = phases /\ rig'.phase = phase
      /\ rig'.failed = FALSE
  BY <1>1, Places, NoTries, RigAssumption DEF Begin, Rig
<1>3. Counters'
  BY <1>2, PlanIs DEF RigInv, Counters, Accepted
<1>4. Counted'
  BY <1>2 DEF Counted, Working, Sweep, Mixed, Memory
<1>5. InTurn'
  BY <1>2 DEF InTurn, Working, Sweep, Mixed, Memory
<1>6. Reported'
  BY <1>1, <1>2 DEF Reported, IsWhole, Expected
<1> QED
  BY <1>2, <1>3, <1>4, <1>5, <1>6 DEF ProgramInv, Failing

LEMMA StartKeeps ==
  ASSUME RigInv, Start PROVE ProgramInv'
<1>1. /\ rig.at = "start" /\ plan' = plan /\ rig.epoch \in Nat
      /\ IF Accepted(plan) THEN rig' = Begin(1, rig.epoch + 1, <<>>)
                           ELSE rig' = [rig EXCEPT !.at = "exit", !.failed = TRUE]
  BY RigFields DEF Start, RigInv
<1>2. CASE Accepted(plan)
  <2>1. <<>> \in Seq(Seq(Entry)) /\ Len(<<>>) = 1 - 1 /\ 1..Len(<<>>) = {}
    OBVIOUS
  <2>2. rig.epoch + 1 \in Nat /\ 1 \in 1..3
    BY <1>1
  <2>3. rig' = Begin(1, rig.epoch + 1, <<>>)
    BY <1>1, <1>2
  <2> QED
    BY <1>1, <1>2, <2>1, <2>2, <2>3, BeginsAPhase
<1>3. CASE ~Accepted(plan)
  <2>0. rig' = [rig EXCEPT !.at = "exit", !.failed = TRUE]
    BY <1>1, <1>3
  <2>1. rig' \in Rig /\ rig'.at = "exit" /\ rig'.failed = TRUE
    BY <2>0, Places DEF RigInv, Rig
  <2> QED
    BY <2>1 DEF ProgramInv, Counters, Counted, InTurn, Reported, Failing, Over
<1> QED
  BY <1>2, <1>3

LEMMA InterruptKeeps ==
  ASSUME RigInv, Interrupt PROVE ProgramInv'
<1>1. PICK epoch \in Nat : rig' = [Begin(1, epoch, <<>>) EXCEPT !.at = "start"]
  BY RigFields DEF Interrupt, RigInv
<1>2. <<>> \in Seq(Entry) /\ <<>> \in Seq(Seq(Entry)) /\ Len(<<>>) = 0
  OBVIOUS
<1>3. /\ rig' \in Rig /\ rig'.at = "start" /\ rig'.rate = 1 /\ rig'.sample = 1 /\ rig'.n = 0
      /\ rig'.work = 1 /\ rig'.works = <<>> /\ rig'.phases = <<>> /\ rig'.phase = 1
      /\ rig'.failed = FALSE
  <2> DEFINE b == Begin(1, epoch, <<>>)
  <2>1. /\ b \in Rig /\ b.rate = 1 /\ b.sample = 1 /\ b.n = 0 /\ b.work = 1
        /\ b.works = <<>> /\ b.phases = <<>> /\ b.phase = 1 /\ b.failed = FALSE
    BY <1>2, Places, NoTries, RigAssumption DEF Begin, Rig
  <2> HIDE DEF b
  <2> QED
    BY <1>1, <2>1, Places DEF Rig, b
<1> QED
  BY <1>2, <1>3 DEF ProgramInv, Counters, Counted, InTurn, Reported, Failing, Over,
     Working, Sweep, Mixed, Memory

LEMMA ClosingKeeps ==
  ASSUME RigInv, ClosingDown PROVE ProgramInv'
<1> DEFINE all == Append(rig.phases, rig.works)
<1>1. /\ rig.at = "down" /\ plan' = plan /\ Accepted(plan)
      /\ rig.epoch \in Nat /\ rig.phase \in 1..3 /\ rig.failed \in BOOLEAN
      /\ rig.works \in Seq(Entry) /\ rig.phases \in Seq(Seq(Entry))
  BY RigFields DEF ClosingDown, RigInv, Counters, Over
<1>2. ASSUME ~rig.failed
      PROVE  /\ all \in Seq(Seq(Entry)) /\ Len(all) = rig.phase
             /\ \A i \in 1..Len(all) : IsWhole(all[i])
  <2>1. /\ Len(rig.works) = rig.work - 1 /\ Len(rig.phases) = rig.phase - 1
        /\ rig.work = Len(plan.workloads) + 1
        /\ \A i \in 1..Len(rig.works) : rig.works[i] = Expected(plan.workloads[i])
        /\ \A i \in 1..Len(rig.phases) : IsWhole(rig.phases[i])
    BY <1>1, <1>2 DEF RigInv, Reported, InTurn
  <2>2. IsWhole(rig.works)
    BY <1>1, <2>1, PlanIs DEF IsWhole, RigInv
  <2>3. all \in Seq(Seq(Entry)) /\ Len(all) = rig.phase
    BY <1>1, <2>1
  <2>4. \A i \in 1..Len(all) : all[i] = IF i = rig.phase THEN rig.works ELSE rig.phases[i]
    BY <1>1, <2>1
  <2> QED
    BY <1>1, <2>1, <2>2, <2>3, <2>4
<1>3. \/ /\ rig.failed
         /\ \E l \in BOOLEAN : rig' = [rig EXCEPT !.at = "exit", !.left = l]
      \/ /\ ~rig.failed /\ rig.phase = 3
         /\ \E l \in BOOLEAN : rig' = [rig EXCEPT !.at = "report", !.left = l, !.phases = all]
      \/ ~rig.failed /\ rig.phase < 3 /\ rig' = Begin(rig.phase + 1, rig.epoch + 1, all)
  <2>1. Len(Phases) = 3
    BY DEF Phases
  <2>2. \A gone : (gone # Nodes) \in BOOLEAN
    OBVIOUS
  <2> QED
    BY <2>1, <2>2, Zenon DEF ClosingDown
<1> HIDE DEF all
<1>4. ASSUME rig.failed, NEW l \in BOOLEAN, rig' = [rig EXCEPT !.at = "exit", !.left = l]
      PROVE  ProgramInv'
  <2>1. rig' \in Rig /\ rig'.at = "exit" /\ rig'.failed
    BY <1>1, <1>4, Places DEF RigInv, Rig
  <2> QED
    BY <2>1 DEF ProgramInv, Counters, Counted, InTurn, Reported, Failing, Over
<1>5. ASSUME ~rig.failed, rig.phase = 3, NEW l \in BOOLEAN,
             rig' = [rig EXCEPT !.at = "report", !.left = l, !.phases = all]
      PROVE  ProgramInv'
  <2>1. /\ rig' \in Rig /\ rig'.at = "report" /\ rig'.rate = rig.rate
        /\ rig'.sample = rig.sample /\ rig'.n = rig.n /\ rig'.work = rig.work
        /\ rig'.phases = all /\ rig'.failed = FALSE
    BY <1>1, <1>2, <1>5, Places DEF RigInv, Rig
  <2>2. Counters'
    BY <1>1, <2>1 DEF RigInv, Counters, Accepted, Over
  <2>3. Counted'
    BY <1>1, <1>5, <2>1 DEF RigInv, Counted, Working, Sweep, Mixed, Memory
  <2>4. InTurn'
    BY <2>1 DEF InTurn, Working, Sweep, Mixed, Memory
  <2>5. Reported'
    BY <1>1, <1>2, <1>5, <2>1 DEF Reported, IsWhole, Expected
  <2> QED
    BY <2>1, <2>2, <2>3, <2>4, <2>5 DEF ProgramInv, Failing
<1>6. ASSUME ~rig.failed, rig.phase < 3, rig' = Begin(rig.phase + 1, rig.epoch + 1, all)
      PROVE  ProgramInv'
  <2>1. rig.phase + 1 \in 1..3 /\ rig.epoch + 1 \in Nat
    BY <1>1, <1>6
  <2> QED
    BY <1>1, <1>2, <1>6, <2>1, BeginsAPhase
<1> QED
  BY <1>3, <1>4, <1>5, <1>6

LEMMA WriteReportKeeps ==
  ASSUME RigInv, WriteReport PROVE ProgramInv'
<1>1. /\ rig.at = "report" /\ plan' = plan /\ rig.failed \in BOOLEAN
      /\ \/ rig' = [rig EXCEPT !.at = "exit", !.tries = 0]
         \/ rig' = [rig EXCEPT !.at = "exit", !.failed = TRUE]
  BY RigFields DEF WriteReport, RigInv, Goto
<1>2. /\ rig' \in Rig /\ rig'.at = "exit" /\ rig'.phases = rig.phases
      /\ rig'.failed = rig.failed \/ rig'.failed = TRUE
  <2>1. CASE rig' = [rig EXCEPT !.at = "exit", !.tries = 0]
    BY <2>1, Places, NoTries DEF RigInv, Rig
  <2>2. CASE rig' = [rig EXCEPT !.at = "exit", !.failed = TRUE]
    BY <2>2, Places DEF RigInv, Rig
  <2> QED
    BY <1>1, <2>1, <2>2
<1>3. Reported'
  BY <1>1, <1>2 DEF RigInv, Reported, IsWhole, Expected
<1> QED
  BY <1>2, <1>3 DEF ProgramInv, Counters, Counted, InTurn, Failing, Over,
     Working, Sweep, Mixed, Memory

(* A workload begins, or there is none left. *)
LEMMA NextWorkloadKeeps ==
  ASSUME RigInv, NextWorkload PROVE ProgramInv'
<1> DEFINE to == IF rig.work > Len(plan.workloads) THEN "down"
                 ELSE First[plan.workloads[rig.work]]
<1>1. /\ rig.at = "next" /\ plan' = plan /\ Accepted(plan)
      /\ rig' = [rig EXCEPT !.at = to, !.tries = 0]
      /\ ~rig.failed /\ rig.work \in 1..(Len(plan.workloads) + 1) /\ Len(plan.workloads) \in Nat
      /\ rig.work \in Nat
  BY RigFields, PlanIs DEF NextWorkload, RigInv, Counters, Over, Failing, InTurn, Goto
<1>2. \/ rig.work = Len(plan.workloads) + 1 /\ to = "down"
      \/ /\ rig.work \in 1..Len(plan.workloads)
         /\ \/ plan.workloads[rig.work] = "iperfSweep" /\ to = "rates"
            \/ plan.workloads[rig.work] = "mixed" /\ to = "bystander"
            \/ plan.workloads[rig.work] = "memory" /\ to = "bpftool"
  <2>1. rig.work \in 1..Len(plan.workloads) => plan.workloads[rig.work] \in Workloads
    BY <1>1, PlanIs DEF RigInv
  <2> QED
    BY <1>1, <2>1 DEF First, Workloads
<1> HIDE DEF to
<1>3. /\ rig' \in Rig /\ rig'.at = to /\ rig'.work = rig.work /\ rig'.rate = rig.rate
      /\ rig'.sample = rig.sample /\ rig'.n = rig.n /\ rig'.phase = rig.phase
      /\ rig'.works = rig.works /\ rig'.phases = rig.phases /\ rig'.failed = rig.failed
  BY <1>1, <1>2, Places, NoTries DEF RigInv, Rig
<1>4. Counters'
  BY <1>1, <1>2, <1>3 DEF RigInv, Counters, Over, Accepted
<1>5. rig.rate = 1 /\ rig.sample = 1 /\ rig.n = 0
  BY <1>1 DEF RigInv, Counted, Working, Sweep, Mixed, Memory
<1>6. Counted'
  BY <1>2, <1>3, <1>5 DEF Counted, Working, Sweep, Mixed, Memory
<1>7. InTurn'
  BY <1>1, <1>2, <1>3 DEF InTurn, Control, Standing, Staging, Working, Sweep, Mixed, Memory
<1>8. Reported'
  BY <1>1, <1>2, <1>3 DEF RigInv, Reported, IsWhole, Expected
<1> QED
  BY <1>1, <1>3, <1>4, <1>6, <1>7, <1>8 DEF ProgramInv, Failing

(* The counters of a step within a workload. *)
Moved(to, rate, sample, n) ==
  [rig EXCEPT !.at = to, !.rate = rate, !.sample = sample, !.n = n]

(* A step within a workload: it stays the same one, and nothing of the     *)
(* report changes.                                                         *)
LEMMA StaysAtWork ==
  ASSUME RigInv, plan' = plan, NEW to \in Working, NEW rate \in 1..Len(plan.rates),
         NEW sample \in 1..plan.samples, NEW n \in Nat, rig.at \in Working, ~rig.failed,
         rig' = Moved(to, rate, sample, n),
         rig.at \in Sweep => to \in Sweep \union {"undo"},
         rig.at \in Mixed => to \in Mixed,
         rig.at \in Memory => to \in Memory,
         rig.at # "undo", Counted'
  PROVE  ProgramInv'
<1>1. rate \in Nat /\ sample \in 1..Samples /\ Accepted(plan)
  <2>1. rig.at \notin Over
    BY DEF Working, Sweep, Mixed, Memory, Over
  <2> QED
    BY <2>1, PlanIs, RigAssumption DEF RigInv, Counters
<1>2. /\ rig' \in Rig /\ rig'.at = to /\ rig'.work = rig.work /\ rig'.rate = rate
      /\ rig'.sample = sample /\ rig'.n = n /\ rig'.phase = rig.phase
      /\ rig'.works = rig.works /\ rig'.phases = rig.phases /\ rig'.failed = rig.failed
  BY <1>1, Places DEF RigInv, Rig, Moved
<1>3. Counters'
  BY <1>1, <1>2 DEF Counters, Accepted
<1>4. rig.at \in Sweep \/ rig.at \in Mixed \/ rig.at \in Memory
  BY DEF Working
<1>5. /\ rig.at \notin {"next", "down", "report", "exit"}
      /\ to \notin {"next", "down", "report", "exit"}
  BY DEF Working, Sweep, Mixed, Memory
<1>6. InTurn'
  <2>1. rig'.at \in Sweep \union {"undo"} => rig.at \in Sweep
    BY <1>2, <1>4 DEF Sweep, Mixed, Memory
  <2>2. rig'.at \in Mixed => rig.at \in Mixed
    BY <1>2, <1>4 DEF Sweep, Mixed, Memory
  <2>3. rig'.at \in Memory => rig.at \in Memory
    BY <1>2, <1>4 DEF Sweep, Mixed, Memory
  <2> QED
    BY <1>2, <1>5, <2>1, <2>2, <2>3 DEF RigInv, InTurn
<1>7. Reported'
  <2>1. /\ Len(rig.works) = rig.work - 1 /\ Len(rig.phases) = rig.phase - 1
        /\ \A i \in 1..Len(rig.works) : rig.works[i] = Expected(plan.workloads[i])
        /\ \A i \in 1..Len(rig.phases) : IsWhole(rig.phases[i])
    BY <1>5 DEF RigInv, Reported
  <2>2. \A i \in 1..Len(rig'.works) : rig'.works[i] = Expected(plan.workloads[i])'
    BY <1>2, <2>1 DEF Expected
  <2>3. \A i \in 1..Len(rig'.phases) : IsWhole(rig.phases[i])'
    BY <1>2, <2>1 DEF IsWhole, Expected
  <2> QED
    BY <1>2, <1>5, <2>1, <2>2, <2>3 DEF Reported
<1> QED
  BY <1>2, <1>3, <1>6, <1>7 DEF ProgramInv, Failing

(* What holds of the counters at work. *)
LEMMA AtWork ==
  ASSUME RigInv, rig.at \in Working \ {"undo"}
  PROVE  /\ ~rig.failed /\ Accepted(plan)
         /\ Len(plan.rates) \in Nat /\ plan.samples \in Nat /\ plan.samples > 0
         /\ rig.rate \in 1..Len(plan.rates) /\ rig.sample \in 1..plan.samples /\ rig.n \in Nat
         /\ rig.rate \in Nat /\ rig.sample \in Nat
<1>1. rig.at \notin Over \union {"undo", "down", "exit"}
  BY DEF Over, Working, Sweep, Mixed, Memory
<1>2. ~rig.failed /\ Accepted(plan)
  BY <1>1 DEF RigInv, Failing, Counters
<1> QED
  BY <1>1, <1>2, PlanIs, RigFields DEF RigInv, Counters

LEMMA DeployRateKeeps ==
  ASSUME RigInv, DeployRate PROVE ProgramInv'
<1>1. rig.at = "rates" /\ plan' = plan
  BY DEF DeployRate
<1>2. rig.at \in Working \ {"undo"}
  BY <1>1 DEF Working, Sweep
<1>3. rig.sample = 1 /\ rig.n = 0
  BY <1>1, <1>2, AtWork DEF RigInv, Counted
<1> DEFINE to == IF rig.rate < Len(plan.rates) THEN "rates" ELSE "ratesReady"
           rate == IF rig.rate < Len(plan.rates) THEN rig.rate + 1 ELSE 1
<1>4. rig' = Moved(to, rate, rig.sample, rig.n)
  BY <1>1 DEF DeployRate, RigInv, Rig, Moved
<1>5. /\ rate \in 1..Len(plan.rates)
      /\ to = "rates" \/ (to = "ratesReady" /\ rate = 1)
  BY <1>2, AtWork
<1> HIDE DEF to, rate
<1>6. rig'.at = to /\ rig'.rate = rate /\ rig'.sample = 1 /\ rig'.n = 0
  BY <1>3, <1>4 DEF RigInv, Rig, Moved
<1>7. Counted'
  BY <1>5, <1>6 DEF Counted, Working, Sweep, Mixed, Memory
<1>8. to \in Sweep /\ to \in Working /\ rig.at \in Sweep /\ rig.at \notin Mixed /\ rig.at \notin Memory
  BY <1>1, <1>5 DEF Working, Sweep, Mixed, Memory
<1> QED
  BY <1>1, <1>2, <1>4, <1>5, <1>7, <1>8, AtWork, StaysAtWork

(* One more sample. *)
LEMMA SampledIs ==
  ASSUME RigInv, rig.at \in Working \ {"undo"}, NEW again \in Working, NEW after \in Working
  PROVE  LET s == Sampled(again, after)
         IN  /\ s = Moved(s.at, rig.rate, s.sample, s.n)
             /\ s.n = rig.n + 1 /\ s.rate = rig.rate /\ s.sample \in 1..plan.samples
             /\ \/ s.at = again /\ s.sample = rig.sample + 1 /\ rig.sample < plan.samples
                \/ s.at = after /\ s.sample = 1 /\ rig.sample = plan.samples
<1>1. rig \in Rig /\ rig.sample \in 1..plan.samples /\ plan.samples \in Nat
  BY AtWork DEF RigInv
<1> DEFINE s == Sampled(again, after)
<1>2. CASE rig.sample < plan.samples
  <2>1. s = [rig EXCEPT !.n = rig.n + 1, !.at = again, !.sample = rig.sample + 1]
    BY <1>1, <1>2 DEF Sampled, Rig
  <2>2. rig.sample + 1 \in 1..plan.samples
    BY <1>1, <1>2
  <2> HIDE DEF s
  <2>3. /\ s.n = rig.n + 1 /\ s.rate = rig.rate /\ s.at = again /\ s.sample = rig.sample + 1
        /\ s = Moved(s.at, rig.rate, s.sample, s.n)
    BY <1>1, <2>1 DEF Rig, Moved
  <2> QED
    BY <1>2, <2>2, <2>3 DEF s
<1>3. CASE ~(rig.sample < plan.samples)
  <2>1. s = [rig EXCEPT !.n = rig.n + 1, !.at = after, !.sample = 1]
    BY <1>1, <1>3 DEF Sampled, Rig
  <2>2. 1 \in 1..plan.samples /\ rig.sample = plan.samples
    BY <1>1, <1>3
  <2> HIDE DEF s
  <2>3. /\ s.n = rig.n + 1 /\ s.rate = rig.rate /\ s.at = after /\ s.sample = 1
        /\ s = Moved(s.at, rig.rate, s.sample, s.n)
    BY <1>1, <2>1 DEF Rig, Moved
  <2> QED
    BY <2>2, <2>3 DEF s
<1> QED
  BY <1>2, <1>3

LEMMA MeasureRateKeeps ==
  ASSUME RigInv, MeasureRate PROVE ProgramInv'
<1> DEFINE one == Sampled("iperf", "undo")
           S == plan.samples
<1>1. rig.at = "iperf" /\ plan' = plan /\ {"iperf", "undo", "rateGate"} \subseteq Working
  BY DEF MeasureRate, Working, Sweep
<1>2. rig.at \in Working \ {"undo"}
  BY <1>1
<1>3. rig.n = S * (rig.rate - 1) + (rig.sample - 1)
  BY <1>1, <1>2, AtWork DEF RigInv, Counted
<1>4. /\ one = Moved(one.at, rig.rate, one.sample, one.n)
      /\ one.n = rig.n + 1 /\ one.rate = rig.rate /\ one.sample \in 1..S
      /\ \/ one.at = "iperf" /\ one.sample = rig.sample + 1 /\ rig.sample < S
         \/ one.at = "undo" /\ one.sample = 1 /\ rig.sample = S
  BY <1>1, <1>2, SampledIs
<1>5. /\ S \in Nat /\ rig.rate \in Nat /\ rig.rate \in 1..Len(plan.rates)
      /\ rig.sample \in Nat /\ Len(plan.rates) \in Nat /\ rig.n \in Nat
  BY <1>2, AtWork
<1>6. S * rig.rate = S * (rig.rate - 1) + S
  <2> HIDE DEF S
  <2> QED
    BY <1>5
<1> HIDE DEF one, S
<1>7. CASE one.at = "undo" /\ rig.rate < Len(plan.rates)
  <2>1. rig' = [one EXCEPT !.at = "rateGate", !.rate = one.rate + 1]
    BY <1>1, <1>7 DEF MeasureRate, one
  <2>2. rig' = Moved("rateGate", rig.rate + 1, 1, rig.n + 1)
    BY <1>4, <1>7, <2>1 DEF RigInv, Rig, Moved
  <2>3. /\ rig'.at = "rateGate" /\ rig'.rate = rig.rate + 1 /\ rig'.sample = 1
        /\ rig'.n = rig.n + 1
    BY <2>2 DEF RigInv, Rig, Moved
  <2>4. rig'.n = S * (rig'.rate - 1) + (rig'.sample - 1)
    <3>1. rig'.rate - 1 = rig.rate
      BY <1>5, <2>3
    <3> QED
      BY <1>3, <1>4, <1>5, <1>6, <1>7, <2>3, <3>1
  <2>5. Counted'
    BY <1>1, <2>3, <2>4 DEF Counted, Working, Sweep, Mixed, Memory, S
  <2>6. rig.rate + 1 \in 1..Len(plan.rates) /\ 1 \in 1..plan.samples /\ rig.n + 1 \in Nat
    BY <1>2, <1>5, <1>7, AtWork
  <2>7. "rateGate" \in Sweep /\ rig.at \in Sweep /\ rig.at \notin Mixed /\ rig.at \notin Memory
    BY <1>1 DEF Sweep, Mixed, Memory
  <2> QED
    BY <1>1, <1>2, <2>2, <2>5, <2>6, <2>7, AtWork, StaysAtWork
<1>8. CASE ~(one.at = "undo" /\ rig.rate < Len(plan.rates))
  <2>1. rig' = one
    BY <1>1, <1>8 DEF MeasureRate, one
  <2>2. rig' = Moved(one.at, rig.rate, one.sample, one.n)
    BY <1>4, <2>1
  <2>3. one.at \in Working /\ one.n \in Nat /\ one.sample \in 1..plan.samples /\ ~rig.failed
    BY <1>1, <1>2, <1>4, <1>5, AtWork DEF S
  <2>4. CASE one.at = "iperf"
    <3>1. one.sample - 1 = (rig.sample - 1) + 1
      BY <1>4, <1>5, <2>4
    <3>2. S * (rig.rate - 1) \in Int
      BY <1>5
    <3>3. one.n = S * (rig.rate - 1) + (one.sample - 1)
      BY <1>3, <1>4, <1>5, <3>1, <3>2
    <3>4. Counted'
      BY <1>1, <1>4, <2>1, <2>4, <3>3 DEF Counted, Working, Sweep, Mixed, Memory, S
    <3>5. one.at \in Sweep /\ rig.at \in Sweep /\ rig.at \notin Mixed /\ rig.at \notin Memory
      BY <1>1, <2>4 DEF Sweep, Mixed, Memory
    <3> QED
      BY <1>1, <1>2, <1>4, <1>5, <2>2, <2>4, <2>3, <3>4, <3>5, StaysAtWork
  <2>5. CASE one.at = "undo"
    <3>1. rig.rate = Len(plan.rates) /\ rig.sample = S
      BY <1>4, <1>5, <1>8, <2>5
    <3>2. S * (rig.rate - 1) \in Int
      BY <1>5
    <3>3. one.n = S * Len(plan.rates)
      BY <1>3, <1>4, <1>5, <1>6, <3>1, <3>2
    <3>4. Counted'
      BY <1>1, <1>4, <2>1, <2>5, <3>3 DEF Counted, Working, Sweep, Mixed, Memory, S
    <3>5. rig.at \in Sweep /\ rig.at \notin Mixed /\ rig.at \notin Memory
      BY <1>1 DEF Sweep, Mixed, Memory
    <3> QED
      BY <1>1, <1>2, <1>4, <1>5, <2>2, <2>5, <2>3, <3>4, <3>5, StaysAtWork
  <2> QED
    BY <1>4, <2>4, <2>5
<1> QED
  BY <1>7, <1>8

(* A sample of a workload that counts only its samples.                    *)
LEMMA SampleKeeps ==
  ASSUME RigInv, plan' = plan, NEW again, NEW after, rig' = Sampled(again, after),
         \/ rig.at = "mice" /\ again = "elephant" /\ after = "mixed"
         \/ rig.at = "scaleDown" /\ again = "memory" /\ after = "measured"
  PROVE  ProgramInv'
<1> DEFINE s == Sampled(again, after)
<1>1. /\ rig.at \in Working \ {"undo"} /\ again \in Working /\ after \in Working
      /\ rig.at \notin Sweep /\ rig.at \notin {"mixed", "measured"}
      /\ (rig.at \in Mixed => again \in Mixed /\ after \in Mixed)
      /\ (rig.at \in Memory => again \in Memory /\ after \in Memory)
      /\ rig.at \in (Mixed \union Memory) \ {"mixed", "measured"}
      /\ again \in {"elephant", "memory"} /\ after \in {"mixed", "measured"}
  BY DEF Working, Sweep, Mixed, Memory
<1>2. /\ s = Moved(s.at, rig.rate, s.sample, s.n)
      /\ s.n = rig.n + 1 /\ s.rate = rig.rate /\ s.sample \in 1..plan.samples
      /\ \/ s.at = again /\ s.sample = rig.sample + 1 /\ rig.sample < plan.samples
         \/ s.at = after /\ s.sample = 1 /\ rig.sample = plan.samples
  BY <1>1, SampledIs
<1>3. /\ ~rig.failed /\ rig.rate \in 1..Len(plan.rates) /\ rig.n \in Nat /\ rig.sample \in Nat
  BY <1>1, AtWork
<1>4. rig.n = rig.sample - 1
  BY <1>1, <1>3 DEF RigInv, Counted
<1> HIDE DEF s
<1>5. rig' = s
  BY DEF s
<1>6. s.at \in Working /\ s.n \in Nat
  BY <1>1, <1>2, <1>3
<1>7. Counted'
  BY <1>1, <1>2, <1>3, <1>4, <1>5 DEF Counted, Working, Sweep, Mixed, Memory
<1>8. (rig.at \in Mixed => s.at \in Mixed) /\ (rig.at \in Memory => s.at \in Memory)
  BY <1>1, <1>2
<1>9. /\ rig' = Moved(s.at, rig.rate, s.sample, s.n)
      /\ s.sample \in 1..plan.samples /\ rig.at \in Working /\ rig.at # "undo"
  BY <1>1, <1>2, <1>5
<1>10. rig.at \in Sweep => s.at \in Sweep \union {"undo"}
  BY <1>1
<1> QED
  BY <1>1, <1>3, <1>6, <1>7, <1>8, <1>9, <1>10, StaysAtWork

LEMMA CollectKeeps ==
  ASSUME RigInv, Collect PROVE ProgramInv'
<1>1. rig.at = "mice" /\ plan' = plan /\ (rig' = Unwind \/ rig' = Sampled("elephant", "mixed"))
  BY DEF Collect
<1>2. rig.at \in Control \ Over
  BY <1>1, Places DEF Over
<1> QED
  BY <1>1, <1>2, SampleKeeps, GivesUp

LEMMA ScaleDownKeeps ==
  ASSUME RigInv, ScaleDown PROVE ProgramInv'
BY SampleKeeps DEF ScaleDown

(* A workload returns all its samples. *)
LEMMA DoneKeeps ==
  ASSUME RigInv, plan' = plan, rig.at \in {"undo", "mixed", "measured"}, ~rig.failed,
         rig' = Done
  PROVE  ProgramInv'
<1> DEFINE w == plan.workloads[rig.work]
           entry == [kind |-> w, n |-> rig.n]
<1>1. /\ Accepted(plan) /\ rig.work \in 1..Len(plan.workloads) /\ Len(plan.workloads) \in Nat
      /\ plan.samples \in Nat /\ plan.samples > 0 /\ Len(plan.rates) \in Nat
      /\ Len(plan.rates) > 0 /\ w \in Workloads /\ rig.n \in Nat /\ rig.work \in Nat
      /\ rig.works \in Seq(Entry) /\ Len(rig.works) \in Nat
  <2>1. rig.at \in Working /\ rig.at \notin Over
    BY DEF Working, Mixed, Memory, Over
  <2>2. rig.work \in 1..Len(plan.workloads) /\ Accepted(plan)
    BY <2>1 DEF RigInv, InTurn, Counters
  <2> QED
    BY <2>2, PlanIs, RigFields DEF RigInv
<1>2. entry = Expected(w)
  <2>1. CASE rig.at = "undo"
    <3>1. w = "iperfSweep" /\ rig.n = plan.samples * Len(plan.rates)
      BY <2>1 DEF RigInv, InTurn, Counted
    <3> QED
      BY <3>1 DEF Expected
  <2>2. CASE rig.at = "mixed"
    <3>1. w = "mixed" /\ rig.n = plan.samples
      BY <2>2 DEF RigInv, InTurn, Counted, Mixed
    <3> QED
      BY <1>1, <3>1 DEF Expected
  <2>3. CASE rig.at = "measured"
    <3>1. w = "memory" /\ rig.n = plan.samples
      BY <2>3 DEF RigInv, InTurn, Counted, Memory
    <3> QED
      BY <1>1, <3>1 DEF Expected
  <2> QED
    BY <2>1, <2>2, <2>3
<1>3. entry \in Entry
  BY <1>1 DEF Entry
<1>4. /\ Len(rig.works) = rig.work - 1
      /\ \A i \in 1..Len(rig.works) : rig.works[i] = Expected(plan.workloads[i])
      /\ Len(rig.phases) = rig.phase - 1
      /\ \A i \in 1..Len(rig.phases) : IsWhole(rig.phases[i])
  BY DEF RigInv, Reported
<1> DEFINE all == Append(rig.works, entry)
<1>5. all \in Seq(Entry) /\ Len(all) = rig.work
  <2> HIDE DEF entry
  <2> QED
    BY <1>1, <1>3, <1>4
<1>6. \A i \in 1..Len(all) : all[i] = Expected(plan.workloads[i])
  <2> HIDE DEF entry
  <2>1. \A i \in 1..rig.work : all[i] = IF i = rig.work THEN entry ELSE rig.works[i]
    BY <1>1, <1>3, <1>4
  <2>2. ASSUME NEW i \in 1..rig.work PROVE all[i] = Expected(plan.workloads[i])
    <3>1. CASE i = rig.work
      BY <1>2, <2>1, <3>1
    <3>2. CASE i # rig.work
      <4>1. i \in 1..Len(rig.works)
        BY <1>1, <1>4, <3>2
      <4> HIDE DEF all
      <4> QED
        BY <1>4, <2>1, <3>2, <4>1
    <3> QED
      BY <3>1, <3>2
  <2> HIDE DEF all
  <2> QED
    BY <1>5, <2>2
<1> HIDE DEF all
<1>7. rig' = [rig EXCEPT !.at = "next", !.work = rig.work + 1, !.rate = 1, !.sample = 1, !.n = 0,
                         !.works = all]
  BY DEF Done, RigInv, Rig, all
<1> HIDE DEF entry, w
<1>8. /\ rig' \in Rig /\ rig'.at = "next" /\ rig'.work = rig.work + 1 /\ rig'.rate = 1
      /\ rig'.sample = 1 /\ rig'.n = 0 /\ rig'.works = all /\ rig'.failed = rig.failed
      /\ rig'.phases = rig.phases /\ rig'.phase = rig.phase
  <2>1. "next" \in Control /\ 1 \in 1..Samples /\ rig.work + 1 \in Nat /\ 0 \in Nat /\ 1 \in Nat
    BY <1>1, Places, RigAssumption
  <2>2. rig \in Rig
    BY DEF RigInv
  <2>3. PICK next \in Nat : next = rig.work + 1
    BY <2>1
  <2>4. rig' = [rig EXCEPT !.at = "next", !.work = next, !.rate = 1, !.sample = 1, !.n = 0,
                           !.works = all]
    BY <1>7, <2>3
  <2>5. rig' \in Rig
    BY <1>5, <2>1, <2>2, <2>4 DEF Rig
  <2> QED
    BY <2>2, <2>3, <2>4, <2>5 DEF Rig
<1>9. Counters'
  BY <1>1, <1>8 DEF Counters, Accepted
<1>10. Counted'
  BY <1>8 DEF Counted, Working, Sweep, Mixed, Memory
<1>11. InTurn'
  BY <1>1, <1>8 DEF InTurn, Working, Sweep, Mixed, Memory
<1>12. Reported'
  <2>1. /\ Len(rig'.works) = rig'.work - 1 /\ Len(rig'.phases) = rig'.phase - 1
        /\ rig'.at \notin {"report", "exit"}
    BY <1>1, <1>4, <1>5, <1>8
  <2>2. \A i \in 1..Len(rig'.works) : rig'.works[i] = Expected(plan.workloads[i])'
    BY <1>6, <1>8 DEF Expected
  <2>3. \A i \in 1..Len(rig'.phases) : IsWhole(rig.phases[i])'
    BY <1>4, <1>8 DEF IsWhole, Expected
  <2> QED
    BY <2>1, <2>2, <2>3 DEF Reported
<1> QED
  BY <1>8, <1>9, <1>10, <1>11, <1>12 DEF ProgramInv, Failing

LEMMA UndoRatesKeeps ==
  ASSUME RigInv, UndoRates PROVE ProgramInv'
<1>1. rig.at = "undo" /\ plan' = plan
  BY DEF UndoRates
<1>2. CASE rig.failed
  <2>1. rig' = [rig EXCEPT !.at = "down", !.tries = 0]
    BY <1>2 DEF UndoRates, Goto
  <2>2. /\ rig' \in Rig /\ rig'.at = "down" /\ rig'.rate = rig.rate /\ rig'.sample = rig.sample
        /\ rig'.failed = rig.failed
    BY <2>1, Places, NoTries DEF RigInv, Rig
  <2>3. Counters'
    BY <1>1, <2>2 DEF RigInv, Counters, Accepted, Over
  <2> QED
    BY <1>2, <2>2, <2>3 DEF ProgramInv, Counted, InTurn, Reported, Failing
<1>3. CASE ~rig.failed
  <2>1. rig' = Done
    BY <1>3 DEF UndoRates
  <2> QED
    BY <1>1, <1>3, <2>1, DoneKeeps
<1> QED
  BY <1>2, <1>3

LEMMA ReturnKeeps ==
  ASSUME RigInv, Return("mixed") \/ Return("measured") PROVE ProgramInv'
<1>1. rig.at \in {"mixed", "measured"} /\ plan' = plan /\ rig' = Done
  BY DEF Return
<1>2. ~rig.failed
  BY <1>1 DEF RigInv, Failing
<1> QED
  BY <1>1, <1>2, DoneKeeps

(* A poll's attempt in vain changes nothing but the number of them. *)
LEMMA RetryIs ==
  ASSUME RigInv, Retry
  PROVE  /\ rig' \in Rig /\ rig'.at = rig.at /\ rig'.phase = rig.phase /\ rig'.epoch = rig.epoch
         /\ rig'.work = rig.work /\ rig'.rate = rig.rate /\ rig'.sample = rig.sample
         /\ rig'.n = rig.n /\ rig'.left = rig.left /\ rig'.works = rig.works
         /\ rig'.phases = rig.phases /\ rig'.failed = rig.failed
         /\ rig.at \in Standing /\ rig.at \notin {"lag", "mice"}
         /\ UNCHANGED <<kind, plan, jobs, made, cache, faults>>
<1>1. /\ rig' = [rig EXCEPT !.tries = rig.tries + 1] /\ rig.tries < Tries /\ rig.at \in Polling
      /\ UNCHANGED <<kind, plan, jobs, made, cache, faults>>
  BY DEF Retry
<1>2. rig \in Rig /\ rig.tries + 1 \in 0..Tries
  <2>1. Tries \in Nat
    BY RigAssumption
  <2>2. rig \in Rig /\ rig.tries \in 0..Tries
    BY RigFields DEF RigInv
  <2> QED
    BY <1>1, <2>1, <2>2
<1>3. rig.at \in Standing /\ rig.at \notin {"lag", "mice"}
  BY <1>1 DEF Polling, Standing, Staging, Working, Sweep
<1>4. PICK tries \in 0..Tries : rig' = [rig EXCEPT !.tries = tries]
  BY <1>1, <1>2
<1>5. rig' \in Rig
  BY <1>2, <1>4 DEF Rig
<1>6. /\ rig'.at = rig.at /\ rig'.phase = rig.phase /\ rig'.epoch = rig.epoch
      /\ rig'.work = rig.work /\ rig'.rate = rig.rate /\ rig'.sample = rig.sample
      /\ rig'.n = rig.n /\ rig'.left = rig.left /\ rig'.works = rig.works
      /\ rig'.phases = rig.phases /\ rig'.failed = rig.failed
  BY <1>2, <1>4 DEF Rig
<1> QED
  BY <1>1, <1>3, <1>5, <1>6

LEMMA RetryKeeps ==
  ASSUME RigInv, Retry PROVE ProgramInv'
<1>1. Counters'
  BY RetryIs DEF RigInv, Counters, Accepted
<1>2. Counted'
  BY RetryIs DEF RigInv, Counted
<1>3. InTurn'
  BY RetryIs DEF RigInv, InTurn
<1>4. Reported'
  <2>1. /\ plan' = plan /\ rig'.at = rig.at /\ rig'.failed = rig.failed /\ rig'.work = rig.work
        /\ rig'.phase = rig.phase /\ rig'.works = rig.works /\ rig'.phases = rig.phases
    BY RetryIs
  <2>2. Reported
    BY DEF RigInv
  <2>3. \A w : Expected(w)' = Expected(w)
    BY <2>1 DEF Expected
  <2>4. \A works : IsWhole(works)' = IsWhole(works)
    BY <2>1, <2>3 DEF IsWhole
  <2> QED
    BY <2>1, <2>2, <2>3, <2>4 DEF Reported
<1>5. Failing'
  BY RetryIs DEF RigInv, Failing
<1> QED
  BY RetryIs, <1>1, <1>2, <1>3, <1>4, <1>5 DEF ProgramInv

(* Every step keeps what RigInv says of the program. *)
LEMMA ProgramStep ==
  ASSUME RigInv, [Next]_vars PROVE ProgramInv'
<1>1. ASSUME rig' = rig, plan' = plan PROVE ProgramInv'
  BY <1>1 DEF RigInv, ProgramInv, Counters, Counted, InTurn, Reported, Failing, IsWhole, Expected,
     Accepted
<1>2. ASSUME NEW to, plan' = plan, Goto(to), <<rig.at, to>> \in Edges PROVE ProgramInv'
  BY <1>2, GoesOn DEF Goto
<1>3. ASSUME plan' = plan, rig' = Unwind, rig.at \in Standing \union {"up"} PROVE ProgramInv'
  <2>1. rig.at \in Control \ Over
    BY <1>3 DEF Control, Over, Standing, Staging, Working, Sweep, Mixed, Memory
  <2> QED
    BY <1>3, <2>1, GivesUp
<1>4. CASE OpeningDown
  BY <1>2, <1>4 DEF OpeningDown, Edges
<1>5. CASE UpK3d
  BY <1>2, <1>3, <1>5 DEF UpK3d, Edges
<1>6. CASE UpLima
  BY <1>2, <1>3, <1>6 DEF UpLima, Edges
<1>7. CASE UpHalf
  BY <1>3, <1>7 DEF UpHalf
<1>8. CASE ImportImage
  BY <1>2, <1>8 DEF ImportImage, Edges
<1>9. CASE InstallNatra
  BY <1>2, <1>3, <1>9 DEF InstallNatra, Edges, Standing
<1>10. CASE StagePhase
  <2>1. CASE ClearPods
    BY <1>2, <2>1 DEF ClearPods, Edges
  <2>2. CASE DeployStaged
    BY <1>2, <2>2 DEF DeployStaged, Edges
  <2>3. CASE Await("ready", {"server", "client"}, IfVanilla("patch", "gate"))
    BY <1>2, <2>3 DEF Await, IfVanilla, Edges
  <2>4. CASE PatchTBF("patch", "gate")
    BY <1>2, <2>4 DEF PatchTBF, Edges
  <2>5. CASE AwaitRoute("gate", <<"server", 0>>, "next")
    BY <1>2, <2>5 DEF AwaitRoute, Edges
  <2> QED
    BY <1>10, <2>1, <2>2, <2>3, <2>4, <2>5 DEF StagePhase
<1>11. CASE RunIperfSweep
  <2>1. CASE Await("ratesReady", {"rate"}, IfVanilla("ratesPatch", "rateGate"))
    BY <1>2, <2>1 DEF Await, IfVanilla, Edges
  <2>2. CASE PatchTBF("ratesPatch", "rateGate")
    BY <1>2, <2>2 DEF PatchTBF, Edges
  <2>3. CASE AwaitRoute("rateGate", <<"rate", rig.rate>>, "iperf")
    BY <1>2, <2>3 DEF AwaitRoute, Edges
  <2> QED
    BY <1>11, <2>1, <2>2, <2>3, DeployRateKeeps, MeasureRateKeeps, UndoRatesKeeps
       DEF RunIperfSweep
<1>12. CASE RunMixed
  <2>1. CASE DeployBystander
    BY <1>2, <2>1 DEF DeployBystander, Edges
  <2>2. CASE Await("byReady", {"bystander"}, "elephant")
    BY <1>2, <2>2 DEF Await, Edges
  <2>3. CASE Spawn("elephant", {"elephant"}, "lag")
    BY <1>2, <2>3 DEF Spawn, Edges
  <2>4. CASE Spawn("lag", {"podMice", "byMice"}, "mice")
    BY <1>2, <2>4 DEF Spawn, Edges
  <2> QED
    BY <1>12, <2>1, <2>2, <2>3, <2>4, CollectKeeps, ReturnKeeps DEF RunMixed
<1>13. CASE RunMemory
  <2>1. CASE EnsureBpftool
    BY <1>2, <1>3, <2>1 DEF EnsureBpftool, Edges, Standing, Working, Memory
  <2>2. CASE CopyBpftool
    BY <1>2, <2>2 DEF CopyBpftool, Edges
  <2>3. CASE SnapshotOne
    BY <1>2, <2>3 DEF SnapshotOne, Edges
  <2>4. CASE DeployClones
    BY <1>2, <2>4 DEF DeployClones, Edges
  <2>5. CASE Await("clonesReady", {"clone"}, IfVanilla("clonesPatch", "snapN"))
    BY <1>2, <2>5 DEF Await, IfVanilla, Edges
  <2>6. CASE PatchTBF("clonesPatch", "snapN")
    BY <1>2, <2>6 DEF PatchTBF, Edges
  <2>7. CASE SnapshotAll
    BY <1>2, <2>7 DEF SnapshotAll, Edges
  <2> QED
    BY <1>13, <2>1, <2>2, <2>3, <2>4, <2>5, <2>6, <2>7, ScaleDownKeeps, ReturnKeeps
       DEF RunMemory
<1>14. CASE CommandFails
  <2>1. rig.at \in Standing \union {"up"}
    BY <1>14 DEF CommandFails, Fallible, Timed, Polling, Standing, Staging, Working, Sweep, Mixed, Memory
  <2> QED
    BY <1>3, <1>14, <2>1 DEF CommandFails
<1>15. CASE Admit \/ Route \/ Reap \/ Finish \/ UNCHANGED vars
  BY <1>1, <1>15 DEF Admit, Route, Reap, Finish, vars
<1> QED
  BY <1>4, <1>5, <1>6, <1>7, <1>8, <1>9, <1>10, <1>11, <1>12, <1>13, <1>14, <1>15, StartKeeps,
     InterruptKeeps, ClosingKeeps, WriteReportKeeps, NextWorkloadKeeps, RetryKeeps
     DEF Next, RigStep

(* The goroutines run only where they are waited for. *)
LEMMA JobsStep ==
  ASSUME RigInv, [Next]_vars PROVE JobsAtRest'
<1> USE DEF RigInv, JobsAtRest
<1>1. ASSUME jobs' = jobs, rig.at \notin {"lag", "mice"} PROVE JobsAtRest'
  BY <1>1
<1>2. ASSUME jobs' = jobs, rig' = rig PROVE JobsAtRest'
  BY <1>2
<1>3. CASE Start \/ OpeningDown \/ ClosingDown \/ WriteReport
  BY <1>1, <1>3 DEF Start, OpeningDown, ClosingDown, WriteReport
<1>4. CASE UpK3d \/ UpLima \/ UpHalf \/ ImportImage \/ InstallNatra
  BY <1>1, <1>4 DEF UpK3d, UpLima, UpHalf, ImportImage, InstallNatra
<1>5. CASE StagePhase \/ NextWorkload
  BY <1>1, <1>5 DEF StagePhase, ClearPods, DeployStaged, Await, PatchTBF, AwaitRoute, NextWorkload
<1>6. CASE RunIperfSweep
  BY <1>1, <1>6 DEF RunIperfSweep, DeployRate, Await, PatchTBF, AwaitRoute, MeasureRate, UndoRates
<1>7. CASE RunMixed
  <2>1. ASSUME NEW from, NEW new, NEW to, to \in {"lag", "mice"}, Spawn(from, new, to)
        PROVE  JobsAtRest'
    <3>1. rig'.at = to
      BY <2>1 DEF Spawn, Goto, Rig
    <3> QED
      BY <2>1, <3>1 DEF Spawn
  <2>2. CASE Collect
    BY <2>2 DEF Collect
  <2>3. CASE DeployBystander \/ Await("byReady", {"bystander"}, "elephant") \/ Return("mixed")
    BY <1>1, <2>3 DEF DeployBystander, Await, Return
  <2> QED
    BY <1>7, <2>1, <2>2, <2>3 DEF RunMixed
<1>8. CASE RunMemory
  BY <1>1, <1>8 DEF RunMemory, EnsureBpftool, CopyBpftool, SnapshotOne, DeployClones, Await,
     PatchTBF, SnapshotAll, ScaleDown, Return
<1>9. CASE CommandFails
  <2>1. rig.at \notin {"lag", "mice"}
    BY <1>9 DEF CommandFails, Fallible, Timed, Polling
  <2> QED
    BY <1>1, <1>9, <2>1 DEF CommandFails
<1>10. CASE Interrupt
  BY <1>10 DEF Interrupt
<1>11. CASE Admit \/ Route \/ Reap \/ UNCHANGED vars
  BY <1>2, <1>11 DEF Admit, Route, Reap, vars
<1>12. CASE Finish
  <2>1. rig' = rig /\ \E j \in Jobs : jobs[j] = "running"
    BY <1>12 DEF Finish
  <2>2. rig.at \in {"lag", "mice"}
    BY <2>1
  <2> QED
    BY <1>12, <2>1, <2>2 DEF Finish
<1>13. CASE Retry
  BY <1>1, <1>13, RetryIs
<1> QED
  BY <1>3, <1>4, <1>5, <1>6, <1>7, <1>8, <1>9, <1>10, <1>11, <1>12, <1>13 DEF Next, RigStep

(* What was asked for stays, and the bounds are kept. *)
LEMMA BoundsStep ==
  ASSUME RigInv, [Next]_vars
  PROVE  /\ kind' = kind /\ plan' = plan
         /\ cache' \in {"none", "torn", "whole"} /\ faults' \in 0..MaxFaults
<1> USE DEF RigInv
<1>1. ASSUME Fault PROVE faults' \in 0..MaxFaults
  BY <1>1, RigAssumption DEF Fault
<1>2. CASE Start \/ OpeningDown \/ ClosingDown \/ WriteReport
  BY <1>1, <1>2 DEF Start, OpeningDown, ClosingDown, WriteReport, Deletes
<1>3. CASE UpK3d \/ UpLima \/ UpHalf \/ ImportImage \/ InstallNatra
  BY <1>1, <1>3 DEF UpK3d, UpLima, UpHalf, ImportImage, InstallNatra, Deletes
<1>4. CASE StagePhase \/ NextWorkload
  BY <1>1, <1>4 DEF StagePhase, ClearPods, DeployStaged, Await, PatchTBF, AwaitRoute, NextWorkload
<1>5. CASE RunIperfSweep
  BY <1>1, <1>5 DEF RunIperfSweep, DeployRate, Await, PatchTBF, AwaitRoute, MeasureRate, UndoRates
<1>6. CASE RunMixed
  BY <1>6 DEF RunMixed, DeployBystander, Await, Spawn, Collect, Return
<1>7. CASE RunMemory
  BY <1>7 DEF RunMemory, EnsureBpftool, CopyBpftool, SnapshotOne, DeployClones, Await, PatchTBF,
     SnapshotAll, ScaleDown, Return
<1>8. CASE CommandFails \/ Interrupt \/ Retry
  BY <1>1, <1>8 DEF CommandFails, Interrupt, Retry
<1>9. CASE Admit \/ Route \/ Reap \/ Finish \/ UNCHANGED vars
  BY <1>1, <1>9 DEF Admit, Route, Reap, Finish, vars
<1> QED
  BY <1>2, <1>3, <1>4, <1>5, <1>6, <1>7, <1>8, <1>9 DEF Next, RigStep

LEMMA RigStepKeeps ==
  ASSUME RigInv, [Next]_vars PROVE RigInv'
<1>1. kind' \in Substrates /\ plan' \in Profiles
  BY BoundsStep DEF RigInv
<1>2. ProgramInv' /\ JobsAtRest'
  BY ProgramStep, JobsStep
<1>3. cache' \in {"none", "torn", "whole"} /\ faults' \in 0..MaxFaults
  BY BoundsStep
<1> QED
  BY <1>1, <1>2, <1>3 DEF RigInv, ProgramInv

----------------------------------------------------------------------------
(* The cluster: what each of its operations does to it.                    *)

(* A pod that is given a shaper is the same pod otherwise. *)
LEMMA Given ==
  ASSUME NEW p \in PodType, NEW by \in Shapers
  PROVE  LET q == [p EXCEPT !.by = by]
         IN  q \in PodType /\ q.name = p.name /\ q.limit = p.limit /\ q.by = by
BY DEF PodType

LEMMA DetachedAre ==
  ASSUME NEW S, S \subseteq PodType
  PROVE  /\ Detached(S) \subseteq PodType
         /\ \A q \in Detached(S) : q.by = "pending"
         /\ (\A p, q \in S : p.name = q.name => p = q) =>
              \A p, q \in Detached(S) : p.name = q.name => p = q
<1> DEFINE to(p) == [p EXCEPT !.by = "pending"]
<1>1. \A p \in S : to(p) \in PodType /\ to(p).name = p.name /\ to(p).by = "pending"
  BY Given DEF Shapers
<1>2. Detached(S) = {to(p) : p \in S}
  BY DEF Detached
<1> HIDE DEF to
<1> QED
  BY <1>1, <1>2

LEMMA WipeKeeps ==
  ASSUME Consistent, NEW gone \in SUBSET Nodes, Wipe(gone)
  PROVE  /\ Consistent'
         /\ \A n \in Nodes : vms'[n] = IF n \in gone THEN 0 ELSE vms[n]
<1>1. /\ vms' \in [Nodes -> Nat]
      /\ \A n \in Nodes : vms'[n] = IF n \in gone THEN 0 ELSE vms[n]
  BY DEF Wipe, Consistent
<1>2. "server" \in Nodes /\ "agent" \in Nodes
  BY DEF Nodes
<1>3. chained' \subseteq {n \in Nodes : vms'[n] # 0}
  BY <1>1 DEF Wipe, Consistent
<1>4. /\ pods' \subseteq PodType
      /\ \A p, q \in pods' : p.name = q.name => p = q
      /\ vms'["server"] = 0 => pods' = {}
      /\ vms'["agent"] = 0 => \A p \in pods' : p.by = "pending"
  <2>1. CASE "server" \in gone
    BY <2>1 DEF Wipe
  <2>2. CASE "server" \notin gone /\ "agent" \in gone
    <3>1. pods' = Detached(pods) /\ vms'["server"] = vms["server"]
      BY <1>1, <1>2, <2>2 DEF Wipe
    <3>2. pods = {} => Detached(pods) = {}
      BY DEF Detached
    <3> QED
      BY <3>1, <3>2, DetachedAre DEF Consistent
  <2>3. CASE "server" \notin gone /\ "agent" \notin gone
    BY <1>1, <1>2, <2>3 DEF Wipe, Consistent
  <2> QED
    BY <2>1, <2>2, <2>3
<1>5. /\ ghosts' \subseteq PodType /\ \A p \in ghosts' : p.by # "pending"
      /\ vms'["agent"] = 0 => ghosts' = {}
  <2>1. Attached(pods) \subseteq PodType /\ \A p \in Attached(pods) : p.by # "pending"
    BY DEF Attached, Consistent
  <2>2. vms["agent"] = 0 => ghosts = {} /\ Attached(pods) = {}
    BY DEF Attached, Consistent
  <2> QED
    BY <1>1, <1>2, <2>1, <2>2 DEF Wipe, Consistent
<1>6. reach' \subseteq {p.name : p \in Attached(pods')}
  BY DEF Wipe, Consistent
<1> QED
  BY <1>1, <1>3, <1>4, <1>5, <1>6 DEF Consistent, Attached

(* New pods wait for their shaper; those of the same name stay. *)
LEMMA ApplyKeeps ==
  ASSUME Consistent, NEW new, Apply(new), new \subseteq PodType, vms["server"] # 0,
         \A p \in new : p.by = "pending",
         \A p, q \in new : p.name = q.name => p = q
  PROVE  Consistent'
<1>1. /\ pods \subseteq pods' /\ pods' \subseteq PodType
      /\ \A p \in pods' : p \in pods \/ (p \in new /\ \A q \in pods : q.name # p.name)
      /\ vms' = vms /\ chained' = chained /\ ghosts' = ghosts /\ reach' = reach
  BY DEF Apply, Consistent
<1>2. \A p, q \in pods' : p.name = q.name => p = q
  BY <1>1 DEF Consistent
<1>3. reach' \subseteq {p.name : p \in Attached(pods')}
  BY <1>1 DEF Attached, Consistent
<1> QED
  BY <1>1, <1>2, <1>3 DEF Consistent, Attached

LEMMA ForceDeleteKeeps ==
  ASSUME Consistent, NEW roles, ForceDelete(roles)
  PROVE  Consistent'
<1> DEFINE gone == {p \in pods : p.name[1] \in roles}
<1>1. /\ pods' = pods \ gone /\ ghosts' = ghosts \union Attached(gone)
      /\ reach' = reach \ {p.name : p \in gone} /\ vms' = vms /\ chained' = chained
  BY DEF ForceDelete
<1>2. gone \subseteq pods
  OBVIOUS
<1> HIDE DEF gone
<1>3. /\ Attached(gone) \subseteq PodType /\ \A p \in Attached(gone) : p.by # "pending"
      /\ vms["agent"] = 0 => Attached(gone) = {}
  BY <1>2 DEF Attached, Consistent
<1>4. reach' \subseteq {p.name : p \in Attached(pods')}
  BY <1>1 DEF Attached, Consistent
<1> QED
  BY <1>1, <1>2, <1>3, <1>4 DEF Consistent

(* The patch of the tbf qdiscs: who has one, has it with the burst that    *)
(* can be given it from the node.                                          *)
LEMMA BurstIs == Burst1m \in Shapers \ {"pending", "none", "tbf", "natra"}
BY DEF Burst1m, Shapers

LEMMA PatchedAre ==
  ASSUME NEW S, S \subseteq PodType
  PROVE  /\ Patched(S) \subseteq PodType /\ Burst1m \notin {"pending", "tbf"}
         /\ \A q \in Patched(S) : \E p \in S :
              /\ q.name = p.name /\ q.limit = p.limit
              /\ q.by = IF p.by = "tbf" THEN Burst1m ELSE p.by
         /\ \A p \in S : \E q \in Patched(S) :
              /\ q.name = p.name /\ q.limit = p.limit
              /\ q.by = IF p.by = "tbf" THEN Burst1m ELSE p.by
         /\ (\A p, q \in S : p.name = q.name => p = q) =>
              \A p, q \in Patched(S) : p.name = q.name => p = q
<1> DEFINE to(p) == [p EXCEPT !.by = IF @ = "tbf" THEN Burst1m ELSE @]
<1>1. \A p \in S : /\ to(p) \in PodType /\ to(p).name = p.name /\ to(p).limit = p.limit
                   /\ to(p).by = IF p.by = "tbf" THEN Burst1m ELSE p.by
  <2>1. \A p \in S : (IF p.by = "tbf" THEN Burst1m ELSE p.by) \in Shapers
    BY BurstIs DEF PodType
  <2> QED
    BY <2>1, Given
<1>2. Patched(S) = {to(p) : p \in S}
  BY DEF Patched
<1> HIDE DEF to
<1> QED
  BY <1>1, <1>2, BurstIs

LEMMA PatchKeeps ==
  ASSUME Consistent, pods' = Patched(pods), ghosts' = Patched(ghosts),
         UNCHANGED <<vms, chained, reach>>
  PROVE  Consistent'
<1>1. /\ pods' \subseteq PodType /\ ghosts' \subseteq PodType
      /\ \A p, q \in pods' : p.name = q.name => p = q
      /\ \A p \in ghosts' : p.by # "pending"
  BY PatchedAre DEF Consistent
<1>2. /\ pods = {} => pods' = {}
      /\ ghosts = {} => ghosts' = {}
      /\ (\A p \in pods : p.by = "pending") => \A p \in pods' : p.by = "pending"
  BY PatchedAre DEF Consistent
<1>3. reach' \subseteq {p.name : p \in Attached(pods')}
  BY PatchedAre DEF Attached, Consistent
<1> QED
  BY <1>1, <1>2, <1>3 DEF Consistent

LEMMA AdmitIs ==
  ASSUME Consistent, Admit
  PROVE  \E p \in pods, q \in PodType :
           /\ p.by = "pending" /\ pods' = (pods \ {p}) \union {q}
           /\ q.name = p.name /\ q.limit = p.limit
           /\ q.by = IF ~p.limit THEN "none" ELSE IF "agent" \in chained THEN "natra" ELSE "tbf"
           /\ q.by # "pending"
           /\ \A n \in Nodes : vms[n] # 0
           /\ UNCHANGED <<kind, plan, rig, vms, chained, ghosts, reach>>
<1>1. PICK p \in pods :
         /\ p.by = "pending" /\ \A n \in Nodes : vms[n] # 0
         /\ pods' = (pods \ {p}) \union
              {[p EXCEPT !.by = IF ~p.limit THEN "none"
                                ELSE IF "agent" \in chained THEN "natra" ELSE "tbf"]}
         /\ UNCHANGED <<kind, plan, rig, vms, chained, ghosts, reach>>
  BY DEF Admit
<1> DEFINE by == IF ~p.limit THEN "none" ELSE IF "agent" \in chained THEN "natra" ELSE "tbf"
<1>2. by \in Shapers /\ by # "pending" /\ p \in PodType
  BY DEF Shapers, Consistent
<1> DEFINE q == [p EXCEPT !.by = by]
<1>3. q \in PodType /\ q.name = p.name /\ q.limit = p.limit /\ q.by = by
  BY <1>2, Given
<1>4. pods' = (pods \ {p}) \union {q}
  BY <1>1
<1> HIDE DEF q
<1> QED
  BY <1>1, <1>2, <1>3, <1>4

LEMMA AdmitKeeps ==
  ASSUME Consistent, Admit PROVE Consistent'
<1>1. PICK p \in pods, q \in PodType :
           /\ p.by = "pending" /\ pods' = (pods \ {p}) \union {q}
           /\ q.name = p.name /\ q.by # "pending"
           /\ \A n \in Nodes : vms[n] # 0
           /\ UNCHANGED <<vms, chained, ghosts, reach>>
  BY AdmitIs
<1>2. vms'["server"] # 0 /\ vms'["agent"] # 0
  BY <1>1 DEF Nodes
<1>3. pods' \subseteq PodType /\ \A r, s \in pods' : r.name = s.name => r = s
  BY <1>1 DEF Consistent
<1>4. reach' \subseteq {r.name : r \in Attached(pods')}
  BY <1>1 DEF Attached, Consistent
<1> QED
  BY <1>1, <1>2, <1>3, <1>4 DEF Consistent

LEMMA RouteReapKeep ==
  ASSUME Consistent, Route \/ Reap PROVE Consistent'
<1>1. CASE Route
  <2>1. pods' = pods /\ reach' \subseteq {p.name : p \in Attached(pods')}
    BY <1>1 DEF Route, Consistent
  <2> QED
    BY <1>1, <2>1 DEF Route, Consistent
<1>2. CASE Reap
  BY <1>2 DEF Reap, Consistent, Attached
<1> QED
  BY <1>1, <1>2

(* Nodes come up: those that there were keep what they had. *)
LEMMA NodesKeep ==
  ASSUME Consistent, vms' \in [Nodes -> Nat],
         \A n \in Nodes : vms'[n] = 0 => vms[n] = 0,
         UNCHANGED <<chained, pods, ghosts, reach>>
  PROVE  Consistent'
<1>1. vms'["server"] = 0 => vms["server"] = 0
  BY DEF Nodes
<1>2. vms'["agent"] = 0 => vms["agent"] = 0
  BY DEF Nodes
<1> QED
  BY <1>1, <1>2 DEF Consistent, Attached

LEMMA PodsAre ==
  ASSUME NEW role \in {"server", "client", "rate", "bystander", "clone"}, NEW i \in Nat
  PROVE  /\ Pod(role, i) \in PodType /\ Pod(role, i).name = <<role, i>>
         /\ Pod(role, i).by = "pending" /\ Pod(role, i).limit = (Phase # "baseline")
         /\ Plain(role) \in PodType /\ Plain(role).name = <<role, 0>>
         /\ Plain(role).by = "pending" /\ Plain(role).limit = FALSE
<1>1. (Phase # "baseline") \in BOOLEAN
  OBVIOUS
<1> QED
  BY <1>1 DEF Pod, Plain, PodType, Names, Shapers

(* The five deployments, with what each of them applies.                   *)
StagedPods == {Pod("server", 0), Plain("client")}
NewClones == {Pod("clone", i) : i \in 2..NPods}

LEMMA DeploymentsKeep ==
  ASSUME RigInv, Consistent, vms["server"] # 0,
         \/ Apply(StagedPods) \/ Apply({Pod("rate", rig.rate)})
         \/ Apply({Plain("bystander")}) \/ Apply(NewClones)
  PROVE  Consistent'
<1>1. ASSUME Apply(StagedPods) PROVE Consistent'
  <2> HIDE DEF StagedPods
  <2>1. /\ StagedPods \subseteq PodType /\ \A p \in StagedPods : p.by = "pending"
        /\ \A p, q \in StagedPods : p.name = q.name => p = q
    <3>1. 0 \in Nat
      OBVIOUS
    <3>2. /\ Pod("server", 0) \in PodType /\ Pod("server", 0).name = <<"server", 0>>
          /\ Pod("server", 0).by = "pending"
      BY <3>1, PodsAre
    <3>3. /\ Plain("client") \in PodType /\ Plain("client").name = <<"client", 0>>
          /\ Plain("client").by = "pending"
      BY <3>1, PodsAre
    <3> QED
      BY <3>2, <3>3 DEF StagedPods
  <2> QED
    BY <1>1, <2>1, ApplyKeeps
<1>2. ASSUME Apply({Pod("rate", rig.rate)}) PROVE Consistent'
  <2>1. rig.rate \in Nat
    BY RigFields DEF RigInv
  <2> QED
    BY <1>2, <2>1, PodsAre, ApplyKeeps
<1>3. ASSUME Apply({Plain("bystander")}) PROVE Consistent'
  BY <1>3, PodsAre, ApplyKeeps
<1>4. ASSUME Apply(NewClones) PROVE Consistent'
  <2>1. \A i \in 2..NPods : /\ i \in Nat /\ Pod("clone", i) \in PodType
                            /\ Pod("clone", i).name = <<"clone", i>>
                            /\ Pod("clone", i).by = "pending"
    <3>1. \A i \in 2..NPods : i \in Nat
      BY RigAssumption
    <3> QED
      BY <3>1, PodsAre
  <2>2. /\ NewClones \subseteq PodType /\ \A p \in NewClones : p.by = "pending"
        /\ \A p, q \in NewClones : p.name = q.name => p = q
    BY <2>1 DEF NewClones
  <2> QED
    BY <1>4, <2>2, ApplyKeeps
<1> QED
  BY <1>1, <1>2, <1>3, <1>4

LEMMA SameCluster ==
  ASSUME Consistent, UNCHANGED made PROVE Consistent'
BY DEF made, Consistent, Attached

LEMMA DeletesKeep ==
  ASSUME Consistent, NEW gone \in SUBSET Nodes, Deletes(gone)
  PROVE  /\ Consistent'
         /\ \A n \in Nodes : vms'[n] = IF n \in gone THEN 0 ELSE vms[n]
BY WipeKeeps DEF Deletes

(* The nodes of a cluster that is made for the phase. *)
LEMMA UpKeeps ==
  ASSUME RigInv, Consistent, Aged, UpK3d \/ UpLima \/ UpHalf
  PROVE  /\ Consistent' /\ rig'.epoch = rig.epoch /\ rig'.phase = rig.phase
         /\ rig'.at \in {"import", "down"}
         /\ \A n \in Nodes : vms'[n] \in {0, vms[n], rig.epoch}
         /\ rig'.at = "import" => \A n \in Nodes : vms'[n] # 0
         /\ rig'.at = "import" /\ kind = "k3d" => \A n \in Nodes : vms'[n] = rig.epoch
         /\ rig'.at = "import" /\ (\A n \in Nodes : vms'[n] = rig.epoch) =>
              chained' = {} /\ pods' = {}
<1>1. rig.at = "up" /\ rig.epoch \in Nat /\ \A n \in Nodes : vms[n] \in Nat /\ vms[n] < rig.epoch
  BY RigFields DEF UpK3d, UpLima, UpHalf, Aged, Consistent, RigInv
<1>2. rig.epoch # 0 /\ "server" \in Nodes /\ "agent" \in Nodes
  BY <1>1 DEF Nodes
<1>3. ASSUME Goto("import") PROVE rig'.at = "import" /\ rig'.epoch = rig.epoch /\ rig'.phase = rig.phase
  BY <1>3 DEF Goto, RigInv, Rig
<1>4. ASSUME rig' = Unwind
      PROVE rig'.at = "down" /\ rig'.epoch = rig.epoch /\ rig'.phase = rig.phase
  BY <1>1, <1>4 DEF Unwind, Deferred, RigInv, Rig
<1>5. CASE UpK3d
  <2>1. CASE /\ vms' = [n \in Nodes |-> rig.epoch]
             /\ chained' = {} /\ pods' = {} /\ ghosts' = {} /\ reach' = {}
             /\ Goto("import") \/ rig' = Unwind
    <3>1. Consistent'
      BY <1>1, <1>2, <2>1 DEF Consistent
    <3> QED
      BY <1>2, <1>3, <1>4, <2>1, <3>1
  <2>2. CASE (\E gone \in SUBSET Nodes : Deletes(gone)) /\ rig' = Unwind
    BY <1>4, <2>2, DeletesKeep
  <2> QED
    BY <1>5, <2>1, <2>2 DEF UpK3d
<1>6. CASE UpLima
  <2>1. /\ vms' = [n \in Nodes |-> IF vms[n] = 0 THEN rig.epoch ELSE vms[n]]
        /\ Goto("import") \/ rig' = Unwind
        /\ UNCHANGED <<kind, chained, pods, ghosts, reach>>
    BY <1>6 DEF UpLima
  <2>2. vms' \in [Nodes -> Nat] /\ \A n \in Nodes : vms'[n] # 0
    BY <1>1, <1>2, <2>1
  <2>3. Consistent'
    BY <2>1, <2>2, NodesKeep
  <2>4. \A n \in Nodes : vms'[n] = rig.epoch => vms[n] = 0
    BY <1>1, <2>1
  <2>5. (\A n \in Nodes : vms'[n] = rig.epoch) => chained' = {} /\ pods' = {}
    BY <1>2, <2>1, <2>4 DEF Consistent
  <2>6. kind # "k3d"
    BY <1>6 DEF UpLima
  <2> QED
    BY <1>3, <1>4, <2>1, <2>2, <2>3, <2>5, <2>6
<1>7. CASE UpHalf
  <2>1. PICK S \in {{}, {"server"}, Nodes} :
          vms' = [n \in Nodes |-> IF n \in S /\ vms[n] = 0 THEN rig.epoch ELSE vms[n]]
    BY <1>7 DEF UpHalf
  <2>2. vms' \in [Nodes -> Nat] /\ \A n \in Nodes : vms'[n] = 0 => vms[n] = 0
    BY <1>1, <1>2, <2>1
  <2>3. rig' = Unwind /\ UNCHANGED <<chained, pods, ghosts, reach>>
    BY <1>7 DEF UpHalf
  <2>4. Consistent'
    BY <2>2, <2>3, NodesKeep
  <2> QED
    BY <1>4, <2>1, <2>3, <2>4
<1> QED
  BY <1>5, <1>6, <1>7

(* A throughput sample: the next, that of the next rate, or the end. *)
LEMMA MeasureMoves ==
  ASSUME RigInv, MeasureRate
  PROVE  \E to \in {"iperf", "rateGate", "undo"} : \E rate, sample, n :
           /\ rig' = Moved(to, rate, sample, n)
           /\ to = "iperf" => rate = rig.rate
<1> DEFINE one == Sampled("iperf", "undo")
<1>1. rig.at \in Working \ {"undo"} /\ "iperf" \in Working /\ "undo" \in Working
  BY DEF MeasureRate, Working, Sweep
<1>2. /\ one = Moved(one.at, rig.rate, one.sample, one.n) /\ one.rate = rig.rate
      /\ one.at \in {"iperf", "undo"}
  BY <1>1, SampledIs
<1>3. \/ rig' = one
      \/ rig' = [one EXCEPT !.at = "rateGate", !.rate = one.rate + 1]
  BY DEF MeasureRate
<1> HIDE DEF one
<1>4. CASE rig' = one
  <2>1. rig' = Moved(one.at, rig.rate, one.sample, one.n)
    BY <1>2, <1>4
  <2> QED
    BY <1>2, <2>1
<1>5. CASE rig' = [one EXCEPT !.at = "rateGate", !.rate = one.rate + 1]
  <2>1. rig' = Moved("rateGate", one.rate + 1, one.sample, one.n)
    BY <1>2, <1>5 DEF Moved, RigInv, Rig
  <2> QED
    BY <2>1
<1> QED
  BY <1>3, <1>4, <1>5

(* What a step on the cluster does to the executor: it stays in its phase, *)
(* or the phase is over.                                                   *)
InPhase ==
  /\ rig'.epoch = rig.epoch /\ rig'.phase = rig.phase
  /\ rig'.at \in Standing \union {"down"}
  /\ vms' = vms /\ kind' = kind

OnCluster ==
  \/ ImportImage \/ InstallNatra \/ StagePhase \/ NextWorkload
  \/ RunIperfSweep \/ RunMixed \/ RunMemory

LEMMA StandingMoves ==
  ASSUME RigInv, OnCluster \/ (CommandFails /\ rig.at # "up")
  PROVE  InPhase /\ rig.at \in Standing
<1>0. kind' = kind
  BY BoundsStep DEF OnCluster, Next, RigStep
<1> USE <1>0 DEF Standing, Staging, Working, Sweep, Mixed, Memory
<1>1. ASSUME NEW to \in Standing \union {"down"}, Goto(to), vms' = vms PROVE InPhase
  BY <1>1 DEF Goto, InPhase, RigInv, Rig
<1>2. ASSUME rig' = Unwind, vms' = vms PROVE InPhase
  BY <1>2 DEF Unwind, InPhase, RigInv, Rig
<1>3. ASSUME rig' = Done, vms' = vms PROVE InPhase
  BY <1>3 DEF Done, InPhase, RigInv, Rig
<1>4. ASSUME NEW again \in Standing, NEW after \in Standing, rig' = Sampled(again, after), vms' = vms
      PROVE  InPhase
  BY <1>4 DEF Sampled, InPhase, RigInv, Rig
<1>5. CASE ImportImage \/ InstallNatra
  BY <1>1, <1>2, <1>5 DEF ImportImage, InstallNatra, made
<1>6. CASE StagePhase
  BY <1>1, <1>6 DEF StagePhase, ClearPods, DeployStaged, Await, PatchTBF, AwaitRoute, IfVanilla,
     ForceDelete, Apply, made
<1>7. CASE NextWorkload
  <2>1. rig.work > Len(plan.workloads) \/ rig.work \in 1..Len(plan.workloads)
    BY <1>7, PlanIs, RigFields DEF NextWorkload, RigInv, InTurn, Failing
  <2>2. rig.work \in 1..Len(plan.workloads) => First[plan.workloads[rig.work]] \in Standing
    BY <1>7, PlanIs DEF NextWorkload, RigInv, Counters, Over, Workloads, First
  <2>3. Len(plan.workloads) \in Nat /\ rig.work \in Nat
    BY PlanIs, RigFields DEF RigInv
  <2>4. \E to \in Standing \union {"down"} : Goto(to)
    BY <1>7, <2>1, <2>2, <2>3 DEF NextWorkload
  <2> QED
    BY <1>1, <1>7, <2>4 DEF NextWorkload, made
<1>8. CASE RunIperfSweep
  <2>1. CASE DeployRate
    BY <2>1 DEF DeployRate, Apply, InPhase, RigInv, Rig
  <2>2. CASE MeasureRate
    <3>1. rig'.epoch = rig.epoch /\ rig'.phase = rig.phase /\ rig'.at \in {"iperf", "rateGate", "undo"}
      BY <2>2, MeasureMoves DEF Moved, RigInv, Rig
    <3> QED
      BY <2>2, <3>1 DEF MeasureRate, InPhase, made
  <2>3. CASE UndoRates
    BY <1>1, <1>3, <2>3 DEF UndoRates, ForceDelete, made
  <2>4. CASE Await("ratesReady", {"rate"}, IfVanilla("ratesPatch", "rateGate"))
    BY <1>1, <2>4 DEF Await, IfVanilla, made
  <2>5. CASE PatchTBF("ratesPatch", "rateGate") \/ AwaitRoute("rateGate", <<"rate", rig.rate>>, "iperf")
    BY <1>1, <2>5 DEF PatchTBF, AwaitRoute, made
  <2> QED
    BY <1>8, <2>1, <2>2, <2>3, <2>4, <2>5
       DEF RunIperfSweep, DeployRate, MeasureRate, UndoRates, Await, PatchTBF, AwaitRoute
<1>9. CASE RunMixed
  <2>1. CASE Collect
    BY <1>2, <1>4, <2>1 DEF Collect, made
  <2>2. CASE Return("mixed")
    BY <1>3, <2>2 DEF Return, made
  <2>3. CASE DeployBystander \/ Await("byReady", {"bystander"}, "elephant")
    BY <1>1, <2>3 DEF DeployBystander, Apply, Await, made
  <2>4. CASE Spawn("elephant", {"elephant"}, "lag") \/ Spawn("lag", {"podMice", "byMice"}, "mice")
    BY <1>1, <2>4 DEF Spawn, made
  <2> QED
    BY <1>9, <2>1, <2>2, <2>3, <2>4 DEF RunMixed, Collect, Return, DeployBystander, Await, Spawn
<1>10. CASE RunMemory
  <2>1. CASE ScaleDown
    BY <1>4, <2>1 DEF ScaleDown, ForceDelete
  <2>2. CASE Return("measured")
    BY <1>3, <2>2 DEF Return, made
  <2>3. CASE EnsureBpftool
    BY <1>1, <1>2, <2>3 DEF EnsureBpftool, made
  <2>4. CASE CopyBpftool \/ SnapshotOne \/ SnapshotAll \/ DeployClones
    BY <1>1, <2>4 DEF CopyBpftool, SnapshotOne, SnapshotAll, DeployClones, Apply, made
  <2>5. CASE \/ Await("clonesReady", {"clone"}, IfVanilla("clonesPatch", "snapN"))
             \/ PatchTBF("clonesPatch", "snapN")
    BY <1>1, <2>5 DEF Await, PatchTBF, IfVanilla, made
  <2> QED
    BY <1>10, <2>1, <2>2, <2>3, <2>4, <2>5 DEF RunMemory, ScaleDown, Return, EnsureBpftool,
       CopyBpftool, SnapshotOne, SnapshotAll, DeployClones, Await, PatchTBF
<1>11. CASE CommandFails /\ rig.at # "up"
  BY <1>2, <1>11 DEF CommandFails, Fallible, Timed, Polling, made
<1> QED
  BY <1>5, <1>6, <1>7, <1>8, <1>9, <1>10, <1>11 DEF OnCluster

(* Between the phases. *)
LEMMA StartMoves ==
  ASSUME RigInv, Start
  PROVE  /\ UNCHANGED <<kind, plan, made>> /\ rig.at = "start"
         /\ \/ Accepted(plan) /\ rig'.at = "wipe" /\ rig'.epoch = rig.epoch + 1
            \/ ~Accepted(plan) /\ rig'.at = "exit" /\ rig'.epoch = rig.epoch
BY DEF Start, Begin, RigInv, Rig

LEMMA OpeningMoves ==
  ASSUME RigInv, OpeningDown
  PROVE  rig.at = "wipe" /\ rig'.at = "up" /\ rig'.epoch = rig.epoch
BY DEF OpeningDown, Goto, RigInv, Rig

LEMMA ClosingMoves ==
  ASSUME RigInv, ClosingDown
  PROVE  /\ rig.at = "down"
         /\ \E gone \in SUBSET Nodes :
              /\ Deletes(gone)
              /\ \/ /\ rig'.at \in {"report", "exit"} /\ rig'.epoch = rig.epoch
                    /\ gone = Nodes \/ rig'.left
                 \/ rig'.at = "wipe" /\ rig'.epoch = rig.epoch + 1
<1>1. PICK gone \in SUBSET Nodes :
        /\ Deletes(gone)
        /\ \/ rig' = [rig EXCEPT !.at = "exit", !.left = gone # Nodes]
           \/ rig' = [rig EXCEPT !.at = "report", !.left = gone # Nodes,
                                 !.phases = Append(@, rig.works)]
           \/ rig' = Begin(rig.phase + 1, rig.epoch + 1, Append(rig.phases, rig.works))
  BY DEF ClosingDown
<1> DEFINE left == gone # Nodes
<1>2. \/ rig' = [rig EXCEPT !.at = "exit", !.left = left]
      \/ rig' = [rig EXCEPT !.at = "report", !.left = left, !.phases = Append(@, rig.works)]
      \/ rig' = Begin(rig.phase + 1, rig.epoch + 1, Append(rig.phases, rig.works))
  BY <1>1
<1>3. left <=> gone # Nodes
  OBVIOUS
<1> HIDE DEF left
<1>4. \/ /\ rig'.at \in {"report", "exit"} /\ rig'.epoch = rig.epoch /\ rig'.left = left
      \/ rig'.at = "wipe" /\ rig'.epoch = rig.epoch + 1
  <2>1. ASSUME NEW l, \/ rig' = [rig EXCEPT !.at = "exit", !.left = l]
                      \/ rig' = [rig EXCEPT !.at = "report", !.left = l,
                                            !.phases = Append(@, rig.works)]
        PROVE  rig'.at \in {"report", "exit"} /\ rig'.epoch = rig.epoch /\ rig'.left = l
    BY <2>1 DEF RigInv, Rig
  <2>2. ASSUME rig' = Begin(rig.phase + 1, rig.epoch + 1, Append(rig.phases, rig.works))
        PROVE  rig'.at = "wipe" /\ rig'.epoch = rig.epoch + 1
    BY <2>2 DEF Begin
  <2> QED
    BY <1>2, <2>1, <2>2
<1>5. \/ /\ rig'.at \in {"report", "exit"} /\ rig'.epoch = rig.epoch
         /\ gone = Nodes \/ rig'.left
      \/ rig'.at = "wipe" /\ rig'.epoch = rig.epoch + 1
  BY <1>3, <1>4
<1> QED
  BY <1>1, <1>5 DEF ClosingDown

LEMMA InterruptMoves ==
  ASSUME RigInv, Interrupt
  PROVE  /\ rig.at \notin Over /\ rig'.at = "start" /\ rig'.epoch = rig.epoch
         /\ UNCHANGED <<kind, plan, made>>
BY DEF Interrupt, Begin, Over, RigInv, Rig

LEMMA ReportMoves ==
  ASSUME RigInv, WriteReport
  PROVE  /\ rig.at = "report" /\ rig'.at = "exit" /\ rig'.epoch = rig.epoch
         /\ rig'.left = rig.left /\ UNCHANGED <<kind, plan, made>>
BY DEF WriteReport, Goto, RigInv, Rig

LEMMA FailsMoves ==
  ASSUME RigInv, CommandFails, rig.at = "up"
  PROVE  /\ rig'.at = "down" /\ rig'.epoch = rig.epoch /\ UNCHANGED <<kind, plan, made>>
BY DEF CommandFails, Unwind, Deferred, RigInv, Rig

LEMMA Steps ==
  ASSUME [Next]_vars
  PROVE  \/ Start \/ OpeningDown \/ ClosingDown \/ WriteReport
         \/ UpK3d \/ UpLima \/ UpHalf
         \/ OnCluster
         \/ Retry \/ CommandFails
         \/ Interrupt \/ Admit \/ Route \/ Reap \/ Finish \/ UNCHANGED vars
BY DEF Next, RigStep, OnCluster

LEMMA ConsistentStep ==
  ASSUME RigInv, Consistent, Aged, [Next]_vars PROVE Consistent'
<1>1. CASE UNCHANGED made
  BY <1>1, SameCluster
<1>2. CASE OpeningDown
  BY <1>2, DeletesKeep DEF OpeningDown
<1>3. CASE ClosingDown
  BY <1>3, DeletesKeep DEF ClosingDown
<1>4. CASE OnCluster
  <2>1. rig.at \in Standing /\ vms' = vms /\ vms["server"] # 0 /\ \A n \in Nodes : vms[n] # 0
    BY <1>4, StandingMoves DEF InPhase, Aged, Nodes
  <2>2. ASSUME NEW from, NEW to, PatchTBF(from, to) PROVE Consistent'
    BY <2>2, PatchKeeps DEF PatchTBF
  <2>3. CASE ImportImage \/ InstallNatra
    <3>1. CASE InstallNatra
      <4>1. chained' \subseteq {n \in Nodes : vms[n] # 0}
        BY <2>1, <3>1 DEF InstallNatra, Consistent
      <4> QED
        BY <3>1, <4>1 DEF InstallNatra, Consistent, Attached
    <3> QED
      BY <1>1, <2>3, <3>1 DEF ImportImage
  <2>4. CASE StagePhase
    <3>1. CASE ClearPods
      BY <1>1, <3>1, ForceDeleteKeeps DEF ClearPods
    <3>2. CASE DeployStaged
      BY <2>1, <3>2, DeploymentsKeep DEF DeployStaged, StagedPods
    <3> QED
      BY <1>1, <2>2, <2>4, <3>1, <3>2 DEF StagePhase, Await, AwaitRoute
  <2>5. CASE NextWorkload
    BY <1>1, <2>5 DEF NextWorkload
  <2>6. CASE RunIperfSweep
    <3>1. CASE DeployRate
      BY <2>1, <3>1, DeploymentsKeep DEF DeployRate
    <3>2. CASE UndoRates
      BY <1>1, <3>2, ForceDeleteKeeps DEF UndoRates
    <3> QED
      BY <1>1, <2>2, <2>6, <3>1, <3>2 DEF RunIperfSweep, Await, AwaitRoute, MeasureRate
  <2>7. CASE RunMixed
    <3>1. CASE DeployBystander
      BY <2>1, <3>1, DeploymentsKeep DEF DeployBystander
    <3> QED
      BY <1>1, <2>7, <3>1 DEF RunMixed, Await, Spawn, Collect, Return
  <2>8. CASE RunMemory
    <3>1. CASE DeployClones
      BY <2>1, <3>1, DeploymentsKeep DEF DeployClones, NewClones
    <3>2. CASE ScaleDown
      BY <3>2, ForceDeleteKeeps DEF ScaleDown
    <3> QED
      BY <1>1, <2>2, <2>8, <3>1, <3>2
         DEF RunMemory, EnsureBpftool, CopyBpftool, SnapshotOne, Await, SnapshotAll, Return
  <2> QED
    BY <1>4, <2>3, <2>4, <2>5, <2>6, <2>7, <2>8 DEF OnCluster
<1>5. CASE Start \/ WriteReport \/ Retry \/ CommandFails \/ Interrupt \/ Finish \/ UNCHANGED vars
  BY <1>1, <1>5 DEF Start, WriteReport, Retry, CommandFails, Interrupt, Finish, vars
<1> QED
  BY <1>2, <1>3, <1>4, <1>5, Steps, UpKeeps, AdmitKeeps, RouteReapKeep

LEMMA AgedStep ==
  ASSUME RigInv, Consistent, Aged, [Next]_vars PROVE Aged'
<1>1. kind' = kind /\ rig.epoch \in Nat /\ \A n \in Nodes : vms[n] \in Nat
  BY BoundsStep, RigFields DEF RigInv, Consistent
<1>2. /\ {"report", "exit", "start", "down", "wipe", "up"} \intersect Standing = {}
      /\ "import" \in Standing
  BY DEF Standing, Staging, Working, Sweep, Mixed, Memory
<1>3. CASE Start
  BY <1>1, <1>2, <1>3, StartMoves DEF Aged, made
<1>4. CASE OpeningDown
  <2>1. \A n \in Nodes : vms'[n] \in {0, vms[n]}
    BY <1>4, DeletesKeep DEF OpeningDown
  <2>2. \A n \in Nodes : vms[n] < rig.epoch /\ vms'[n] < rig.epoch /\ vms'[n] <= rig.epoch
    BY <1>1, <1>4, <2>1, OpeningMoves DEF Aged
  <2> QED
    BY <1>2, <1>4, <2>2, OpeningMoves DEF Aged
<1>5. CASE ClosingDown
  <2>1. \A n \in Nodes : vms'[n] \in {0, vms[n]}
    BY <1>5, DeletesKeep DEF ClosingDown
  <2>2. \A n \in Nodes : vms'[n] <= rig.epoch /\ vms'[n] < rig.epoch + 1 /\ vms'[n] <= rig.epoch + 1
    BY <1>1, <2>1 DEF Aged
  <2> QED
    BY <1>2, <1>5, <2>2, ClosingMoves DEF Aged
<1>6. CASE UpK3d \/ UpLima \/ UpHalf
  <2>1. \A n \in Nodes : vms'[n] <= rig.epoch
    BY <1>1, <1>6, UpKeeps DEF Aged
  <2> QED
    BY <1>1, <1>2, <1>6, <2>1, UpKeeps DEF Aged, Fresh
<1>7. CASE OnCluster \/ (CommandFails /\ rig.at # "up")
  BY <1>1, <1>2, <1>7, StandingMoves DEF InPhase, Aged, Fresh
<1>8. CASE WriteReport \/ Interrupt \/ (CommandFails /\ rig.at = "up")
  BY <1>2, <1>8, ReportMoves, InterruptMoves, FailsMoves DEF Aged, made
<1>9. CASE Admit \/ Route \/ Reap \/ Finish \/ UNCHANGED vars
  BY <1>1, <1>9 DEF Admit, Route, Reap, Finish, vars, made, Aged, Fresh
<1>10. CASE Retry
  BY <1>1, <1>10, RetryIs DEF made, Aged, Fresh
<1> QED
  BY <1>3, <1>4, <1>5, <1>6, <1>7, <1>8, <1>9, <1>10, Steps

LEMMA LeavesStep ==
  ASSUME RigInv, Consistent, Aged, Leaves, [Next]_vars PROVE Leaves'
<1>1. plan' = plan /\ (rig.at \notin Over => Accepted(plan))
  BY BoundsStep DEF RigInv, Counters
<1>2. Accepted(plan)' <=> Accepted(plan)
  BY <1>1 DEF Accepted
<1>3. {"report", "exit"} \intersect (Standing \union {"down", "wipe", "start", "up"}) = {}
  BY DEF Standing, Staging, Working, Sweep, Mixed, Memory
<1>4. Standing \intersect Over = {}
  BY DEF Over, Standing, Staging, Working, Sweep, Mixed, Memory
<1>5. ASSUME rig.at \notin Over, rig'.at \notin {"report", "exit"} PROVE Leaves'
  BY <1>1, <1>2, <1>5 DEF Leaves
<1>6. CASE Start
  BY <1>1, <1>2, <1>3, <1>6, StartMoves DEF Leaves, Absent, made, Over
<1>7. CASE OpeningDown
  BY <1>5, <1>7, OpeningMoves DEF Over
<1>8. CASE ClosingDown
  <2>1. PICK gone \in SUBSET Nodes :
          /\ Deletes(gone)
          /\ \/ rig'.at \in {"report", "exit"} /\ (gone = Nodes \/ rig'.left)
             \/ rig'.at = "wipe"
    BY <1>8, ClosingMoves
  <2>2. rig.at \notin Over
    BY <1>8, ClosingMoves DEF Over
  <2>3. gone = Nodes => Absent'
    BY <2>1, DeletesKeep DEF Absent
  <2> QED
    BY <1>1, <1>2, <1>5, <2>1, <2>2, <2>3 DEF Leaves
<1>9. CASE WriteReport
  BY <1>1, <1>2, <1>9, ReportMoves DEF Leaves, Absent, made, Over
<1>10. CASE UpK3d \/ UpLima \/ UpHalf
  <2>1. rig.at = "up"
    BY <1>10 DEF UpK3d, UpLima, UpHalf
  <2> QED
    BY <1>5, <1>10, <2>1, UpKeeps DEF Over
<1>11. CASE OnCluster \/ (CommandFails /\ rig.at # "up")
  BY <1>3, <1>4, <1>5, <1>11, StandingMoves DEF InPhase
<1>12. CASE Interrupt
  BY <1>5, <1>12, InterruptMoves
<1>13. CASE CommandFails /\ rig.at = "up"
  BY <1>5, <1>13, FailsMoves DEF Over
<1>14. CASE Admit \/ Route \/ Reap \/ Finish \/ UNCHANGED vars
  BY <1>1, <1>2, <1>14 DEF Admit, Route, Reap, Finish, vars, made, Leaves, Absent
<1>15. CASE Retry
  BY <1>3, <1>4, <1>5, <1>15, RetryIs
<1> QED
  BY <1>6, <1>7, <1>8, <1>9, <1>10, <1>11, <1>12, <1>13, <1>14, <1>15, Steps

----------------------------------------------------------------------------
(* The pods of a phase.                                                    *)

LEMMA PhaseIs ==
  ASSUME rig \in Rig
  PROVE  /\ Phase \in {"baseline", "vanilla", "natra"}
         /\ Phase = "baseline" => Wanted = "none"
         /\ Phase = "vanilla" => Wanted = Burst1m
         /\ Phase = "natra" => Wanted = "natra"
         /\ (Phase = "natra") <=> (rig.phase = 3)
         /\ Wanted \notin {"pending", "tbf"}
<1>1. rig.phase \in 1..3
  BY RigFields
<1>2. Phases[1] = "baseline" /\ Phases[2] = "vanilla" /\ Phases[3] = "natra"
  BY DEF Phases
<1> QED
  BY <1>1, <1>2, BurstIs DEF Phase, Wanted

(* What a step that does not delete a pod leaves of it. *)
Stays(t) ==
  /\ There(t) => There(t)'
  /\ In(t) => In(t)'
  /\ Set(t) => Set(t)'
  /\ t \in reach => t \in reach'

SamePhase == rig'.phase = rig.phase /\ kind' = kind

LEMMA PhaseStays ==
  ASSUME SamePhase PROVE Phase' = Phase /\ Wanted' = Wanted /\ Burst1m' = Burst1m
BY DEF SamePhase, Phase, Wanted, Burst1m

LEMMA SameStays ==
  ASSUME SamePhase, UNCHANGED <<pods, reach>>, NEW t PROVE Stays(t)
BY PhaseStays DEF Stays, There, In, Set

LEMMA ApplyStays ==
  ASSUME SamePhase, NEW new, Apply(new), NEW t PROVE Stays(t)
BY PhaseStays DEF Stays, There, In, Set, Apply

LEMMA PatchStays ==
  ASSUME rig \in Rig, Consistent, SamePhase, pods' = Patched(pods), reach' = reach, NEW t
  PROVE  Stays(t)
<1>1. \A p \in pods : \E q \in pods' :
        q.name = p.name /\ q.by = IF p.by = "tbf" THEN Burst1m ELSE p.by
  BY PatchedAre DEF Consistent
<1>2. Wanted' = Wanted /\ Wanted # "tbf" /\ Burst1m # "pending"
  BY PhaseIs, PhaseStays, BurstIs
<1> QED
  BY <1>1, <1>2 DEF Stays, There, In, Set

LEMMA AdmitStays ==
  ASSUME rig \in Rig, Consistent, Admit, NEW t PROVE Stays(t)
<1>1. PICK p \in pods, q \in PodType :
        /\ p.by = "pending" /\ pods' = (pods \ {p}) \union {q}
        /\ q.name = p.name /\ q.by # "pending" /\ UNCHANGED <<kind, rig, reach>>
  BY AdmitIs
<1>2. Wanted' = Wanted /\ Wanted # "pending"
  BY <1>1, PhaseIs, PhaseStays DEF SamePhase
<1> QED
  BY <1>1, <1>2 DEF Stays, There, In, Set

LEMMA ForceStays ==
  ASSUME SamePhase, NEW roles, ForceDelete(roles), NEW t, t[1] \notin roles PROVE Stays(t)
BY PhaseStays DEF Stays, There, In, Set, ForceDelete

(* The shape of the pods. *)
LEMMA ApplyShapes ==
  ASSUME SamePhase, NEW new, Apply(new), \A p \in pods : Shaped(p), \A p \in new : Shaped(p)
  PROVE  (\A p \in pods : Shaped(p))'
BY PhaseStays DEF Shaped, Apply

LEMMA SubsetShapes ==
  ASSUME SamePhase, pods' \subseteq pods, \A p \in pods : Shaped(p)
  PROVE  (\A p \in pods : Shaped(p))'
BY PhaseStays DEF Shaped

LEMMA PatchShapes ==
  ASSUME SamePhase, Consistent, pods' = Patched(pods), \A p \in pods : Shaped(p)
  PROVE  (\A p \in pods : Shaped(p))'
<1>1. \A q \in pods' : \E p \in pods :
        /\ q.name = p.name /\ q.limit = p.limit
        /\ q.by = IF p.by = "tbf" THEN Burst1m ELSE p.by
  BY PatchedAre DEF Consistent
<1> QED
  BY <1>1, PhaseStays DEF Shaped

LEMMA NewShapes ==
  ASSUME NEW role \in {"server", "client", "rate", "bystander", "clone"}, NEW i \in Nat
  PROVE  /\ role \in {"server", "rate", "clone"} => Shaped(Pod(role, i))
         /\ role \notin {"server", "rate", "clone"} => Shaped(Plain(role))
<1>1. /\ Pod(role, i).name = <<role, i>> /\ Pod(role, i).by = "pending"
      /\ Pod(role, i).limit = (Phase # "baseline")
      /\ Plain(role).name = <<role, 0>> /\ Plain(role).by = "pending" /\ Plain(role).limit = FALSE
  BY PodsAre
<1>2. <<role, i>>[1] = role /\ <<role, 0>>[1] = role
  OBVIOUS
<1> QED
  BY <1>1, <1>2 DEF Shaped

(* A pod that is admitted has the shaper of its phase, but in the vanilla  *)
(* phase, where it has to be patched.                                      *)
LEMMA SetIfIn ==
  ASSUME rig \in Rig, \A p \in pods : Shaped(p), NEW t, t[1] \in {"server", "rate", "clone"},
         In(t), Phase # "vanilla"
  PROVE  Set(t)
BY PhaseIs DEF In, Set, Shaped

LEMMA SetIfPatched ==
  ASSUME rig \in Rig, Consistent, SamePhase, \A p \in pods : Shaped(p),
         NEW t, t[1] \in {"server", "rate", "clone"}, In(t), Phase = "vanilla",
         pods' = Patched(pods)
  PROVE  Set(t)'
<1>1. PICK p \in pods : p.name = t /\ p.by # "pending"
  BY DEF In
<1>2. p.by \in {"tbf", Burst1m}
  BY <1>1 DEF Shaped
<1>3. \E q \in pods' : q.name = t /\ q.by = Burst1m
  BY <1>1, <1>2, PatchedAre DEF Consistent
<1> QED
  BY <1>3, PhaseIs, PhaseStays DEF Set

LEMMA InIfAwaited ==
  ASSUME NEW roles, \A p \in pods : p.name[1] \in roles => p.by # "pending",
         NEW t, t[1] \in roles, There(t)
  PROVE  In(t)
BY DEF There, In

LEMMA ThereIfApplied ==
  ASSUME NEW new, Apply(new), NEW p \in new PROVE There(p.name)'
BY DEF There, Apply

(* What holds of a cluster that was made for the phase, once it is staged. *)
Fits == ShapesFit /\ ServerFits /\ RatesFit /\ ClonesFit
Staged == ServerIsSet \ {"gate"}
server0 == <<"server", 0>>
ShapedAll == \A p \in pods : Shaped(p)

LEMMA InPhaseFits ==
  ASSUME InPhase, StagedInv, rig.at \in Standing
  PROVE  SamePhase /\ Phase' = Phase /\ (Fresh' => Fresh /\ Fits)
BY PhaseStays DEF InPhase, SamePhase, Fresh, StagedInv, Fits

LEMMA WorkingStep ==
  ASSUME RigInv, StagedInv, InPhase, rig.at \in Staged, chained' = chained,
         Fresh /\ Fits =>
           /\ ShapedAll' /\ Stays(server0) /\ RatesFit' /\ ClonesFit'
           /\ rig'.at \in {"ratesPatch", "clonesPatch"} => Phase = "vanilla",
         rig'.at \notin {"import", "install", "stage", "deploy", "patch"}
  PROVE  StagedInv'
<1>1. rig.at \in Standing /\ rig.at \in ServerIsUp /\ rig.at \in ServerIsIn /\ rig.at \in ServerIsSet
      /\ rig.at \notin {"import", "install", "gate"}
  BY DEF Staged, ServerIsUp, ServerIsIn, ServerIsSet, Standing, Staging, Working, Sweep, Mixed, Memory
<1>2. SUFFICES ASSUME Fresh', rig'.at \in Standing PROVE Fits'
  BY DEF StagedInv, Fits
<1>3. Fresh /\ Fits /\ Phase' = Phase
  BY <1>1, <1>2, InPhaseFits
<1>4. ShapesFit'
  BY <1>1, <1>3 DEF Fits, ShapesFit, ShapedAll
<1>5. ServerFits'
  BY <1>1, <1>3 DEF Fits, ServerFits, Stays, server0
<1> QED
  BY <1>3, <1>4, <1>5 DEF Fits

LEMMA ElsewhereFits ==
  /\ rig'.at \notin Sweep => RatesFit'
  /\ rig'.at \notin {"clonesReady", "clonesPatch", "snapN"} => ClonesFit'
BY DEF RatesFit, ClonesFit, Sweep, RatesAreUp, RatesAreIn, RatesAreSet

(* A step that leaves the pods alone, and no workload's own. *)
LEMMA IdleStep ==
  ASSUME RigInv, StagedInv, InPhase, rig.at \in Staged, UNCHANGED <<chained, pods, reach>>,
         rig'.at \notin Sweep \ {"rates"}, rig'.at = "rates" => rig'.rate = 1,
         rig'.at \notin {"clonesReady", "clonesPatch", "snapN"},
         rig'.at \notin {"import", "install", "stage", "deploy", "patch"}
  PROVE  StagedInv'
<1>1. SamePhase
  BY DEF InPhase, SamePhase
<1>2. Stays(server0)
  BY <1>1, SameStays
<1>3. ShapedAll => ShapedAll'
  BY <1>1, SubsetShapes DEF ShapedAll
<1>4. RatesFit'
  <2>1. 1..(1 - 1) = {}
    OBVIOUS
  <2> QED
    BY <2>1, ElsewhereFits DEF RatesFit, Sweep, RatesAreUp, RatesAreIn, RatesAreSet
<1>5. ClonesFit'
  BY ElsewhereFits
<1>6. rig'.at \notin {"ratesPatch", "clonesPatch"}
  BY DEF Sweep
<1> QED
  BY <1>2, <1>3, <1>4, <1>5, <1>6, WorkingStep DEF Fits, ShapesFit, ShapedAll

LEMMA GotoIs ==
  ASSUME rig \in Rig, NEW to, Goto(to)
  PROVE  rig'.at = to /\ rig'.rate = rig.rate /\ rig'.phase = rig.phase /\ rig'.epoch = rig.epoch
BY DEF Goto, Rig

LEMMA UnwindIs ==
  ASSUME rig \in Rig, rig' = Unwind
  PROVE  rig'.at \in {"undo", "down"} /\ (rig'.at = "undo" => rig.at \in Deferred)
BY DEF Unwind, Rig

LEMMA SampledMoves ==
  ASSUME rig \in Rig, NEW again, NEW after, rig' = Sampled(again, after)
  PROVE  rig'.at \in {again, after}
BY DEF Sampled, Rig

LEMMA DoneIs ==
  ASSUME rig \in Rig, rig' = Done
  PROVE  rig'.at = "next" /\ rig'.rate = 1
BY DEF Done, Rig

(* A step whose phase is over needs nothing. *)
LEMMA OverFits ==
  ASSUME rig'.at \notin Standing PROVE StagedInv'
BY DEF StagedInv

LEMMA FailsFits ==
  ASSUME RigInv, StagedInv, CommandFails PROVE StagedInv'
<1>0. rig \in Rig /\ rig' = Unwind /\ UNCHANGED <<chained, pods, reach>>
  BY DEF CommandFails, RigInv, made
<1>1. rig'.at \in {"undo", "down"} /\ (rig'.at = "undo" => rig.at \in Deferred)
  BY <1>0, UnwindIs
<1>2. CASE rig'.at = "down"
  <2>1. "down" \notin Standing
    BY DEF Standing, Staging, Working, Sweep, Mixed, Memory
  <2> QED
    BY <1>2, <2>1, OverFits
<1>3. CASE rig'.at = "undo"
  <2>1. rig.at \in Staged /\ rig.at # "up"
    BY <1>1, <1>3 DEF Deferred, Staged, ServerIsUp, ServerIsIn, ServerIsSet, Standing, Staging,
       Working, Sweep
  <2>2. InPhase
    BY <2>1, StandingMoves
  <2> QED
    BY <1>0, <1>3, <2>1, <2>2, IdleStep DEF Sweep
<1> QED
  BY <1>1, <1>2, <1>3

(* The setup of a phase. *)
LEMMA UpFits ==
  ASSUME RigInv, Consistent, Aged, UpK3d \/ UpLima \/ UpHalf PROVE StagedInv'
<1>1. SUFFICES ASSUME Fresh', rig'.at \in Standing PROVE Fits'
  BY DEF StagedInv, Fits
<1>2. rig'.at = "import"
  <2>1. "down" \notin Standing
    BY DEF Standing, Staging, Working, Sweep, Mixed, Memory
  <2> QED
    BY <1>1, <2>1, UpKeeps
<1>3. chained' = {} /\ pods' = {} /\ rig'.phase = rig.phase
  BY <1>1, <1>2, UpKeeps DEF Fresh
<1>4. Phase' = Phase
  BY <1>3 DEF Phase
<1> QED
  BY <1>2, <1>3, <1>4, ElsewhereFits DEF Fits, ShapesFit, ServerFits, ServerIsUp, ServerIsIn,
     ServerIsSet, Sweep

LEMMA NotUpYet ==
  /\ {"import", "install", "stage", "deploy"} \intersect ServerIsUp = {}
  /\ ServerIsIn \subseteq ServerIsUp /\ ServerIsSet \subseteq ServerIsIn
  /\ "ready" \in ServerIsUp /\ "ready" \notin ServerIsIn
  /\ "patch" \in ServerIsIn /\ "patch" \notin ServerIsSet /\ "gate" \in ServerIsSet
  /\ {"import", "install", "next"} \union Staging \subseteq Standing
  /\ ({"import", "install"} \union Staging) \intersect Sweep = {}
BY DEF ServerIsUp, ServerIsIn, ServerIsSet, Standing, Staging, Working, Sweep, Mixed, Memory

LEMMA SetupFits ==
  ASSUME RigInv, StagedInv, ImportImage \/ InstallNatra \/ ClearPods PROVE StagedInv'
<1>1. InPhase /\ rig.at \in Standing
  BY StandingMoves DEF OnCluster, StagePhase
<1>2. SUFFICES ASSUME Fresh', rig'.at \in Standing PROVE Fits'
  BY DEF StagedInv, Fits
<1>3. Fresh /\ Fits /\ Phase' = Phase
  BY <1>1, <1>2, InPhaseFits
<1>4. "down" \notin Standing /\ "undo" \notin {"import", "install"} /\ rig \in Rig
  BY DEF Standing, Staging, Working, Sweep, Mixed, Memory, RigInv
<1>5. CASE ImportImage
  <2>1. /\ rig.at = "import" /\ rig'.at = IF Phase = "natra" THEN "install" ELSE "stage"
        /\ UNCHANGED <<chained, pods>>
    BY <1>4, <1>5, GotoIs DEF ImportImage, made
  <2> QED
    BY <1>3, <2>1, NotUpYet, ElsewhereFits DEF Fits, ShapesFit, ServerFits, Staging
<1>6. CASE InstallNatra
  <2>1. rig.at = "install" /\ pods' = pods
    BY <1>6 DEF InstallNatra
  <2>2. rig' # Unwind
    BY <1>2, <1>4, <2>1, UnwindIs DEF Deferred
  <2>3. rig'.at = "stage" /\ chained' = Nodes
    BY <1>4, <1>6, <2>2, GotoIs DEF InstallNatra
  <2> QED
    BY <1>3, <2>1, <2>3, NotUpYet, ElsewhereFits DEF Fits, ShapesFit, ServerFits, Staging
<1>7. CASE ClearPods
  <2>1. rig.at = "stage" /\ rig'.at = "deploy" /\ chained' = chained /\ pods' \subseteq pods
    BY <1>4, <1>7, GotoIs DEF ClearPods, ForceDelete, made
  <2> QED
    BY <1>3, <2>1, NotUpYet, ElsewhereFits DEF Fits, ShapesFit, ServerFits, Staging
<1> QED
  BY <1>5, <1>6, <1>7

LEMMA DeployStagedFits ==
  ASSUME RigInv, StagedInv, DeployStaged PROVE StagedInv'
<1>1. InPhase /\ rig.at \in Standing
  BY StandingMoves DEF OnCluster, StagePhase
<1>2. SUFFICES ASSUME Fresh', rig'.at \in Standing PROVE Fits'
  BY DEF StagedInv, Fits
<1>3. Fresh /\ Fits /\ Phase' = Phase /\ SamePhase
  BY <1>1, <1>2, InPhaseFits
<1>4. /\ rig.at = "deploy" /\ rig'.at = "ready" /\ chained' = chained
      /\ Apply(StagedPods)
  BY GotoIs DEF DeployStaged, Apply, StagedPods, RigInv
<1>5. Pod("server", 0).name = server0 /\ Pod("server", 0) \in StagedPods
  BY PodsAre DEF StagedPods, server0
<1>6. There(server0)'
  BY <1>4, <1>5, ThereIfApplied
<1>7. \A p \in StagedPods : Shaped(p)
  <2>1. 0 \in Nat
    OBVIOUS
  <2>2. Shaped(Pod("server", 0)) /\ Shaped(Plain("client"))
    BY <2>1, NewShapes
  <2> QED
    BY <2>2 DEF StagedPods
<1>8. ShapedAll'
  BY <1>3, <1>4, <1>7, ApplyShapes DEF ShapedAll, Fits, ShapesFit
<1>9. ShapesFit'
  BY <1>3, <1>4, <1>8 DEF Fits, ShapesFit, ShapedAll
<1>10. ServerFits'
  BY <1>4, <1>6, NotUpYet DEF ServerFits, server0
<1> QED
  BY <1>4, <1>9, <1>10, NotUpYet, ElsewhereFits DEF Fits, Staging

LEMMA AwaitServerFits ==
  ASSUME RigInv, StagedInv, Await("ready", {"server", "client"}, IfVanilla("patch", "gate"))
  PROVE  StagedInv'
<1>1. InPhase /\ rig.at \in Standing
  BY StandingMoves DEF OnCluster, StagePhase
<1>2. SUFFICES ASSUME Fresh', rig'.at \in Standing PROVE Fits'
  BY DEF StagedInv, Fits
<1>3. Fresh /\ Fits /\ Phase' = Phase /\ SamePhase
  BY <1>1, <1>2, InPhaseFits
<1>4. /\ rig.at = "ready" /\ rig'.at = (IF Phase = "vanilla" THEN "patch" ELSE "gate")
      /\ UNCHANGED <<chained, pods, reach>> /\ rig \in Rig
      /\ \A p \in pods : p.name[1] \in {"server", "client"} => p.by # "pending"
  BY GotoIs DEF Await, IfVanilla, made, RigInv
<1>5. server0[1] = "server" /\ There(server0)
  BY <1>3, <1>4, NotUpYet DEF server0, Fits, ServerFits
<1>6. In(server0)
  BY <1>4, <1>5, InIfAwaited
<1>7. Phase # "vanilla" => Set(server0)
  BY <1>3, <1>4, <1>5, <1>6, SetIfIn DEF Fits, ShapesFit
<1>8. Stays(server0)
  BY <1>3, <1>4, SameStays
<1>9. ServerFits'
  BY <1>4, <1>5, <1>6, <1>7, <1>8, NotUpYet DEF ServerFits, Stays, server0
<1>10. ShapesFit'
  BY <1>3, <1>4, SubsetShapes DEF Fits, ShapesFit
<1> QED
  BY <1>4, <1>9, <1>10, NotUpYet, ElsewhereFits DEF Fits, Staging

LEMMA PatchServerFits ==
  ASSUME RigInv, Consistent, StagedInv, PatchTBF("patch", "gate") PROVE StagedInv'
<1>1. InPhase /\ rig.at \in Standing
  BY StandingMoves DEF OnCluster, StagePhase
<1>2. SUFFICES ASSUME Fresh', rig'.at \in Standing PROVE Fits'
  BY DEF StagedInv, Fits
<1>3. Fresh /\ Fits /\ Phase' = Phase /\ SamePhase
  BY <1>1, <1>2, InPhaseFits
<1>4. /\ rig.at = "patch" /\ rig'.at = "gate" /\ pods' = Patched(pods)
      /\ UNCHANGED <<chained, reach>> /\ rig \in Rig
  BY GotoIs DEF PatchTBF, RigInv
<1>5. server0[1] = "server" /\ There(server0) /\ In(server0) /\ Phase = "vanilla"
  BY <1>3, <1>4, NotUpYet DEF server0, Fits, ShapesFit, ServerFits
<1>6. Set(server0)'
  BY <1>3, <1>4, <1>5, SetIfPatched DEF Fits, ShapesFit
<1>7. Stays(server0)
  BY <1>3, <1>4, PatchStays
<1>8. ServerFits'
  BY <1>4, <1>5, <1>6, <1>7, NotUpYet DEF ServerFits, Stays, server0
<1>9. ShapesFit'
  BY <1>3, <1>4, PatchShapes DEF Fits, ShapesFit
<1> QED
  BY <1>4, <1>8, <1>9, NotUpYet, ElsewhereFits DEF Fits, Staging

LEMMA GateFits ==
  ASSUME RigInv, StagedInv, AwaitRoute("gate", <<"server", 0>>, "next") PROVE StagedInv'
<1>1. InPhase /\ rig.at \in Standing
  BY StandingMoves DEF OnCluster, StagePhase
<1>2. SUFFICES ASSUME Fresh', rig'.at \in Standing PROVE Fits'
  BY DEF StagedInv, Fits
<1>3. Fresh /\ Fits /\ Phase' = Phase /\ SamePhase
  BY <1>1, <1>2, InPhaseFits
<1>4. /\ rig.at = "gate" /\ rig'.at = "next" /\ UNCHANGED <<chained, pods, reach>>
      /\ server0 \in reach
  BY GotoIs DEF AwaitRoute, made, RigInv, server0
<1>5. Stays(server0)
  BY <1>3, <1>4, SameStays
<1>6. ServerFits'
  BY <1>3, <1>4, <1>5, NotUpYet DEF Fits, ServerFits, Stays, server0
<1>7. ShapesFit'
  BY <1>3, <1>4, SubsetShapes DEF Fits, ShapesFit
<1> QED
  BY <1>4, <1>6, <1>7, ElsewhereFits DEF Fits, Sweep

(* The workloads. *)
LEMMA AtWorkIsStaged ==
  /\ Working \union {"next"} \subseteq Staged
  /\ Working \intersect {"import", "install", "stage", "deploy", "patch"} = {}
  /\ Sweep \union Mixed \union Memory \union {"undo"} = Working
  /\ Sweep \intersect Memory = {} /\ Sweep \intersect Mixed = {}
BY DEF Staged, ServerIsUp, ServerIsIn, ServerIsSet, Standing, Staging, Working, Sweep, Mixed, Memory

LEMMA NextWorkloadFits ==
  ASSUME RigInv, StagedInv, NextWorkload PROVE StagedInv'
<1>1. InPhase
  BY StandingMoves DEF OnCluster
<1>2. rig.at = "next" /\ rig \in Rig /\ UNCHANGED <<chained, pods, reach>> /\ plan' = plan
  BY DEF NextWorkload, made, RigInv
<1>3. CASE rig.work > Len(plan.workloads)
  <2>1. rig'.at = "down"
    BY <1>2, <1>3, GotoIs DEF NextWorkload
  <2>2. "down" \notin Standing
    BY DEF Standing, Staging, Working, Sweep, Mixed, Memory
  <2> QED
    BY <2>1, <2>2, OverFits
<1>4. CASE ~(rig.work > Len(plan.workloads))
  <2>1. rig.work \in 1..Len(plan.workloads) /\ rig.rate = 1
    BY <1>2, <1>4, PlanIs, RigFields, AtWorkIsStaged
       DEF RigInv, InTurn, Counted, Failing, Working, Sweep, Mixed, Memory
  <2>2. plan.workloads[rig.work] \in Workloads
    BY <1>2, <2>1, PlanIs DEF RigInv, Counters, Over
  <2>3. rig'.at = First[plan.workloads[rig.work]] /\ rig'.rate = 1
    BY <1>2, <1>4, <2>1, GotoIs DEF NextWorkload
  <2>4. rig'.at \in {"rates", "bystander", "bpftool"}
    BY <2>2, <2>3 DEF Workloads, First
  <2> QED
    BY <1>1, <1>2, <2>3, <2>4, IdleStep, AtWorkIsStaged DEF Sweep
<1> QED
  BY <1>3, <1>4

(* A step of the sweep that leaves it, or that goes on in it. *)
LEMMA DeployRateFits ==
  ASSUME RigInv, StagedInv, DeployRate PROVE StagedInv'
<1>1. InPhase /\ SamePhase
  BY StandingMoves DEF OnCluster, RunIperfSweep, InPhase, SamePhase
<1> DEFINE new == {Pod("rate", rig.rate)}
<1>2. /\ rig.at = "rates" /\ rig.at \in Working /\ Apply(new) /\ UNCHANGED <<plan, chained>>
      /\ rig \in Rig /\ rig.rate \in Nat /\ Len(plan.rates) \in Nat
      /\ rig.rate \in 1..Len(plan.rates)
  BY RigFields, PlanIs DEF DeployRate, Apply, RigInv, Counters, Over, Working, Sweep
<1>3. \/ rig'.at = "rates" /\ rig'.rate = rig.rate + 1
      \/ rig'.at = "ratesReady" /\ rig.rate = Len(plan.rates)
  BY <1>2 DEF DeployRate, Rig
<1>4. Pod("rate", rig.rate).name = <<"rate", rig.rate>> /\ Shaped(Pod("rate", rig.rate))
  BY <1>2, PodsAre, NewShapes
<1> PICK r \in 1..Len(plan.rates) : r = rig.rate
  BY <1>2
<1>5. There(<<"rate", r>>)'
  BY <1>2, <1>4, ThereIfApplied
<1> HIDE DEF new
<1>6. \A t : Stays(t)
  BY <1>1, <1>2, ApplyStays
<1>7. ShapedAll => ShapedAll'
  BY <1>1, <1>2, <1>4, ApplyShapes DEF ShapedAll, new
<1>8. RatesFit => RatesFit'
  <2>1. SUFFICES ASSUME RatesFit PROVE RatesFit'
    OBVIOUS
  <2>2. \A i \in 1..r : There(<<"rate", i>>)'
    <3>1. \A i \in 1..r : i = r \/ i \in 1..(r - 1)
      BY <1>2
    <3> QED
      BY <1>2, <1>5, <1>6, <2>1, <3>1 DEF RatesFit, Stays
  <2>3. CASE rig'.at = "rates" /\ rig'.rate = rig.rate + 1
    <3>1. rig'.rate - 1 = rig.rate
      BY <1>2, <2>3
    <3> QED
      BY <2>2, <2>3, <3>1 DEF RatesFit, RatesAreUp, RatesAreIn, RatesAreSet
  <2>4. CASE rig'.at = "ratesReady" /\ rig.rate = Len(plan.rates)
    <3>1. RatePods' = {<<"rate", i>> : i \in 1..rig.rate}
      BY <1>2, <2>4 DEF RatePods
    <3> QED
      BY <2>2, <2>4, <3>1 DEF RatesFit, RatesAreUp, RatesAreIn, RatesAreSet
  <2> QED
    BY <1>3, <2>3, <2>4
<1> QED
  BY <1>1, <1>2, <1>3, <1>6, <1>7, <1>8, WorkingStep, ElsewhereFits, AtWorkIsStaged
     DEF Fits, ShapesFit, ShapedAll

LEMMA RatePodsAre ==
  ASSUME UNCHANGED plan
  PROVE  RatePods' = RatePods /\ \A t \in RatePods : t[1] = "rate"
BY DEF RatePods

LEMMA SweepIs ==
  /\ "rates" \notin RatesAreUp /\ "ratesReady" \in RatesAreUp /\ "ratesReady" \notin RatesAreIn
  /\ "ratesPatch" \in RatesAreIn /\ "ratesPatch" \notin RatesAreSet
  /\ {"rateGate", "iperf"} \subseteq RatesAreSet
  /\ RatesAreSet \subseteq RatesAreIn /\ RatesAreIn \subseteq RatesAreUp /\ RatesAreUp \subseteq Sweep
  /\ "undo" \notin Sweep
BY DEF Sweep, RatesAreUp, RatesAreIn, RatesAreSet

LEMMA AwaitRatesFits ==
  ASSUME RigInv, StagedInv, Await("ratesReady", {"rate"}, IfVanilla("ratesPatch", "rateGate"))
  PROVE  StagedInv'
<1>1. InPhase /\ SamePhase
  BY StandingMoves DEF OnCluster, RunIperfSweep, InPhase, SamePhase
<1>2. /\ rig.at = "ratesReady" /\ rig'.at = (IF Phase = "vanilla" THEN "ratesPatch" ELSE "rateGate")
      /\ UNCHANGED <<plan, chained, pods, reach>> /\ rig \in Rig
      /\ \A p \in pods : p.name[1] \in {"rate"} => p.by # "pending"
  BY GotoIs DEF Await, IfVanilla, made, RigInv
<1>3. \A t : Stays(t)
  BY <1>1, <1>2, SameStays
<1>4. ShapedAll => ShapedAll'
  BY <1>1, <1>2, SubsetShapes DEF ShapedAll
<1>5. ASSUME RatesFit, ShapedAll PROVE RatesFit'
  <2>1. \A t \in RatePods : There(t) /\ In(t)
    BY <1>2, <1>5, SweepIs, RatePodsAre, InIfAwaited DEF RatesFit
  <2>2. Phase # "vanilla" => \A t \in RatePods : Set(t)
    BY <1>2, <1>5, <2>1, RatePodsAre, SetIfIn DEF ShapedAll
  <2> QED
    BY <1>2, <1>3, <2>1, <2>2, RatePodsAre, SweepIs DEF RatesFit, Stays
<1> QED
  BY <1>1, <1>2, <1>3, <1>4, <1>5, WorkingStep, ElsewhereFits, AtWorkIsStaged
     DEF Fits, ShapesFit, ShapedAll, Sweep

LEMMA PatchRatesFits ==
  ASSUME RigInv, Consistent, StagedInv, PatchTBF("ratesPatch", "rateGate") PROVE StagedInv'
<1>1. InPhase /\ SamePhase
  BY StandingMoves DEF OnCluster, RunIperfSweep, InPhase, SamePhase
<1>2. /\ rig.at = "ratesPatch" /\ rig'.at = "rateGate" /\ pods' = Patched(pods)
      /\ UNCHANGED <<plan, chained, reach>> /\ rig \in Rig
  BY GotoIs DEF PatchTBF, RigInv
<1>3. \A t : Stays(t)
  BY <1>1, <1>2, PatchStays
<1>4. ShapedAll => ShapedAll'
  BY <1>1, <1>2, PatchShapes DEF ShapedAll
<1>5. ASSUME RatesFit, ShapesFit PROVE RatesFit'
  <2>1. Phase = "vanilla" /\ \A t \in RatePods : There(t) /\ In(t)
    BY <1>2, <1>5, SweepIs DEF RatesFit, ShapesFit
  <2>2. \A t \in RatePods : Set(t)'
    BY <1>1, <1>2, <1>5, <2>1, RatePodsAre, SetIfPatched DEF ShapesFit
  <2> QED
    BY <1>2, <1>3, <2>1, <2>2, RatePodsAre, SweepIs DEF RatesFit, Stays
<1> QED
  BY <1>1, <1>2, <1>3, <1>4, <1>5, WorkingStep, ElsewhereFits, AtWorkIsStaged
     DEF Fits, ShapesFit, ShapedAll, Sweep

LEMMA RateGateFits ==
  ASSUME RigInv, StagedInv, AwaitRoute("rateGate", <<"rate", rig.rate>>, "iperf")
  PROVE  StagedInv'
<1>1. InPhase /\ SamePhase
  BY StandingMoves DEF OnCluster, RunIperfSweep, InPhase, SamePhase
<1>2. /\ rig.at = "rateGate" /\ rig'.at = "iperf" /\ rig'.rate = rig.rate
      /\ UNCHANGED <<plan, chained, pods, reach>> /\ rig \in Rig /\ <<"rate", rig.rate>> \in reach
  BY GotoIs DEF AwaitRoute, made, RigInv
<1>3. \A t : Stays(t)
  BY <1>1, <1>2, SameStays
<1>4. ShapedAll => ShapedAll'
  BY <1>1, <1>2, SubsetShapes DEF ShapedAll
<1>5. RatesFit => RatesFit'
  BY <1>2, <1>3, RatePodsAre, SweepIs DEF RatesFit, Stays
<1> QED
  BY <1>1, <1>2, <1>3, <1>4, <1>5, WorkingStep, ElsewhereFits, AtWorkIsStaged
     DEF Fits, ShapesFit, ShapedAll, Sweep

LEMMA MeasureRateFits ==
  ASSUME RigInv, StagedInv, MeasureRate PROVE StagedInv'
<1>1. InPhase /\ SamePhase
  BY StandingMoves DEF OnCluster, RunIperfSweep, InPhase, SamePhase
<1>2. /\ rig.at = "iperf" /\ UNCHANGED <<plan, chained, pods, reach>> /\ rig \in Rig
      /\ rig'.at \in {"iperf", "rateGate", "undo"} /\ (rig'.at = "iperf" => rig'.rate = rig.rate)
  BY MeasureMoves DEF MeasureRate, made, RigInv, Rig, Moved
<1>3. \A t : Stays(t)
  BY <1>1, <1>2, SameStays
<1>4. ShapedAll => ShapedAll'
  BY <1>1, <1>2, SubsetShapes DEF ShapedAll
<1>5. RatesFit => RatesFit'
  BY <1>2, <1>3, RatePodsAre, SweepIs DEF RatesFit, Stays
<1> QED
  BY <1>1, <1>2, <1>3, <1>4, <1>5, WorkingStep, ElsewhereFits, AtWorkIsStaged
     DEF Fits, ShapesFit, ShapedAll, Sweep

(* A step that deletes the pods of a workload, and leaves it. *)
LEMMA DeletingStep ==
  ASSUME RigInv, StagedInv, InPhase, rig.at \in Working, NEW roles, "server" \notin roles,
         ForceDelete(roles), rig'.at \in {"next", "down", "memory", "measured"}
  PROVE  StagedInv'
<1>1. SamePhase /\ chained' = chained /\ pods' \subseteq pods
  BY DEF InPhase, SamePhase, ForceDelete
<1>2. Stays(server0)
  <2>1. server0[1] = "server"
    BY DEF server0
  <2> QED
    BY <1>1, <2>1, ForceStays
<1>3. ShapedAll => ShapedAll'
  BY <1>1, SubsetShapes DEF ShapedAll
<1>4. RatesFit' /\ ClonesFit'
  BY ElsewhereFits DEF Sweep
<1> QED
  BY <1>1, <1>2, <1>3, <1>4, WorkingStep, AtWorkIsStaged DEF Fits, ShapesFit, ShapedAll

LEMMA UndoRatesFits ==
  ASSUME RigInv, StagedInv, UndoRates PROVE StagedInv'
<1>1. InPhase
  BY StandingMoves DEF OnCluster, RunIperfSweep
<1>2. /\ rig.at = "undo" /\ rig.at \in Working /\ rig \in Rig
      /\ rig'.at \in {"next", "down"}
      /\ ForceDelete({"rate"}) \/ UNCHANGED <<chained, pods, reach>>
  BY GotoIs, DoneIs DEF UndoRates, made, RigInv, Working
<1> QED
  BY <1>1, <1>2, DeletingStep, IdleStep, AtWorkIsStaged DEF Sweep

LEMMA MixedFits ==
  ASSUME RigInv, StagedInv, RunMixed PROVE StagedInv'
<1>1. InPhase /\ rig \in Rig
  BY StandingMoves DEF OnCluster, RigInv
<1>2. CASE DeployBystander
  <2>1. /\ Apply({Plain("bystander")}) /\ rig.at = "bystander" /\ rig'.at = "byReady"
        /\ chained' = chained
    BY <1>1, <1>2, GotoIs DEF DeployBystander, Apply
  <2>2. SamePhase
    BY <1>1 DEF InPhase, SamePhase
  <2>3. Shaped(Plain("bystander"))
    <3>1. 0 \in Nat
      OBVIOUS
    <3> QED
      BY <3>1, NewShapes
  <2>4. ShapedAll => ShapedAll'
    BY <2>1, <2>2, <2>3, ApplyShapes DEF ShapedAll
  <2>5. Stays(server0)
    BY <2>1, <2>2, ApplyStays
  <2>6. rig.at \in Working
    BY <2>1 DEF Working, Mixed
  <2> QED
    BY <1>1, <2>1, <2>4, <2>5, <2>6, WorkingStep, ElsewhereFits, AtWorkIsStaged
       DEF Fits, ShapesFit, ShapedAll, Sweep
<1>3. CASE ~DeployBystander
  <2>1. /\ UNCHANGED <<chained, pods, reach>> /\ rig.at \in Mixed
        /\ rig'.at \in {"elephant", "lag", "mice", "mixed", "next", "undo", "down"}
    <3>1. CASE Collect
      BY <1>1, <3>1, UnwindIs, SampledMoves DEF Collect, Mixed, made
    <3>2. CASE Return("mixed")
      BY <1>1, <3>2, DoneIs DEF Return, Mixed, made
    <3>3. CASE Await("byReady", {"bystander"}, "elephant")
      BY <1>1, <3>3, GotoIs DEF Await, Mixed, made
    <3>4. CASE Spawn("elephant", {"elephant"}, "lag") \/ Spawn("lag", {"podMice", "byMice"}, "mice")
      BY <1>1, <3>4, GotoIs DEF Spawn, Mixed, made
    <3> QED
      BY <1>3, <3>1, <3>2, <3>3, <3>4 DEF RunMixed
  <2>2. rig.at \in Staged
    BY <2>1, AtWorkIsStaged
  <2> QED
    BY <1>1, <2>1, <2>2, IdleStep DEF Sweep
<1> QED
  BY <1>2, <1>3

LEMMA DeployClonesFits ==
  ASSUME RigInv, StagedInv, DeployClones PROVE StagedInv'
<1>1. InPhase /\ SamePhase
  BY StandingMoves DEF OnCluster, RunMemory, InPhase, SamePhase
<1>2. /\ Apply(NewClones) /\ rig.at = "clones" /\ rig'.at = "clonesReady" /\ chained' = chained
      /\ rig.at \in Working
  BY GotoIs DEF DeployClones, Apply, NewClones, RigInv, Working, Memory
<1>3. \A i \in 2..NPods : i \in Nat
  BY RigAssumption
<1>4. \A i \in 2..NPods : /\ Pod("clone", i) \in NewClones /\ Pod("clone", i).name = <<"clone", i>>
                          /\ Shaped(Pod("clone", i))
  BY <1>3, PodsAre, NewShapes DEF NewClones
<1>5. \A i \in 2..NPods : There(<<"clone", i>>)'
  BY <1>2, <1>4, ThereIfApplied
<1>6. ShapedAll => ShapedAll'
  <2>1. \A p \in NewClones : Shaped(p)
    BY <1>4 DEF NewClones
  <2> QED
    BY <1>1, <1>2, <2>1, ApplyShapes DEF ShapedAll
<1>7. Stays(server0)
  BY <1>1, <1>2, ApplyStays
<1>8. ClonesFit'
  BY <1>2, <1>5 DEF ClonesFit, Clones
<1> QED
  BY <1>1, <1>2, <1>6, <1>7, <1>8, WorkingStep, ElsewhereFits, AtWorkIsStaged
     DEF Fits, ShapesFit, ShapedAll, Sweep

LEMMA AwaitClonesFits ==
  ASSUME RigInv, StagedInv, Await("clonesReady", {"clone"}, IfVanilla("clonesPatch", "snapN"))
  PROVE  StagedInv'
<1>1. InPhase /\ SamePhase
  BY StandingMoves DEF OnCluster, RunMemory, InPhase, SamePhase
<1>2. /\ rig.at = "clonesReady" /\ rig'.at = (IF Phase = "vanilla" THEN "clonesPatch" ELSE "snapN")
      /\ UNCHANGED <<chained, pods, reach>> /\ rig \in Rig /\ rig.at \in Working
      /\ \A p \in pods : p.name[1] \in {"clone"} => p.by # "pending"
  BY GotoIs DEF Await, IfVanilla, made, RigInv, Working, Memory
<1>3. \A t : Stays(t)
  BY <1>1, <1>2, SameStays
<1>4. ShapedAll => ShapedAll'
  BY <1>1, <1>2, SubsetShapes DEF ShapedAll
<1>5. \A t \in Clones : t[1] = "clone"
  BY DEF Clones
<1>6. ASSUME ClonesFit, ShapedAll PROVE ClonesFit'
  <2>1. \A t \in Clones : There(t) /\ In(t)
    BY <1>2, <1>5, <1>6, InIfAwaited DEF ClonesFit
  <2>2. Phase # "vanilla" => \A t \in Clones : Set(t)
    BY <1>2, <1>5, <1>6, <2>1, SetIfIn DEF ShapedAll
  <2> QED
    BY <1>2, <1>3, <2>1, <2>2 DEF ClonesFit, Stays
<1> QED
  BY <1>1, <1>2, <1>3, <1>4, <1>6, WorkingStep, ElsewhereFits, AtWorkIsStaged
     DEF Fits, ShapesFit, ShapedAll, Sweep

LEMMA PatchClonesFits ==
  ASSUME RigInv, Consistent, StagedInv, PatchTBF("clonesPatch", "snapN") PROVE StagedInv'
<1>1. InPhase /\ SamePhase
  BY StandingMoves DEF OnCluster, RunMemory, InPhase, SamePhase
<1>2. /\ rig.at = "clonesPatch" /\ rig'.at = "snapN" /\ pods' = Patched(pods)
      /\ UNCHANGED <<chained, reach>> /\ rig \in Rig /\ rig.at \in Working
  BY GotoIs DEF PatchTBF, RigInv, Working, Memory
<1>3. \A t : Stays(t)
  BY <1>1, <1>2, PatchStays
<1>4. ShapedAll => ShapedAll'
  BY <1>1, <1>2, PatchShapes DEF ShapedAll
<1>5. \A t \in Clones : t[1] = "clone"
  BY DEF Clones
<1>6. ASSUME ClonesFit, ShapesFit PROVE ClonesFit'
  <2>1. Phase = "vanilla" /\ \A t \in Clones : There(t) /\ In(t)
    BY <1>2, <1>6 DEF ClonesFit, ShapesFit
  <2>2. \A t \in Clones : Set(t)'
    BY <1>1, <1>2, <1>5, <1>6, <2>1, SetIfPatched DEF ShapesFit
  <2> QED
    BY <1>2, <1>3, <2>1, <2>2 DEF ClonesFit, Stays
<1> QED
  BY <1>1, <1>2, <1>3, <1>4, <1>6, WorkingStep, ElsewhereFits, AtWorkIsStaged
     DEF Fits, ShapesFit, ShapedAll, Sweep

LEMMA MemoryFits ==
  ASSUME RigInv, Consistent, StagedInv, RunMemory PROVE StagedInv'
<1>1. InPhase /\ rig \in Rig
  BY StandingMoves DEF OnCluster, RigInv
<1>2. CASE EnsureBpftool \/ CopyBpftool \/ SnapshotOne \/ SnapshotAll \/ Return("measured")
  <2>1. /\ UNCHANGED <<chained, pods, reach>> /\ rig.at \in Memory
        /\ rig'.at \in {"copy", "memory", "clones", "scaleDown", "next", "undo", "down"}
    <3>1. CASE EnsureBpftool
      BY <1>1, <3>1, GotoIs, UnwindIs DEF EnsureBpftool, Memory, made
    <3>2. CASE CopyBpftool \/ SnapshotOne \/ SnapshotAll
      BY <1>1, <3>2, GotoIs DEF CopyBpftool, SnapshotOne, SnapshotAll, Memory, made
    <3>3. CASE Return("measured")
      BY <1>1, <3>3, DoneIs DEF Return, Memory, made
    <3> QED
      BY <1>2, <3>1, <3>2, <3>3
  <2>2. rig.at \in Staged
    BY <2>1, AtWorkIsStaged
  <2> QED
    BY <1>1, <2>1, <2>2, IdleStep DEF Sweep
<1>3. CASE ScaleDown
  <2>1. ForceDelete({"clone"}) /\ rig.at \in Working /\ rig'.at \in {"memory", "measured"}
    BY <1>1, <1>3, SampledMoves DEF ScaleDown, Working, Memory
  <2> QED
    BY <1>1, <2>1, DeletingStep
<1> QED
  BY <1>2, <1>3, DeployClonesFits, AwaitClonesFits, PatchClonesFits DEF RunMemory

(* What the cluster does on its own. *)
LEMMA AdmitShapes ==
  ASSUME RigInv, Consistent, rig.at \in Standing, Fits, Admit PROVE ShapedAll'
<1>1. PICK p \in pods, q \in PodType :
        /\ p.by = "pending" /\ pods' = (pods \ {p}) \union {q}
        /\ q.name = p.name /\ q.limit = p.limit
        /\ q.by = IF ~p.limit THEN "none" ELSE IF "agent" \in chained THEN "natra" ELSE "tbf"
        /\ rig' = rig /\ kind' = kind
  BY AdmitIs
<1>2. pods # {} /\ Shaped(p) /\ \A r \in pods : Shaped(r)
  BY <1>1 DEF Fits, ShapesFit
<1>3. Phase = "natra" <=> "agent" \in chained
  BY <1>2 DEF Fits, ShapesFit, Nodes
<1>4. Shaped(q)
  BY <1>1, <1>2, <1>3 DEF Shaped
<1>5. \A r \in pods' : Shaped(r)
  BY <1>1, <1>2, <1>4
<1> QED
  BY <1>1, <1>5, PhaseStays DEF ShapedAll, SamePhase, Shaped

LEMMA ClusterFits ==
  ASSUME RigInv, Consistent, StagedInv, Admit \/ Route \/ Reap \/ Finish \/ UNCHANGED vars
  PROVE  StagedInv'
<1>1. UNCHANGED <<plan, rig, vms, chained>> /\ SamePhase /\ rig \in Rig
  BY DEF Admit, Route, Reap, Finish, vars, made, SamePhase, RigInv
<1>2. SUFFICES ASSUME Fresh', rig'.at \in Standing PROVE Fits'
  BY DEF StagedInv, Fits
<1>3. Fresh /\ Fits /\ rig.at \in Standing /\ Phase' = Phase
  BY <1>1, <1>2, PhaseStays DEF Fresh, StagedInv, Fits
<1>4. \A t : Stays(t)
  <2>1. CASE Admit
    BY <1>1, <2>1, AdmitStays
  <2>2. CASE Route
    BY <1>1, <2>2, PhaseStays DEF Route, Stays, There, In, Set
  <2>3. CASE Reap \/ Finish \/ UNCHANGED vars
    BY <1>1, <2>3, SameStays DEF Reap, Finish, vars, made
  <2> QED
    BY <2>1, <2>2, <2>3
<1>5. ShapedAll' /\ (pods = {} => pods' = {})
  <2>1. CASE Admit
    BY <1>3, <2>1, AdmitShapes, AdmitIs
  <2>2. CASE Route \/ Reap \/ Finish \/ UNCHANGED vars
    BY <1>1, <1>3, <2>2, SubsetShapes DEF Route, Reap, Finish, vars, made, ShapedAll, Fits, ShapesFit
  <2> QED
    BY <2>1, <2>2
<1>6. ShapesFit'
  BY <1>1, <1>3, <1>5 DEF Fits, ShapesFit, ShapedAll
<1>7. ServerFits'
  BY <1>1, <1>3, <1>4 DEF Fits, ServerFits, Stays
<1>8. RatesFit'
  BY <1>1, <1>3, <1>4, RatePodsAre DEF Fits, RatesFit, Stays
<1>9. ClonesFit'
  BY <1>1, <1>3, <1>4 DEF Fits, ClonesFit, Stays
<1> QED
  BY <1>6, <1>7, <1>8, <1>9 DEF Fits

LEMMA RetryFits ==
  ASSUME RigInv, StagedInv, Retry PROVE StagedInv'
<1>1. /\ SamePhase /\ rig'.at = rig.at /\ rig'.rate = rig.rate /\ rig'.epoch = rig.epoch
      /\ UNCHANGED <<plan, vms, chained, pods, reach>> /\ rig.at \in Standing
  BY RetryIs DEF SamePhase, made
<1>2. SUFFICES ASSUME Fresh' PROVE Fits'
  BY DEF StagedInv, Fits
<1>3. Fresh /\ Fits /\ Phase' = Phase
  BY <1>1, <1>2, PhaseStays DEF Fresh, StagedInv, Fits
<1>4. \A t : Stays(t)
  BY <1>1, SameStays
<1>5. ShapedAll'
  BY <1>1, <1>3, SubsetShapes DEF ShapedAll, Fits, ShapesFit
<1>6. ShapesFit'
  BY <1>1, <1>3, <1>5 DEF Fits, ShapesFit, ShapedAll
<1>7. ServerFits'
  BY <1>1, <1>3, <1>4 DEF Fits, ServerFits, Stays
<1>8. RatesFit'
  BY <1>1, <1>3, <1>4, RatePodsAre DEF Fits, RatesFit, Stays
<1>9. ClonesFit'
  BY <1>1, <1>3, <1>4 DEF Fits, ClonesFit, Stays
<1> QED
  BY <1>6, <1>7, <1>8, <1>9 DEF Fits

LEMMA StagedStep ==
  ASSUME RigInv, Consistent, Aged, StagedInv, [Next]_vars PROVE StagedInv'
<1>1. CASE Start \/ OpeningDown \/ ClosingDown \/ WriteReport \/ Interrupt
  <2>1. rig'.at \in {"wipe", "up", "report", "exit", "start"}
    BY <1>1, StartMoves, OpeningMoves, ClosingMoves, ReportMoves, InterruptMoves
  <2>2. rig'.at \notin Standing
    BY <2>1 DEF Standing, Staging, Working, Sweep, Mixed, Memory
  <2> QED
    BY <2>2, OverFits
<1>2. CASE UpK3d \/ UpLima \/ UpHalf
  BY <1>2, UpFits
<1>3. CASE OnCluster
  <2>1. CASE StagePhase
    BY <2>1, SetupFits, DeployStagedFits, AwaitServerFits, PatchServerFits, GateFits DEF StagePhase
  <2>2. CASE RunIperfSweep
    BY <2>2, DeployRateFits, AwaitRatesFits, PatchRatesFits, RateGateFits, MeasureRateFits,
       UndoRatesFits DEF RunIperfSweep
  <2> QED
    BY <1>3, <2>1, <2>2, SetupFits, NextWorkloadFits, MixedFits, MemoryFits DEF OnCluster
<1>4. CASE CommandFails
  BY <1>4, FailsFits
<1>5. CASE Admit \/ Route \/ Reap \/ Finish \/ UNCHANGED vars
  BY <1>5, ClusterFits
<1>6. CASE Retry
  BY <1>6, RetryFits
<1> QED
  BY <1>1, <1>2, <1>3, <1>4, <1>5, <1>6, Steps

----------------------------------------------------------------------------
(* The inductive invariant, and what follows from it.                      *)

LEMMA InitIInv == Init => IInv
<1> SUFFICES ASSUME Init PROVE IInv
  OBVIOUS
<1> DEFINE b == Begin(1, 0, <<>>)
<1>1. <<>> \in Seq(Entry) /\ <<>> \in Seq(Seq(Entry)) /\ Len(<<>>) = 0
  OBVIOUS
<1>2. /\ rig = [at |-> "start", phase |-> 1, epoch |-> 0, work |-> 1, rate |-> 1, sample |-> 1,
                n |-> 0, tries |-> 0, left |-> FALSE, works |-> <<>>, phases |-> <<>>,
                failed |-> FALSE]
  BY DEF Init, Begin
<1>3. rig \in Rig
  BY <1>1, <1>2, Places, NoTries, RigAssumption DEF Rig
<1>4. /\ rig.at = "start" /\ rig.phase = 1 /\ rig.epoch = 0 /\ rig.work = 1 /\ rig.rate = 1
      /\ rig.sample = 1 /\ rig.n = 0 /\ rig.works = <<>> /\ rig.phases = <<>> /\ rig.failed = FALSE
  BY <1>2
<1>5. "start" \notin Standing
  BY DEF Standing, Staging, Working, Sweep, Mixed, Memory
<1>6. RigInv
  <2>1. Counters /\ Failing
    BY <1>4 DEF Counters, Over, Failing
  <2>2. Counted /\ InTurn
    BY <1>4 DEF Counted, InTurn, Working, Sweep, Mixed, Memory
  <2>3. Reported
    BY <1>1, <1>4 DEF Reported
  <2>4. JobsAtRest
    BY DEF Init, JobsAtRest
  <2> QED
    BY <1>3, <2>1, <2>2, <2>3, <2>4, RigAssumption DEF Init, RigInv
<1>7. Consistent
  BY DEF Init, Consistent, Attached
<1>8. Aged /\ Leaves /\ StagedInv
  BY <1>4, <1>5 DEF Init, Aged, Leaves, StagedInv, Absent, Over
<1> QED
  BY <1>6, <1>7, <1>8 DEF IInv

LEMMA IInvStep == IInv /\ [Next]_vars => IInv'
BY RigStepKeeps, ConsistentStep, AgedStep, LeavesStep, StagedStep DEF IInv

LEMMA IInvHolds == Spec => []IInv
BY InitIInv, IInvStep, PTL DEF Spec

(* Every variable has its type, a pod has one shaper, and nothing that is  *)
(* reached or admitted outlives the node it was on.                        *)
THEOREM TypeCorrect == Spec => []TypeOK
<1>1. IInv => TypeOK
  <2> SUFFICES ASSUME IInv PROVE TypeOK
    OBVIOUS
  <2>1. /\ rig.phase \in 1..Len(Phases) /\ rig.sample \in 1..Samples /\ rig.epoch \in Nat
        /\ rig.tries \in 0..Tries
        /\ rig.at \notin {"start", "exit"} => rig.rate \in 1..Len(plan.rates)
    <3>1. Len(Phases) = 3
      BY DEF Phases
    <3> QED
      BY <3>1, RigFields DEF IInv, RigInv, Counters, Over
  <2>2. vms \in [Nodes -> 0..rig.epoch]
    BY <2>1 DEF IInv, Consistent, Aged
  <2>3. jobs \in [Jobs -> {"idle", "running", "ok", "bad"}]
    BY DEF IInv, RigInv, JobsAtRest
  <2> QED
    BY <2>1, <2>2, <2>3 DEF IInv, RigInv, Consistent, TypeOK
<1> QED
  BY <1>1, IInvHolds, PTL

(* What is measured in a phase has that phase's shaper, patched where it   *)
(* is to be (on k3d not in the egress direction), on a cluster made for    *)
(* the phase: stagePhase, the gates of the workloads and patchVanillaTBF,  *)
(* over the executor's whole course.                                       *)
THEOREM PhaseIsMeasured == Spec => []SamplesFitThePhase
<1>1. IInv => SamplesFitThePhase
  <2> SUFFICES ASSUME IInv, Targets # {}, kind = "k3d" \/ Fresh
               PROVE  /\ Fresh
                      /\ \A t \in Targets : Set(t)
                      /\ rig.at \in {"iperf", "lag", "mice"} => Targets \subseteq reach
    BY DEF SamplesFitThePhase, Set
  <2>1. rig.at \in {"iperf", "snapN", "lag", "mice", "memory"}
    BY DEF Targets
  <2>2. /\ rig.at \in Standing /\ rig.at \in ServerIsSet \ {"gate"}
        /\ rig.at = "iperf" => rig.at \in RatesAreSet
    BY <2>1, SweepIs
       DEF ServerIsUp, ServerIsIn, ServerIsSet, Standing, Staging, Working, Sweep, Mixed, Memory
  <2>3. Fresh
    BY <2>2 DEF IInv, Aged
  <2>4. ServerFits /\ RatesFit /\ ClonesFit
    BY <2>2, <2>3 DEF IInv, StagedInv
  <2>5. Set(<<"server", 0>>) /\ <<"server", 0>> \in reach
    BY <2>2, <2>4 DEF ServerFits
  <2>6. CASE rig.at = "iperf"
    <3>1. Targets = {<<"rate", rig.rate>>}
      BY <2>6 DEF Targets
    <3>2. <<"rate", rig.rate>> \in RatePods
      BY <2>6 DEF IInv, RigInv, Counters, Over, RatePods
    <3> QED
      BY <2>2, <2>3, <2>4, <2>6, <3>1, <3>2 DEF RatesFit
  <2>7. CASE rig.at = "snapN"
    <3>1. Targets = {<<"server", 0>>} \union Clones
      BY <2>7 DEF Targets, Clones
    <3> QED
      BY <2>3, <2>4, <2>5, <2>7, <3>1 DEF ClonesFit
  <2>8. CASE rig.at \in {"lag", "mice", "memory"}
    <3>1. Targets = {<<"server", 0>>}
      BY <2>8 DEF Targets
    <3> QED
      BY <2>3, <2>5, <2>8, <3>1
  <2> QED
    BY <2>1, <2>6, <2>7, <2>8
<1> QED
  BY <1>1, IInvHolds, PTL

(* The goroutines of a mixed sample end before anything else is done. *)
THEOREM JobsEnd == Spec => []NothingRunsOn
<1>1. IInv => NothingRunsOn
  BY DEF IInv, RigInv, JobsAtRest, NothingRunsOn
<1> QED
  BY <1>1, IInvHolds, PTL

(* A run that succeeds reports every sample that was asked for: the loops  *)
(* over phases, workloads, rates and samples lose none, and neither does   *)
(* an error that is passed on through the deferred calls.                  *)
THEOREM ReportWhole == Spec => []ReportIsWhole
<1>1. IInv => ReportIsWhole
  <2> SUFFICES ASSUME IInv, rig.at = "exit", ~rig.failed
               PROVE  rig.phases = [i \in 1..Len(Phases) |->
                        [w \in 1..Len(plan.workloads) |-> Expected(plan.workloads[w])]]
    BY DEF ReportIsWhole
  <2>1. /\ Len(rig.phases) = 3 /\ rig.phases \in Seq(Seq(Entry)) /\ Len(Phases) = 3
        /\ \A i \in 1..3 : IsWhole(rig.phases[i])
    BY RigFields DEF IInv, RigInv, Reported, Phases
  <2>2. ASSUME NEW i \in 1..3
        PROVE  rig.phases[i] = [w \in 1..Len(plan.workloads) |-> Expected(plan.workloads[w])]
    <3>1. rig.phases[i] \in Seq(Entry)
      BY <2>1
    <3>2. rig.phases[i] = [w \in 1..Len(rig.phases[i]) |-> rig.phases[i][w]]
      BY <3>1
    <3> QED
      BY <2>1, <3>2 DEF IsWhole
  <2>3. rig.phases = [i \in 1..3 |-> rig.phases[i]]
    <3>1. ASSUME NEW X, NEW s \in Seq(X), Len(s) = 3 PROVE s = [i \in 1..3 |-> s[i]]
      BY <3>1
    <3> QED
      BY <2>1, <3>1
  <2> QED
    BY <2>1, <2>2, <2>3
<1> QED
  BY <1>1, IInvHolds, PTL

(* When the executor returns, the cluster is gone or its last Down failed: *)
(* runPhase's deferred Down covers every error return.                     *)
THEOREM NoClusterLeft == Spec => []LeavesNoCluster
<1>1. IInv => LeavesNoCluster
  BY DEF IInv, Leaves, LeavesNoCluster
<1> QED
  BY <1>1, IInvHolds, PTL

=============================================================================
