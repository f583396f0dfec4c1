# Verification of natra

natra limits the bandwidth of Kubernetes pods. A CNI plugin attaches two BPF
programs to a pod's veth; the programs let small flows pass and charge the
large ones to a token bucket, above which packets are paced, marked or
dropped. This directory holds TLA+ models of the parts where that is hard to
get right, TLC configurations that check them on small instances, and proofs
checked by TLAPS. References like `natra.bpf.c:377` are to the repository.

- [The system](#the-system)
- [Modules](#modules)
- [Runs](#runs)
- [Bounds](#bounds)
- [Fairness](#fairness)
- [Proofs](#proofs)
- [Where the code and its documentation disagree](#where-the-code-and-its-documentation-disagree)
- [Limits](#limits)
- [Plan](#plan)

## The system

### Data plane: `bpf/natra.bpf.c`

One program per direction, `natra_ingress` and `natra_egress`, inlining the
same `natra_classify`. It runs on every CPU at once, never sleeps and is not
serialised by anything but the bucket's lock. The directions share no state, so
the models are of one direction.

| part | state | operations | what is hard | what makes it correct |
|---|---|---|---|---|
| heavy-hitter sketch (`cms_update_and_min`) | `natra_cms_map`: rows of cells, each a byte count and the interval it was last aged in | visit the flow's cell of each row: age, add, store, take the minimum | plain loads and stores raced by all CPUs; lazy aging across interval boundaries by CPUs whose clocks differ; dormant cells | never counts a byte that was not sent; aging cannot be told from halving everything at every boundary; alone, never underestimates a flow |
| token bucket (`consume_tokens`) | `natra_bucket_map`: tokens, time of the last update | under a spin lock: refill for the elapsed time, charge | the clock was read long before the lock was taken; 64-bit products wrap; two roundings | over any window at most burst plus rate times its length is charged |
| pacing clock (`throttle_disposition`) | `next_release_ns` in the same map | under the lock: advance by the packet's time, stamp the packet; then mark or drop what cannot be paced | CPUs race for departure times; packets that are never sent advance it; bits and bytes | departures keep their distance; fq holds back no more than the delay bound |
| classification and statistics (`natra_classify`, `bump_stat`) | per-CPU counters | parse, sketch, threshold, bucket, disposition | one reading of the clock is used twice, at different ages; many exits, each with its own counters | a packet is charged only if its flow looked heavy in every row; every packet is counted once; every packet gets a verdict |

The fq qdisc below the program, the clock and the packets are the environment.

### Control plane

| part | state | operations | what is hard | what makes it correct |
|---|---|---|---|---|
| CNI plugin (`cmd/natra/main.go`, `netns_linux.go`) | none of its own; the kernel's attachments, qdiscs, the pin directory, the thread's netns | ADD: try attach strategies in turn; DEL: remove the container's pins | any system call may fail, the runtime may kill the process; fallbacks after half of the work; two interfaces with the same pin names; containers that share the pin directory | all or nothing attached; nothing runs unconfigured; pacing only above fq; DEL finds everything of its container and nothing else's |
| BPF loader (`pkg/bpf/loader.go`) | a loaded collection and its links | `Load`, `Configure`, `Attach`, `PinMaps`, `Close` | what keeps a program alive differs by hook: a pin for tcx, the qdisc for clsact | configuration before attachment |
| bandwidth configuration (`pkg/cni/config`, `resolveDirectionConfig`) | none | annotations and runtime config to rate, burst, threshold | two channels; suffixes; clamps; defaults recognised by value; 64-bit products and a float | the rate is the one that was given; what was not given stays above its floor; nothing negative |
| CNI skeleton (`internal/cniskel`) | none | environment, stdin and version checks, dispatch, netns check, the answer | ABI rules per command; commands without a function; an error after a result | nothing is touched before the request is valid; the answer tells what happened |
| installer (`cmd/natra-tools/install.go`, `deploy/cni-installer.yaml`) | the conflist directory, the plugin's binary | write a chained sibling of each conflist | runs beside another installer and containerd; crashes; torn files | containerd never reads half a chain, and natra takes it from one network to another without a detour; a failed run is made good by the next |
| `dump-stats` (`dump_linux.go`) | none | per direction: look up the configuration, read the counters of a live program | a buffer that has to match a struct in C; six reads at six times | a container with a limit gets its counters printed |
| `perfrig` (`internal/perfrig`, `cmd/perfrig`), `vm-rig up/down/install` | a cluster of two nodes, its pods, the report so far, a cached binary | phases, workloads, goroutines, deferred deletions | any command fails; polls and waits, most of them bounded; interruption; sandboxes that outlive their pods; what was admitted before a patch | a sample measures the phase it is named for; no error is lost; no cluster stays |
| `profile`, `vm-rig` tests, scripts, baseline programs | - | - | - | - |

Interaction: the runtime calls the plugin, one process per call; the plugin
loads and configures the programs and exits; from then on the programs and
userspace share nothing but the maps, which only the programs write and which
`dump-stats` reads. The initial state of the data-plane modules is what `Load` and
`Configure` leave; what they are configured with is what `Config` computes. The
installer decides whether the runtime finds the plugin at all. perfrig drives all
of it from outside and sees pods with a shaper.

## Modules

| module | models | how |
|---|---|---|
| `RateContract` | what a token bucket promises | credit accrues and is spent; implementations may lose credit, never invent it |
| `TokenBucket` | `consume_tokens`, `throttle_disposition`, the lock, fq | a CPU is at a control point (`pc`); taking the lock with the loads behind it is one step, computing, storing and releasing another; in between `reg` holds what was loaded. `pkt` is the packet with the clock reading it brought. `served` and `mark` are observers |
| `TokenBucketProofs`, `PacingProofs` | | theorems about `TokenBucket`: the charge; the departures and the queue of fq |
| `PowersOfTwo` | what a shift divides by | a recursive function, which the proofs can reason about where they cannot about `2^e` |
| `EagerSketch` | the sketch that lazy aging stands for | a sweeper halves every cell at every boundary |
| `CountMin` | `cms_update_and_min` | per row four steps: load the index, load the bytes, store the bytes, store the index; `walk` holds the registers; `sent` and `own` are observers |
| `CountMinProofs` | | theorems about `CountMin` |
| `Dataplane` | `natra_classify` | composes the two by `INSTANCE`: each of its actions conjoins an action of the sketch or of the bucket with what `natra_classify` does around it |
| `DataplaneProofs` | | theorems about `Dataplane`, from those of the parts |
| `DumpStats` | `dumpStats` | looks up a direction's configuration and then reads one counter per step, while `Dataplane` runs |
| `Config` | `parseBandwidth`, `ParseAnnotation`, `resolveDirectionConfig` and what they call | operators over numbers of a bounded width; `Resolve` is the set of results a configuration may have, of which there are two where a float is converted out of range |
| `Plugin` | the skeleton around the commands, for several containers | one process at a time, `proc`: environment, stdin, version, command, netns check, answer; an attachment succeeds or fails as a whole |
| `PluginProofs` | | theorems about `Plugin` and the operators of `Config` |
| `Attach` | `cmdAdd`, `attachBPF`, `tryAttachOne`, `cmdDel`, the loader, netns and fq helpers | the attachment in detail, for one container: one action per system call that matters, each of which may fail, the return to the host's netns included (`lost` in `proc`); `Kill` between any two; the kernel's view in `links`, `pins`, `qdisc`, `slot` |
| `AttachProofs` | | theorems about `Attach` |
| `Installer` | the init container of the DaemonSet, upstream's installer, containerd's choice | one action per file operation; `Crash`, `WriteFails`, `Rollout` and upstream's own writes between any two |
| `InstallerProofs` | | theorems about `Installer` |
| `PerfRig` | the benchmark executor, its workloads, the k3d and the lima substrate, the cluster | `rig` is the executor's control point, `jobs` its goroutines; `Admit`, `Route` and `Reap` are the cluster's; any command fails, a poll gives up after its attempts (`Retry`), a wait of kubectl at its timeout, the process is interrupted and run again |
| `PerfRigProofs` | | theorems about `PerfRig` |
| `MCTokenBucket`, `MCCountMin`, `MCDataplane`, `MCDumpStats`, `MCAttach`, `MCPlugin`, `MCInstaller`, `MCPerfRig` | | instances for TLC |

`Attach` and `Plugin` are two views of the same calls. `Plugin` has the outcome of an
attachment as a choice that `Attach` works out, and `Attach` starts where `Plugin` has
checked the request; `Attach` has the files of one container, `Plugin` one bit per
container, and the names by which a DEL finds the files.

What stands for what:

- Times are integers in units of a nanosecond; `Micro` and `PerSecond` are the
  1000 and the 1000000 of the code, `PaceBits` its 8 (bits in a byte, in the pacing
  formula only) and `Word` is 2^64. They are parameters so that small values
  reach the boundaries that the real ones have; the proofs hold for all.
- The hash is a constant function from flows and rows to columns, any one.
- A CPU's reading of the clock is the current time or up to `Skew` before it.
  In `Dataplane` the bucket is used with `Skew <- MaxClock`: nothing in the code
  bounds the time between the reading and the lock, so the bucket must stand
  readings of any age, and is proved to.
- A cell's counter is `CellBits` wide. The histories are not.
- A BPF program is a number. A tcx link lives as long as a file or a process
  refers to it, a clsact filter as long as the interface.
- A quantity such as `10M` is a number and the factor of its suffix; one that cannot
  be read has a factor that no suffix stands for. `MaxInt` is the largest int64.
- A version of the protocol is a number in the order of the versions. A container ID is
  a model value; which IDs continue which others, with a dash or without, is a constant.
- A conflist is its list of plugins, and the entry of natra is the settings it was
  written with. A file may be torn: its writer has not finished.
- A pod of the benchmark is its name and the shaper it was admitted with: none, the
  bundled plugin's, or natra. The bundled one has its own burst or the one that perfrig
  patches from the node's netns: in both directions on lima, on k3d in the ingress only
  (`tbfIngress1m`).

An operator with a comment "Mutant of X" is X with a plausible bug. It is used by no
specification: put in place of X, it makes the property it is paired with in
`PROJECT.json` fail, which shows that the property depends on the code it is about.

## Runs

Passing:

| run | question | answer |
|---|---|---|
| `TokenBucketRaces` | two CPUs race for the bucket and for departure times with stale readings, in a word in which the refill overflows: can credit be invented? | No: the bytes charged over any window stay within the burst and its accrual (`RateCap`), and every step is one of `RateContract` (`ImplementsContract`). A packet stamped behind another departs behind it by its own slot (`DeparturesSpaced`, in the order of the stamps, equal ones included), fq holds back at most the delay bound and one packet |
| `CountMinRaces` | two CPUs lose each other's updates across a boundary | No cell and no register exceeds what the cell was sent (`NeverOvercounts`) |
| `CountMinAging` | one CPU, dormant cells, up to five boundaries in a row | Lazy aging implements `EagerSketch`; an estimate covers the flow's own bytes |
| `Dataplane` | the whole program on two CPUs and two rows, in one of which the two flows share a cell | Packets have one owner; a flow with a cell of its own that was sent little is never charged, whatever the shared cell says; counters balance, and no packet goes uncounted; the parts' specifications are implemented; every packet gets a verdict |
| `DataplaneAlone` | the whole program on one CPU without EDT, a large and a small flow that collide in one of the rows, boundaries while a packet is being counted | No packet of a flow that sent more than the threshold gets by uncharged (`NoElephantPasses`) |
| `Attach` | every attach mode and EDT setting, two interfaces, every refusal, kills anywhere | Nothing runs unconfigured; programs that pace sit above fq, and `on` is never downgraded; each program sees its own traffic, unless its process lost its netns; an ADD limits all directions or leaves nothing it may remove; a DEL leaves only what it could not remove, or not see; ADD and DEL return |
| `Plugin` | every environment, several versions, settings by both channels at the limits of a number, three containers with IDs that continue each other | The answer tells a valid and sound request from any other; the rate is the one that was given; what the BPF program gets is usable; a limit goes only with a DEL of its container (or of one whose ID it continues after a dash), or when an ADD of its own container rolls back |
| `Installer` | two conflists that upstream tears, replaces and removes while natra's siblings are written, a crash or a failed write, new settings | Siblings are whole chains of what their original held; a run that succeeds undisturbed is complete; natra takes containerd to the chain of upstream's first conflist and to no other, and a run that succeeds leaves it with that one or with the sibling of a conflist that is gone; no idle reload; the container gets there in the end |
| `PerfRig` | three phases on both substrates, four profiles, two faults anywhere | Samples are of pods with the phase's shaper, its bursts patched where that is possible, on the phase's cluster; goroutines end before anything else goes on; a run that succeeds reports every sample; no node is left unless the last deletion failed; the run ends, unless `k3d cluster create --wait` hangs |

Violations, each of one property that a comment states:

| run | statement | what happens |
|---|---|---|
| `TokenBucketPacedAtRate` | the pacing clock releases at rate_bps | it is eight times slower |
| `AttachUnpins` | a rollback removes what the attempt wrote | it removes the pin of another interface's program |
| `DumpStats` | a dump shows the counters of a container with a limit | the first lookup is into a buffer that is too short, and the dump ends with an error. With `BufferBytes` 32 the property holds |

Five more properties are stated in the modules and known not to hold. They have
no run; with these constants TLC finds a counterexample in seconds:

| property | constants |
|---|---|
| `TokenBucket!SpillsOnlyBehindAQueue` | one CPU, Lens {1}, Rate 4, Burst 1, Edt TRUE, Micro 2, PerSecond 2, PaceBits 4, MaxEdtDelay 4, Word 4096, Skew 0, MaxClock 6, MaxPackets 6 |
| `Dataplane!RateHoldsForEveryDisposition` | as `Dataplane.cfg`, but one CPU, Lens {1}, Rate 2, Burst 1, PaceBits 8, MaxEdtDelay 2, Threshold 0, Interval 4, MaxPackets 6 |
| `Attach!NotHalfApplied` | as `Attach.cfg` |
| `Attach!NeverAstray` | as `Attach.cfg` |
| `Plugin!BurstFitsAPacket` | as `Plugin.cfg` |

## Bounds

- Two CPUs: the races are between a CPU that holds a stale value and one that
  overtakes it; a third adds a second overtaker, which the parts' invariants,
  stated per CPU, do not distinguish. The proofs are for any number.
- `MaxClock`, `MaxIdx`: long enough for a burst, its recovery to a full bucket and a
  wrap of `Word` (`TokenBucketRaces`: Word 32, where 6 ticks are 3
  units of `Micro`, and times 11 overflow),
  and for more intervals than a cell has bits (`CountMinAging`: 5 intervals with
  4 bits, so that shifting everything out is reached).
- `MaxPackets` two to four: enough to exceed the burst, to overtake, and to
  collide. `Lens` has a packet that fits the burst and one that does not; in `TokenBucketRaces`
  one leaves room for a second, one is the whole burst and one is a byte above it.
- `DataplaneAlone`: three packets of at most 3 bytes fit a cell of 4 bits, which is what
  `Alone` asks for, and two of them exceed the threshold; `MaxClock` 4 has two boundaries.
  With `CPUs <- MCCPUs`, or `Skew` 2, TLC finds a packet that gets by: updates are lost,
  or put in an interval that is over.
- `Dataplane`: two rows, in the second of which the flows collide, two packets of one or three
  bytes and one boundary: enough for the large flow to fill the shared cell before
  the small one is looked up, and for the two CPUs to be anywhere against each other. The CPUs agree on the time when they read it
  (`Skew` 0) and use the reading late; clocks that differ are in the runs of the parts and in the proofs.
- In the runs with pacing `PaceBits` is small and `Rate` large enough that several
  departures fit within the delay bound; `TokenBucketPacedAtRate` uses the code's 8. In
  `TokenBucketRaces` a packet above the burst takes 2 ticks and `MaxEdtDelay` is 3,
  so that stamped, spilled and sent packets coexist.
- `Attach`: `MaxTries` 4 attempts in all, that is one ADD of the longest strategy,
  two of the strategy for EDT on, or of an explicit mode (`MaxAdds`); DELs and kills are
  unbounded. `MapNames` has one of the four maps, which are treated alike.
- `Plugin`: numbers are 8 bits wide (`MaxInt` 127), so that each product, of a suffix,
  a ratio and a time constant, is met on both sides of its limit. The versions are one
  that is old and supported, one that is not supported, the newest, and one that
  is no version; the gates lie between them. Of three containers, one ID continues
  another with a dash and one without. `MCConfs` lists the settings: both channels,
  every form of an annotation, bursts and thresholds given or not, and each default
  of the cluster. Calls are unbounded in number.
- `Installer`: two conflists (the order matters, and a crash between them), two
  changes by upstream besides the completion of what it tore, one crash or failed write,
  one rollout. The install loop restarts any number of times.
- `PerfRig`: two faults, so that one can be met while another is being handled, and an
  interrupted run can fail again; polls and waits that give up are not counted. `Tries` 2
  stands for the 30 attempts of each poll (`stage.go:42` and `96`, `workload_iperf.go:177`): one
  that is repeated and one that is the last. The profiles
  are the one CI uses, one with two rates, two samples and the workloads in another order, one that
  measures memory twice, and one that is refused.
  `NPods` 2 has one clone.
- `DumpStats`: the least data plane that runs, one flow and one row; what the lookup does
  does not depend on it. `TokenBucketRaces` and `DumpStats`, which have no liveness, use symmetry in the CPUs,
  which nothing distinguishes.
- `CHECK_DEADLOCK FALSE` where the system really stops: where clock and packets are
  bounded, where the init container is done and the changes used up (`Installer`), and
  where the benchmark has exited (`PerfRig`). `Attach` and `Plugin` do not stop,
  and deadlock is checked.

## Fairness

- `TokenBucket`, `Dataplane`: strong fairness of each CPU's own work. A tc
  program is not preempted for good and has no blocking call, and
  `bpf_spin_lock` is a queued lock, so a CPU that finds it free again and again
  is served. Weak fairness would not do: between two attempts of one CPU the
  lock is taken and released by another. Nothing is assumed about arrivals.
  Time and fq are weakly fair in `TokenBucket`.
- `Attach`: weak fairness of the plugin's steps, none of `Kill`. No call in it
  waits for another process. Which of success and failure comes is left open.
- `Installer`: weak fairness of the init container, restarts included: kubelet restarts
  it until it succeeds (a DaemonSet's pods have the restart policy Always). Upstream
  ends a write it has begun. None of faults, of rollouts and of new writes.
  `InstallEnds` is about behaviours in which upstream's files are in the end whole,
  there is one, and the settings are valid.
- `PerfRig`: weak fairness of the executor and of the commands its goroutines run, except
  while it creates a k3d cluster: `k3d cluster create --wait` has no timeout
  (`substrate_k3d.go:84`), and `RigEnds` says that a run either ends or hangs there for good.
  None of the cluster, whose pods may never get ready or reachable. That the polls
  end is checked, attempt by attempt. That a `kubectl wait` or `rollout status` ends is
  its `--timeout` (`stage.go:76`, `workload_iperf.go:53`, `workload_memory.go:57`,
  `workload_mixed.go:42`, `substrate_k3d.go:184`). That the other commands return, with or
  without an error, is an assumption on docker, limactl and kubectl, which the code does not
  bound; iperf3 and hey are given a duration.
- `CountMin`, `RateContract`, `EagerSketch`, `DumpStats`, `Plugin`: none.

## Proofs

Assumed are the named assumptions on the constants (`BucketAssumption`,
`SketchAssumption`, `PlaneAssumption`, `AttachAssumption`, `ConfigAssumption`,
`PluginAssumption`, `InstallerAssumption`, `RigAssumption`): sizes and rates are positive integers,
what stands for nothing (`None`, `NoFlow`, `Absent`, an empty ID) is not one of the things,
the CPUs over which counters are summed are finitely many, and a plan of the benchmark has lists of
rates and workloads and a number of samples. TLC evaluates all of them on every run. The
theorems about pacing and those about estimates that miss nothing have hypotheses
besides, named below with the runs that satisfy them. With them, every
safety property that a passing run checks is a theorem.

`TokenBucketProofs`, for any number of CPUs, any rate, burst, word, skew and bounds:

- `IInv` is `TypeOK /\ HolderIsCurrent /\ NoCreditFromTheFuture /\ WindowPaid`.
  `RateCap` alone is not inductive: it says nothing about the tokens that are left,
  nor about what a CPU between its lock and its store will write. `WindowPaid`
  adds the tokens to the books; `HolderIsCurrent` says that the registers are the
  bucket; `NoCreditFromTheFuture` keeps the time from which the next refill starts
  within the clock.
- The arithmetic is in lemmas of its own: `AddedIsPaid` (two roundings and
  a wrap only lose), `RefillIsPaid` (so does the ceiling), `ChargeIsPaid` (the books
  balance over one critical section). One lemma per part of `IInv` then goes
  through the actions.
- `RateCapHolds`, `LockCorrect`, `RefillOfThePast`, `TypeCorrect` follow;
  `Refinement` shows that initial states and steps map to those of `RateContract`.

`PacingProofs` adds that departures keep their distance: of two packets in fq, which know the
numbers of their stamps (`nth`), the later one departs behind the other by its own slot at
least, so that no two depart at once. That is not true of every
word: a pacing clock that wraps would hand out times of the past. The theorem
therefore has a hypothesis, `ClockFits`: if every packet takes at most `slot`, then
the end of time plus a slot for each packet is within a word (`TokenBucketRaces.cfg`
satisfies it with slot 2; for the code it is 2^64 nanoseconds of packets). `PacedInv`
counts: a packet that is past the pacing clock has advanced it by a slot at most, and
those in flight (`InFlight`, finite because CPUs join it one at a time) not yet.

`QueueStaysShort`, under the same hypothesis, bounds what waits in fq. `DepthInv` says that a
packet was stamped at most the delay bound ahead of the clock, and that two packets
with a slot of their own never share a stamp. The nanoseconds before a stamp that the packet
takes then do not overlap with those of another (`DeparturesSpaced`), and all of them
lie between one packet before the clock and the delay bound after it: the injection
of `LineTime` into that interval is the bound.

`CountMinProofs`: `SketchInv`, which includes the sketch's `TypeOK`, strengthens the two properties to every register of
a walk under way (`EvidenceSoFar`: the minimum so far is backed by the rows visited
so far), because what a CPU is about to store must be bounded too. `sent` grows
and registers only hold what was once in a cell, so the bound survives
every interleaving (`OthersStayBacked`), the loss of updates included.

The other direction holds with one CPU only, since with more the sketch loses updates. `EstimateCovers` and
`RefinesEager` are for any rows, columns, hash, flows, packet sizes and counter width, under
`OneClock` (one CPU, whose reading is the current interval) and `CountsFit` (if
every packet has at most `m` bytes, then all of them fit a cell; for the code 2^64 bytes).
`CountMinAging.cfg` satisfies both, with `m` = 3. `AgingInv` has three parts:

- `InStep`: no cell is ahead of the packet in hand, and registers are what the cells say.
- `Bounded`: what reached a cell, or is about to, is at most `m` per packet, so nothing wraps.
- `Covers`: a flow's own bytes, multiplied back to the interval that its cell is aged
  to, are in the cell, or will be when the packet in hand is. Stated at the current interval
  it is not inductive: a cell that nobody touches is behind, and the shift that brings it up
  to date rounds.

Two shifts are one (`DivDiv`, from the Galois connection of product and quotient,
`DivGalois`), a shifted sum is at most one more than the sum of the shifts (`DivSum`: the
carry of `EagerSketch`), and 64 or more leave nothing (`FadedIsShift`). That needs
the powers of two to multiply (`Pow2Add`) and to be positive. That the recursive function has
values at all is shown first (`TablesExist`, `Pow2Is`): where a statement about exponents failed,
it would fail of a first one (`FirstFailure`).

`DataplaneProofs` does not repeat any of it. Its instances of the two parts are
shown to be those the parts' proofs are about (`SameBucketNext` and so on), every
action is shown to be a step of each part or to leave it alone
(`StepsOfTheBucket`, `StepsOfTheSketch`), so the parts' invariants carry over.
What is new is `OneOwner` and `MiceAreNeverCharged`: the latter needs that a CPU
gets to the bucket only by `Hit`, with an estimate that `EvidenceSoFar` backs, and
that evidence does not shrink (`SentGrows`). `RefinesBucket` and `RefinesSketch`
are the composition theorems, `RateCapHolds` the cap of the whole.

`PacingHolds` carries `PacingProofs` over in the same way, under `ClockFits` (which
`Dataplane.cfg` satisfies), through the instance `B`.
`ElephantsAreCharged` does so with `CountMinProofs`, under `Alone`: one CPU whose clock does not lag, and counts
that fit a cell (`DataplaneAlone.cfg`). It is an instance of its own, `Timely`, since the
one for several CPUs lets a reading lag by an interval; `TimelyReading` and
`StepsOfTheTimelySketch` show that with `Skew` 0 no reading does. A packet passes only in
`Mouse`, where its estimate is at most the threshold and, by
`AgingCovers`, covers what its flow sent (`PassingIsMouse`).

`StatsAddUp` is the balance of the counters: `StatsInv` adds to it where each CPU's packet
stands (`Stage`: a packet that was charged is a hit which may not be counted as throttled yet), and
counts sums over CPUs as sets of increments, one more or one less per step.

`AttachProofs`, for any number of interfaces, maps and attempts, with kills
anywhere, proves every safety property of the run `Attach`. `JInv` has a core,
`IInv`, that says what each control point may rely on, and four parts about the files:

- `Registers`: outside of an attempt the thread is in the host's netns, inside
  at the end the attempt is about, or else in the pod's, and lost, after a return that was
  refused. `TrafficSeen` excepts what a lost process attached (`astray`). `Pacer`: pacing is promised only above an fq, and
  under EDT on by every attempt, none of which is then at the host's end; what is
  about to be attached has its slot written. `Placed`: the links of the program at
  hand are of this attempt. `LinksSound` follows action by action.
- `TcxPinned`: every tcx link has its file, but for the one being pinned. Without it
  a kill could leave a link that no DEL finds. `DelSees`: a DEL has each file still
  before it, or behind it, refused, or it could not read the directory. Together they give `DelLeavesNothingBehind`.
- `WritesKnown`: the files of this call's programs are those the rollback has on
  its list, or that refused to go. `Attached`: the directions before the one at
  hand are limited. They give `AddIsAllOrNothing`.

`PluginProofs` has two halves. `RuntimeIs` and `PodIs` prove, for numbers of any width
and any configuration, what comes out of the two channels: the rate is the given one
through the suffix (`ParseIs`: the bound is tested by division, so the product fits and
does not wrap), and the products that may wrap or leave the range are caught by the floor and the
ceiling (`ThresholdIs`, `ClusterBurstIs`). The invariant `IInv` has `Resolved`, by which a call's
limits come from its configuration, and `Staged`, what each stage of a call knows: that nothing went
wrong so far, that the request is valid once it is served (`EnvIsValid`,
`ServedIsValid`: the gate and the lookup let exactly the versions of the command
pass), and what stands on stdout. `Succeeds` and `FailsSilently` are the two ways to end. All properties
of the run `Plugin` are theorems.

`InstallerProofs`, for any number of files, changes, crashes and rollouts: besides
`SiblingsAreChained` and `DoneMeansChained`, `IInv` has `Recorded` (`had` knows what files hold),
`Registers` (what was read is of the entry, what is written chains natra to it, and
the temporary file is whole before the rename) and `Behind` (while upstream holds still,
the entries behind the loop are done). `DetourIsNone` follows from it:
a rename that changes the pick puts a sibling before all others, and those behind the loop have theirs. That `Entry` is the first of a set of
numbers is an induction, taken from the library (`LeastExists`).

`PerfRigProofs`, for any plans, any number of samples, clones, failures and interrupts, proves every
safety property of the run `PerfRig`. Its `IInv` has five parts:

- `RigInv`: which control points have which counters, and that the results so far are those
  of the phases, workloads, rates and samples so far, in order (`Counted`, `Reported`), as long as
  nothing failed (`Failing`). It gives `ReportWhole`, and with `JobsAtRest` `JobsEnd`.
- `Consistent`: what a node took with it is gone, and a pod has one shaper.
- `Aged`: nodes that are up in a phase are there, and on k3d made by it. `Leaves`: behind
  the last Down nothing is up unless it failed. It gives `NoClusterLeft`.
- `StagedInv`: what each control point may rely on, on a cluster that was made for the phase: natra
  is chained on all nodes or on none, as the phase wants it, before there are pods (`ShapesFit`), and
  from then on the server, the pods of the rates and the clones are there, are admitted and have the
  phase's shaper, in the order in which the executor waits for them and patches them
  (`ServerFits`, `RatesFit`, `ClonesFit`). `SamplesFitThePhase` speaks of the samples only, and is not
  inductive without the steps before them.

Only model-checked is everything under fairness (`EveryPacketGetsVerdict`, `PluginReturns`,
`InstallEnds`, `RigEnds`), which TLAPS cannot do, and the three properties of the runs that
expect a violation.

## Where the code and its documentation disagree

The first three have a run that shows it, and an entry in `PROJECT.json` with the
quotations; for the next five there are a definition and constants (see
[Runs](#runs)).

1. `natra.bpf.c:433`: the pacing interval treats `rate_bps` as bits per second; it is
   bytes. EDT paces at an eighth of the rate.
2. `main.go:645`: rollback after a clsact attempt removes pins it did not write.
3. `dump_linux.go:60`: the configuration of a direction is looked up into 24 bytes, and has 32
   since the setting of EDT was added, which is an error: `dump-stats` prints no counter, where
   `troubleshooting.md:168` has it as the way to see them. `profile_linux.go:272` has the
   same buffer, and leaves the configuration out.
4. `natra.bpf.c:444`: the pacing clock advances for packets that never enter fq.
5. `natra.bpf.c:459`: marked packets beyond the delay bound are forwarded without
   a charge, so ECN-capable traffic is not held to the rate.
6. `main.go:646`: rollback does not undo clsact attachments, where ARCHITECTURE.md
   says that nothing stays half applied.
7. `netns_linux.go:39`: the error of the return from the pod's netns is ignored. The thread stays
   there, a later attempt at the host's end looks the number of the peer up in the wrong
   netns, and may attach the program to any interface with that number, or to none; `loader.go`
   asks its caller to be in the host's. In the end such a call fails at the skeleton's netns
   check (unless that is switched off), with its programs attached.
8. `main.go:436`: a burst from kubelet's channel is capped but not floored, and
   one from an annotation is neither; `main.go:398` says that it is floored so that
   one packet always fits.

Met on the way, and built into the models as the code has it:

- `natra.bpf.c:28` says that the sketch is updated by atomic adds, which the code does
  not use, and the losses are not limited to the one packet that `natra.bpf.c:144`
  mentions. `dump_linux.go:105` says that three counters sum to a fourth, by construction; a
  packet counts in the fourth before it counts in one of the three, and they are read at
  different times.
- `main.go:348` says that DEL ends with the container's pins gone. When the pin directory cannot
  be read, or a file not removed, DEL succeeds, and they stay.
- `perf-vs-vanilla.md:98` and `stage.go:163` say that on k3d the burst of a pod's egress
  cannot be patched; the vanilla phase's egress samples there have the kubelet's.
- `config.go:12` says that the two channels give the same settings. Kubelet sends
  the largest 32-bit burst, 536 MB, which is below half a second's worth from about 8.6 Gbps on, so
  that a faster pod gets a smaller burst than from the annotation.
- `main.go:462`: a threshold or a burst that is given explicitly and equals the compiled
  default is taken for none, and replaced by the cluster's.
- From kubelet's channel 1 to 7 bits per second are a program with rate 0, which
  passes everything; from an annotation they are none.
- `docs/cni-spec.md:54` says that past the parsing of stdin every error is
  fail-open. Settings that are refused, a previous result that cannot be parsed
  and the netns check fail the call; the last of them after the result was printed, so
  that stdout has both. `Sound` lists them.
- `ARCHITECTURE.md:273` says that EDT on with an attach mode at the host's end fails the
  ADD. It fails the attachment, and the ADD succeeds without a limit.
- An ID with a dot has no link: bpffs takes no such file name. Its container gets clsact
  filters only, which go with the interface.
- `substrate.go:23` says that Up makes a fresh cluster. On lima, VMs that could not be
  deleted are started again (`up.go:31`): a phase may run on the VMs of another.
- `substrate_k3d.go:278`: an interrupted copy of bpftool leaves a torn file in the cache,
  on which every later run fails at the check after it.

## Limits

- The verifier, the JIT and the memory model: loads and stores of a cell are taken to
  be single and in program order, as on the 64-bit machines the map layout is for.
- `parse_flow` is its outcome, a flow or none. Packet contents do not exist.
- Aging by several CPUs: between the two stores of `natra.bpf.c:293` another CPU may age a cell
  once more, or write back bytes that are older than the index says. `NeverOvercounts` allows both, since it
  counts all bytes ever sent, and `ImplementsEager` and `EstimateCoversFlow` are of one CPU: with two, TLC
  refutes them, and the code bounds neither effect.
- `EveryPacketGetsVerdict` assumes what the queued lock does (strong fairness). In a run of
  two packets no CPU could be starved for long anyway: it shows that no packet gets stuck on a path.
- What ADD answers when the attachment failed is checked by `Plugin` (`AnswersByTheProtocol`), not by
  `Attach`.
- The maps of the two directions are separate, so interference between the
  directions is excluded by their keys and not checked.
- `Attach` is about one container, `Plugin` about the files that several share. A
  process does not race another one for the same container: the runtime serialises
  them. That a DEL also reaches containers whose IDs continue its own after a dash is
  excepted by `LimitsPersist`; the runtimes in use make IDs without dashes.
- The interface is assumed to be new at each ADD, as the plugins before natra
  make it; a qdisc or a filter that somebody else puts there later is not modelled.
- `Config` takes the product of a rate and a ratio to be its floor, where the code has a
  float64 that may round, and a number's text to be parsed right. A float beyond the
  range of int64 becomes the smallest or the largest number, depending on the
  processor. A product that wraps to a large positive threshold is taken as it
  is; `LimitsAreUsable` does not say that the threshold is the exact product.
- The error codes of the skeleton are one, and a runtime that sends no command is
  answered with a text on stderr, which is not modelled.
- `Installer`: one directory (the manifest tries two names for it), one installer at a
  time, originals whose names sort after `00-natra-`, and no entries of natra in them.
  A sibling that has become stale by a later change of upstream stays until the next
  run. One whose original upstream has removed stays for good (`install.go:36` goes through
  originals only), and containerd goes on to load it if it sorts first: `NoDetour` excepts it. A crash
  loses nothing that was written: `install.go:201` does not sync before it renames, and after a loss
  of power a sibling may be empty, which is not modelled. `install` replaces the plugin's binary in place, so that an ADD in
  between fails; the model has the torn binary but no property excludes it.
- `PerfRig`: ADDs in the cluster succeed, the client and the bystander carry no
  annotation, `tc qdisc change ... || true` works where there is a tbf. The bystander has no
  gate of its own. `ReportIsWhole` counts samples; the two peak RSS figures of a memory sample
  may be missing from it, as their errors are only logged (`workload_memory.go:79`).
  `LeavesNoCluster` is about runs that return: what an interrupted one leaves is the next
  run's to delete. `Interrupt` is a signal that no deferred call survives; the next
  run has the same plan. A snapshot of memory may see sandboxes of pods
  deleted by force (`workload_memory.go:22`, `workload_iperf.go:45`): `ghosts` has
  them, and no property is about them. On lima `SamplesFitThePhase` is stated for VMs that
  were deleted before the phase, for the reason above. The numbers, tables and
  the parsing of the tools' output are left out.
- Not modelled at all: `profile` (a loop that reads kernel statistics and writes
  lines), the stand-alone tests of `vm-rig` (a fixed sequence of commands and
  assertions on their text), scripts, the baseline BPF programs and
  the embedding of the object: I/O without state of its own.

## Plan

The order in which the modules were written, each with its proofs where it has
them: `RateContract` and `TokenBucket`; `EagerSketch` and `CountMin`; `Dataplane` and
`DumpStats`; `Attach`; `Config` and `Plugin`; `Installer`; `PerfRig`.

What would be next:

1. How far lost updates may put an estimate below the traffic when several CPUs count, which
   would replace the hypothesis of one CPU by a bound on the loss.
2. `Plugin` over `Attach`: that the choice by which `Plugin` stands for an attachment is
   the outcome `AddIsAllOrNothing` allows, as a refinement between the two modules.
3. The step lemmas behind the properties under fairness: that each step a property waits for
   lowers a measure. The fairness itself stays with TLC.
