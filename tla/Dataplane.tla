----------------------------- MODULE Dataplane ------------------------------
(***************************************************************************)
(* natra_classify, one direction: the sketch decides which packets are     *)
(* charged, the bucket decides what becomes of those.                      *)
(*                                                                         *)
(* A packet reads the clock once; that one reading ages the sketch and     *)
(* later refills the bucket, however long the walk over the sketch took.   *)
(* A packet lives in two places: walk[c] until its estimate is known, then *)
(* pkt[c] and pc[c]; job[c] is what natra_classify keeps in registers      *)
(* throughout.                                                             *)
(***************************************************************************)
EXTENDS Integers, FiniteSets, FiniteSetsExt

CONSTANTS
  CPUs, Flows, Lens,                        \* who counts what
  Depth, Cols, Hash, CellBits,              \* the sketch, as in CountMin
  Rate, Burst, Edt, Micro, PerSecond,       \* the bucket, as in TokenBucket
  PaceBits, MaxEdtDelay, Word,
  Threshold,    \* cfg->hh_threshold
  Interval,     \* CMS_DECAY_INTERVAL_NS
  Skew,         \* how far a CPU's reading may lag behind the clock
  MaxClock,     \* bound: the clock stops here
  MaxPackets,   \* bound: packets that arrive
  NoFlow, None

ASSUME PlaneAssumption ==
  /\ IsFiniteSet(CPUs)
  /\ Lens \subseteq Nat \ {0}
  /\ Depth \in Nat \ {0}
  /\ Hash \in [Flows -> [1..Depth -> Cols]]
  /\ CellBits \in Nat \ {0}
  /\ Rate \in Nat \ {0}
  /\ Burst \in Nat
  /\ Edt \in BOOLEAN
  /\ {Micro, PerSecond, PaceBits, Word, Interval} \subseteq Nat \ {0}
  /\ {MaxEdtDelay, Threshold, Skew, MaxClock, MaxPackets} \subseteq Nat
  /\ NoFlow \notin Flows
  /\ None \notin CPUs

VARIABLES
  clock, tokens, last_update_ns, next_release_ns, lock, pc, pkt, reg, fq,
  stamped, packets, served, mark,           \* the bucket
  bytes, last_decay_idx, now_idx, walk, counted, sent, own,   \* the sketch
  job,      \* the packet each CPU is classifying
  stats,    \* natra_stats_map: a counter per CPU and slot
  arrived,  \* history: packets that arrived
  marked    \* history: bytes forwarded CE-marked

bucketVars == <<clock, tokens, last_update_ns, next_release_ns, lock, pc, pkt,
                reg, fq, stamped, packets, served, mark>>
sketchVars == <<bytes, last_decay_idx, now_idx, walk, counted, sent, own>>
vars == <<bucketVars, sketchVars, job, stats, arrived, marked>>

MaxIdx == MaxClock \div Interval

(* A reading that was fresh when the packet arrived may be old when the    *)
(* packet reaches the bucket.                                              *)
Bucket == INSTANCE TokenBucket WITH Skew <- MaxClock
Sketch == INSTANCE CountMin WITH IdxLag <- MaxIdx

Slots == {"passed", "throttled", "hh_hits", "ecn_marked", "edt_delayed", "dropped"}
Dispositions == {"ecn_marked", "edt_delayed", "dropped"}

NoJob == [flow |-> NoFlow, len |-> 0, now |-> 0]

Init ==
  /\ Bucket!Init
  /\ Sketch!Init
  /\ now_idx = clock \div Interval
  /\ job = [c \in CPUs |-> NoJob]
  /\ stats = [c \in CPUs |-> [s \in Slots |-> 0]]
  /\ arrived = 0
  /\ marked = 0

Bump(c, s) == stats' = [stats EXCEPT ![c][s] = @ + 1]

Free(c) == job' = [job EXCEPT ![c] = NoJob]

(* The packet is forwarded, and counted as such. *)
Pass(c) == Bump(c, "passed") /\ Free(c)

----------------------------------------------------------------------------
Tick ==
  /\ Bucket!Tick
  /\ IF clock' \div Interval = now_idx
       THEN UNCHANGED sketchVars
       ELSE Sketch!Boundary
  /\ UNCHANGED <<job, stats, arrived, marked>>

OpenWindow ==
  Bucket!OpenWindow /\ UNCHANGED <<sketchVars, job, stats, arrived, marked>>

(* The early returns: the direction has no rate, or parse_flow found no    *)
(* flow in the packet.                                                     *)
PassUnaccounted(c) ==
  /\ job[c] = NoJob
  /\ arrived < MaxPackets
  /\ arrived' = arrived + 1
  /\ Bump(c, "passed")
  /\ UNCHANGED <<bucketVars, sketchVars, job, marked>>

(* What a CPU's clock may read. *)
Readings == {t \in 0..clock : t + Skew >= clock}

(* Mutant of Arrive: ages the sketch by nanoseconds. *)
ArriveInNs(c, f, n, t) ==
  /\ job[c] = NoJob
  /\ arrived < MaxPackets
  /\ arrived' = arrived + 1
  /\ Sketch!Begin(c, f, n, t)
  /\ job' = [job EXCEPT ![c] = [flow |-> f, len |-> n, now |-> t]]
  /\ UNCHANGED <<bucketVars, stats, marked>>

(* A packet of flow f reads the clock: t. *)
Arrive(c, f, n, t) ==
  /\ job[c] = NoJob
  /\ arrived < MaxPackets
  /\ arrived' = arrived + 1
  /\ Sketch!Begin(c, f, n, t \div Interval)
  /\ job' = [job EXCEPT ![c] = [flow |-> f, len |-> n, now |-> t]]
  /\ UNCHANGED <<bucketVars, stats, marked>>

Count(c) ==
  Sketch!Step(c) /\ UNCHANGED <<bucketVars, job, stats, arrived, marked>>

(* At or below the threshold: forwarded without a look at the bucket. *)
Mouse(c) ==
  /\ Sketch!Take(c)
  /\ walk[c].mn <= Threshold
  /\ Pass(c)
  /\ UNCHANGED <<bucketVars, arrived, marked>>

(* Mutants of Hit: with a second reading of the clock; with a length that  *)
(* includes framing.                                                       *)
HitReadsAgain(c) ==
  /\ Sketch!Take(c)
  /\ walk[c].mn > Threshold
  /\ Bucket!Heavy(c, job[c].len, clock)
  /\ Bump(c, "hh_hits")
  /\ UNCHANGED <<job, arrived, marked>>
HitFramed(c) ==
  /\ Sketch!Take(c)
  /\ walk[c].mn > Threshold
  /\ Bucket!Heavy(c, job[c].len + 1, job[c].now)
  /\ Bump(c, "hh_hits")
  /\ UNCHANGED <<job, arrived, marked>>

Hit(c) ==
  /\ Sketch!Take(c)
  /\ walk[c].mn > Threshold
  /\ Bucket!Heavy(c, job[c].len, job[c].now)
  /\ Bump(c, "hh_hits")
  /\ UNCHANGED <<job, arrived, marked>>

Lock(c) ==
  /\ Bucket!LockConsume(c) \/ Bucket!LockPace(c)
  /\ UNCHANGED <<sketchVars, job, stats, arrived, marked>>

(* consume_tokens returns, and the caller counts the outcome. *)
Consume(c) ==
  /\ Bucket!UnlockConsume(c)
  /\ \/ pc'[c] = "idle" /\ Pass(c)
     \/ pc'[c] = "over" /\ Bump(c, "throttled") /\ UNCHANGED job
  /\ UNCHANGED <<sketchVars, arrived, marked>>

(* Mutant of Pace: counts the packet as delayed before it knows. *)
PaceCountsFirst(c) ==
  /\ Bucket!UnlockPace(c)
  /\ Bump(c, "edt_delayed")
  /\ \/ pc'[c] = "idle" /\ Free(c)
     \/ pc'[c] = "spill" /\ UNCHANGED job
  /\ UNCHANGED <<sketchVars, arrived, marked>>

(* The EDT branch of throttle_disposition. *)
Pace(c) ==
  /\ Bucket!UnlockPace(c)
  /\ \/ pc'[c] = "idle" /\ Bump(c, "edt_delayed") /\ Free(c)
     \/ pc'[c] = "spill" /\ UNCHANGED <<job, stats>>
  /\ UNCHANGED <<sketchVars, arrived, marked>>

(* bpf_skb_ecn_set_ce marks and forwards a packet that is ECN-capable; the *)
(* others are dropped.                                                     *)
MarkOrDrop(c) ==
  /\ Bucket!MarkOrDrop(c)
  /\ \/ Bump(c, "ecn_marked") /\ marked' = marked + job[c].len
     \/ Bump(c, "dropped") /\ UNCHANGED marked
  /\ Free(c)
  /\ UNCHANGED <<sketchVars, arrived>>

FqSend ==
  Bucket!FqSend /\ UNCHANGED <<sketchVars, job, stats, arrived, marked>>

Work(c) ==
  \/ Count(c) \/ Mouse(c) \/ Hit(c)
  \/ Lock(c) \/ Consume(c) \/ Pace(c) \/ MarkOrDrop(c)

Next ==
  \/ Tick
  \/ OpenWindow
  \/ FqSend
  \/ \E c \in CPUs :
       \/ PassUnaccounted(c)
       \/ \E f \in Flows, n \in Lens, t \in Readings : Arrive(c, f, n, t)
       \/ Work(c)

(* As for TokenBucket: the program never sleeps, and the lock is queued. *)
Spec == Init /\ [][Next]_vars /\ \A c \in CPUs : SF_vars(Work(c))

----------------------------------------------------------------------------
(* Where a packet is: in the sketch, or at the bucket, never in both. *)
Classifying(c) == walk[c].at # "idle"
Charging(c)    == pc[c] # "idle"

(* Above the rate, and not yet disposed of. *)
Undecided(c) == pc[c] \in {"over", "pace", "spill"}

Job == [flow : Flows \union {NoFlow}, len : Lens \union {0}, now : Nat]

OwnTypeOK ==
  /\ job \in [CPUs -> Job]
  /\ stats \in [CPUs -> [Slots -> Nat]]
  /\ arrived \in 0..MaxPackets
  /\ marked \in Nat

TypeOK == Bucket!TypeOK /\ Sketch!TypeOK /\ OwnTypeOK

(* The two halves of a packet's way agree: a CPU has a job exactly while   *)
(* one of them has its packet, and both see the length and the reading of  *)
(* that packet, which is not from the future.                              *)
OneOwner ==
  \A c \in CPUs :
    /\ job[c] = NoJob <=> ~Classifying(c) /\ ~Charging(c)
    /\ ~Classifying(c) \/ ~Charging(c)
    /\ Classifying(c) \/ Charging(c) =>
         job[c].flow \in Flows /\ job[c].len \in Lens /\ job[c].now \in 0..clock
    /\ Classifying(c) =>
         /\ walk[c].flow = job[c].flow
         /\ walk[c].len = job[c].len
         /\ walk[c].idx = job[c].now \div Interval
    /\ Charging(c) =>
         pkt[c] = [len |-> job[c].len, now |-> job[c].now]

(* natra's promise to small flows: a packet is charged to the bucket, and  *)
(* so can be delayed, marked or dropped, only if every sketch cell of its  *)
(* flow was sent more than the threshold.                                  *)
MiceAreNeverCharged ==
  \A c \in CPUs :
    Charging(c) =>
      \A r \in 1..Depth : sent[r][Hash[job[c].flow][r]] > Threshold

(* A packet that leaves the sketch other than to the bucket is of a flow   *)
(* which, halved at every boundary, has sent no more than the threshold.   *)
OnlyMicePass ==
  \A c \in CPUs :
    Classifying(c) /\ job'[c] = NoJob => own[job[c].flow] <= Threshold

(* natra's promise about big flows, which holds where no other CPU         *)
(* overwrites a count and no reading of the clock is behind: none of their *)
(* packets gets by without being charged.                                  *)
NoElephantPasses == [][OnlyMicePass]_vars

(* The sum over the CPUs, as a lookup in the per-CPU map has it, counted   *)
(* increment by increment.                                                 *)
Increments(s) == UNION {{c} \X (1..stats[c][s]) : c \in CPUs}
Total(s) == Cardinality(Increments(s))

InFlight == Cardinality({c \in CPUs : job[c] # NoJob})

(* The stat slots of natra_stats_map: of the packets a CPU has taken in,   *)
(* each is counted once as passed or throttled when it is through, and     *)
(* every throttled one has one disposition once it is disposed of; over    *)
(* the CPUs, no packet that arrived is lost or counted twice.              *)
StatsBalance ==
  /\ \A c \in CPUs :
       LET n == stats[c]
       IN  /\ n["throttled"] = n["ecn_marked"] + n["edt_delayed"] + n["dropped"]
                                 + (IF Undecided(c) THEN 1 ELSE 0)
           /\ n["throttled"] <= n["hh_hits"]
  /\ arrived = Total("passed") + Total("ecn_marked") + Total("edt_delayed")
                 + Total("dropped") + InFlight

(* Whatever the sketch lets through to it, the bucket keeps its contract:  *)
(* what is charged stays within burst_bytes and rate_bps.                  *)
RateCap == Bucket!RateCap

BucketSafety == Bucket!Init /\ [][Bucket!Next]_(Bucket!vars)

(* The whole program is the bucket driven by the sketch: every step of it  *)
(* is one of the bucket, or leaves the bucket alone, and likewise for the  *)
(* sketch, whose intervals follow the bucket's clock.                      *)
DrivesBucket == BucketSafety
DrivesSketch == Sketch!Spec
ClocksAgree  == now_idx = clock \div Interval

(* What every step keeps, for the proofs. *)
PlaneInv ==
  /\ Bucket!IInv
  /\ Sketch!SketchInv
  /\ OwnTypeOK
  /\ OneOwner
  /\ MiceAreNeverCharged
  /\ ClocksAgree

(* Every packet gets a verdict. *)
EveryPacketGetsVerdict ==
  \A c \in CPUs : job[c] # NoJob ~> job[c] = NoJob

(* ARCHITECTURE.md: "rate enforcement is preserved regardless of which     *)
(* disposition delivers the packet".  Of heavy traffic on egress with EDT, *)
(* what has been forwarded so far would be within the burst and the        *)
(* accrual since the node started, and one packet more.                    *)
RateHoldsForEveryDisposition ==
  (served + marked) * Bucket!Unit
    <= (Burst + Max(Lens)) * Bucket!Unit + Rate * clock

=============================================================================
