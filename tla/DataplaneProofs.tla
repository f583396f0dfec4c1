-------------------------- MODULE DataplaneProofs ---------------------------
(***************************************************************************)
(* The program as a whole drives the token bucket and the sketch as their  *)
(* own modules say they are driven, so that what is proved of them alone   *)
(* is proved of it; and no packet of a small flow is ever charged.         *)
(***************************************************************************)
EXTENDS Dataplane, FiniteSetTheorems, TLAPS

(* What is proved of the parts. *)
B == INSTANCE PacingProofs WITH Skew <- MaxClock
S == INSTANCE CountMinProofs WITH IdxLag <- MaxIdx

(* The sketch where no reading is of an earlier interval. *)
Timely == INSTANCE CountMinProofs WITH IdxLag <- 0

----------------------------------------------------------------------------
(* Intervals of the clock.                                                 *)

LEMMA IntervalMonotone ==
  ASSUME NEW a \in Nat, NEW b \in Nat, a <= b, NEW k \in Nat \ {0}
  PROVE  /\ a \div k \in Nat /\ b \div k \in Nat
         /\ a \div k <= b \div k
  OBVIOUS

(* A tick ends at most one interval. *)
LEMMA NextInterval ==
  ASSUME NEW a \in Nat, NEW k \in Nat \ {0}
  PROVE  (a + 1) \div k \in {a \div k, (a \div k) + 1}
  OBVIOUS

LEMMA LensNat == \A n \in Lens \union {0} : n \in Nat
<1>1. Lens \subseteq Nat
  BY PlaneAssumption
<1> QED
  BY <1>1

LEMMA MaxIdxNat == MaxIdx \in Nat /\ MaxClock \in Nat /\ Interval \in Nat \ {0}
  BY PlaneAssumption, IntervalMonotone DEF MaxIdx

----------------------------------------------------------------------------
(* Dataplane's instances of the two modules, and those of their proofs.    *)

LEMMA SameBucketNext == Bucket!Next => B!Next
  BY DEF Bucket!Next, B!Next, Bucket!Tick, B!Tick, Bucket!OpenWindow, B!OpenWindow,
    Bucket!FqSend, B!FqSend, Bucket!Heavy, B!Heavy, Bucket!Step, B!Step,
    Bucket!Readings, B!Readings, Bucket!LockConsume, B!LockConsume,
    Bucket!UnlockConsume, B!UnlockConsume, Bucket!LockPace, B!LockPace,
    Bucket!UnlockPace, B!UnlockPace, Bucket!MarkOrDrop, B!MarkOrDrop,
    Bucket!LockAndLoad, B!LockAndLoad, Bucket!Unlock, B!Unlock, Bucket!Goto, B!Goto,
    Bucket!bucket, B!bucket, Bucket!Refill, B!Refill, Bucket!Added, B!Added,
    Bucket!Elapsed, B!Elapsed, Bucket!Later, B!Later, Bucket!ReleaseAt, B!ReleaseAt,
    Bucket!AddNs, B!AddNs, Bucket!DelayNs, B!DelayNs

LEMMA SameBucketInit == Bucket!Init => B!Init
  BY DEF Bucket!Init, B!Init

LEMMA SameBucketInv == Bucket!IInv <=> B!IInv
  BY DEF Bucket!IInv, B!IInv, Bucket!TypeOK, B!TypeOK, Bucket!Control, B!Control,
    Bucket!HolderIsCurrent, B!HolderIsCurrent, Bucket!NoCreditFromTheFuture,
    B!NoCreditFromTheFuture, Bucket!WindowPaid, B!WindowPaid, Bucket!Unit, B!Unit

LEMMA SameCap == B!RateCap => RateCap
  BY DEF RateCap, Bucket!RateCap, B!RateCap, Bucket!Contract!RateCap,
    B!Contract!RateCap, Bucket!Contract!Full, B!Contract!Full, Bucket!Unit, B!Unit

LEMMA SamePow2 == Sketch!Pow2 = S!Pow2
  BY DEF Sketch!Pow2, S!Pow2

LEMMA SameSketchNext == Sketch!Next => S!Next
  BY SamePow2 DEF Sketch!Next, S!Next, Sketch!Boundary, S!Boundary, Sketch!Begin, S!Begin,
    Sketch!Step, S!Step, Sketch!Take, S!Take, Sketch!LoadIdx, S!LoadIdx,
    Sketch!LoadBytes, S!LoadBytes, Sketch!StoreBytes, S!StoreBytes,
    Sketch!StoreIdx, S!StoreIdx, Sketch!Readings, S!Readings, Sketch!Col, S!Col,
    Sketch!Faded, S!Faded, Sketch!NextRow, S!NextRow, Sketch!Lesser, S!Lesser, Sketch!Idle, S!Idle,
    Sketch!AllOnes, S!AllOnes, Sketch!CellWord, S!CellWord, Sketch!cells, S!cells

LEMMA SameSketchInit == Sketch!Init => S!Init
  BY SamePow2 DEF Sketch!Init, S!Init, Sketch!Idle, S!Idle, Sketch!AllOnes, S!AllOnes,
    Sketch!CellWord, S!CellWord

LEMMA SameSketchInv == Sketch!SketchInv <=> S!SketchInv
  BY SamePow2 DEF Sketch!SketchInv, S!SketchInv, Sketch!TypeOK, S!TypeOK, Sketch!WalkOK,
    S!WalkOK, Sketch!NeverOvercounts, S!NeverOvercounts, Sketch!EvidenceSoFar,
    S!EvidenceSoFar, Sketch!Visited, S!Visited, Sketch!Col, S!Col, Sketch!Cell,
    S!Cell, Sketch!Walk, S!Walk, Sketch!AllOnes, S!AllOnes, Sketch!CellWord, S!CellWord

(* A step of the bucket keeps the bucket's invariant, one of the sketch    *)
(* the sketch's.                                                           *)
LEMMA BucketKeeps == Bucket!IInv /\ [Bucket!Next]_(Bucket!vars) => Bucket!IInv'
<1>1. [Bucket!Next]_(Bucket!vars) => [B!Next]_(B!vars)
  BY SameBucketNext DEF Bucket!vars, B!vars, Bucket!bucket, B!bucket
<1>2. B!IInv /\ [B!Next]_(B!vars) => B!IInv'
  BY B!NextIInv, PlaneAssumption, MaxIdxNat
<1> QED
  BY <1>1, <1>2, SameBucketInv, PTL

LEMMA SketchKeeps ==
  Sketch!SketchInv /\ [Sketch!Next]_(Sketch!vars) => Sketch!SketchInv'
<1>1. [Sketch!Next]_(Sketch!vars) => [S!Next]_(S!vars)
  BY SameSketchNext DEF Sketch!vars, S!vars, Sketch!cells, S!cells
<1>2. S!SketchInv /\ [S!Next]_(S!vars) => S!SketchInv'
  BY S!NextSketchInv, PlaneAssumption, MaxIdxNat
<1> QED
  BY <1>1, <1>2, SameSketchInv, PTL

----------------------------------------------------------------------------
(* The program drives its parts.                                           *)

LEMMA InitPlaneInv == Init => PlaneInv
<1> SUFFICES ASSUME Init PROVE PlaneInv
  OBVIOUS
<1>1. Bucket!IInv
  BY B!InitIInv, SameBucketInit, SameBucketInv, PlaneAssumption, MaxIdxNat DEF Init
<1>2. Sketch!SketchInv
  BY S!InitSketchInv, SameSketchInit, SameSketchInv, PlaneAssumption, MaxIdxNat
  DEF Init
<1>3. \A c \in CPUs : ~Classifying(c) /\ ~Charging(c)
  BY DEF Init, Bucket!Init, Sketch!Init, Classifying, Charging, Sketch!Idle
<1>4. OwnTypeOK
  BY PlaneAssumption DEF Init, OwnTypeOK, Job, NoJob
<1>5. OneOwner /\ MiceAreNeverCharged
  BY <1>3 DEF Init, OneOwner, MiceAreNeverCharged
<1>6. ClocksAgree
  BY DEF Init, ClocksAgree
<1> QED
  BY <1>1, <1>2, <1>4, <1>5, <1>6 DEF PlaneInv

(* A packet's reading names an interval that the sketch expects. *)
LEMMA ReadingIsAnInterval ==
  ASSUME ClocksAgree, clock \in 0..MaxClock, NEW t \in Readings
  PROVE  t \div Interval \in Sketch!Readings
<1>1. t \in Nat /\ clock \in Nat /\ t <= clock /\ clock <= MaxClock
  BY MaxIdxNat DEF Readings
<1>2. /\ t \div Interval \in Nat
      /\ t \div Interval <= clock \div Interval
      /\ clock \div Interval <= MaxIdx
  BY <1>1, MaxIdxNat, IntervalMonotone DEF MaxIdx
<1> QED
  BY <1>2, MaxIdxNat, IntervalMonotone DEF Sketch!Readings, ClocksAgree

LEMMA StepsOfTheBucket ==
  ASSUME PlaneInv, [Next]_vars
  PROVE  [Bucket!Next]_(Bucket!vars)
<1> USE DEF bucketVars, Bucket!vars, Bucket!bucket
<1>1. CASE Tick \/ OpenWindow \/ FqSend
  BY <1>1 DEF Tick, OpenWindow, FqSend, Bucket!Next
<1>2. ASSUME NEW c \in CPUs,
             Lock(c) \/ Consume(c) \/ Pace(c) \/ MarkOrDrop(c)
      PROVE  Bucket!Next
  BY <1>2 DEF Lock, Consume, Pace, MarkOrDrop, Bucket!Next, Bucket!Step
<1>3. ASSUME NEW c \in CPUs, Hit(c) PROVE Bucket!Next
  <2>1. walk[c].at = "done"
    BY <1>3 DEF Hit, Sketch!Take
  <2>2. job[c].len \in Lens /\ job[c].now \in 0..clock
    BY <2>1 DEF PlaneInv, OneOwner, Classifying
  <2>3. clock \in 0..MaxClock
    BY DEF PlaneInv, Bucket!IInv, Bucket!TypeOK
  <2>4. job[c].now \in Bucket!Readings
    BY <2>2, <2>3, MaxIdxNat DEF Bucket!Readings
  <2> QED
    BY <1>3, <2>2, <2>4 DEF Hit, Bucket!Next
<1>4. ASSUME NEW c \in CPUs,
             \/ PassUnaccounted(c) \/ Count(c) \/ Mouse(c)
             \/ \E f \in Flows, n \in Lens, t \in Readings :
                  Arrive(c, f, n, t)
      PROVE  UNCHANGED bucketVars
  BY <1>4 DEF PassUnaccounted, Count, Mouse, Arrive
<1>5. CASE UNCHANGED vars
  BY <1>5 DEF vars
<1> QED
  BY <1>1, <1>2, <1>3, <1>4, <1>5 DEF Next, Work

LEMMA StepsOfTheSketch ==
  ASSUME PlaneInv, [Next]_vars
  PROVE  [Sketch!Next]_(Sketch!vars)
<1> USE DEF sketchVars, Sketch!vars, Sketch!cells
<1>1. CASE Tick
  BY <1>1 DEF Tick, Sketch!Next
<1>2. ASSUME NEW c \in CPUs, Count(c) \/ Mouse(c) \/ Hit(c) PROVE Sketch!Next
  BY <1>2 DEF Count, Mouse, Hit, Sketch!Next
<1>3. ASSUME NEW c \in CPUs, NEW f \in Flows, NEW n \in Lens, NEW t \in Readings, Arrive(c, f, n, t)
      PROVE  Sketch!Next
  <2>1. t \div Interval \in Sketch!Readings
    BY ReadingIsAnInterval DEF PlaneInv, Bucket!IInv, Bucket!TypeOK
  <2> QED
    BY <1>3, <2>1 DEF Arrive, Sketch!Next
<1>4. ASSUME NEW c \in CPUs,
             PassUnaccounted(c) \/ Lock(c) \/ Consume(c) \/ Pace(c) \/ MarkOrDrop(c)
      PROVE  UNCHANGED sketchVars
  BY <1>4 DEF PassUnaccounted, Lock, Consume, Pace, MarkOrDrop
<1>5. CASE OpenWindow \/ FqSend \/ UNCHANGED vars
  BY <1>5 DEF OpenWindow, FqSend, vars
<1> QED
  BY <1>1, <1>2, <1>3, <1>4, <1>5 DEF Next, Work

----------------------------------------------------------------------------
(* A packet has one owner.                                                 *)

(* OneOwner, of one CPU. *)
Owned(c) ==
  /\ job[c] = NoJob <=> ~Classifying(c) /\ ~Charging(c)
  /\ ~Classifying(c) \/ ~Charging(c)
  /\ Classifying(c) \/ Charging(c) =>
       job[c].flow \in Flows /\ job[c].len \in Lens /\ job[c].now \in 0..clock
  /\ Classifying(c) =>
       /\ walk[c].flow = job[c].flow
       /\ walk[c].len = job[c].len
       /\ walk[c].idx = job[c].now \div Interval
  /\ Charging(c) =>
       pkt[c] = [len |-> job[c].len, now |-> job[c].now]

LEMMA OwnerIsOwned == OneOwner <=> \A c \in CPUs : Owned(c)
  BY DEF OneOwner, Owned

LEMMA Types ==
  ASSUME PlaneInv
  PROVE  /\ walk \in [CPUs -> Sketch!Walk]
         /\ pc \in [CPUs -> Bucket!Control]
         /\ pkt \in [CPUs -> [len : Nat, now : Nat]]
         /\ job \in [CPUs -> Job]
         /\ stats \in [CPUs -> [Slots -> Nat]]
         /\ clock \in Nat
  BY MaxIdxNat DEF PlaneInv, Bucket!IInv, Bucket!TypeOK, Sketch!SketchInv,
     Sketch!TypeOK, OwnTypeOK

LEMMA StaysOwned ==
  ASSUME NEW c, Owned(c), clock \in Nat, clock' \in {clock, clock + 1},
         walk'[c] = walk[c], pc'[c] = pc[c], pkt'[c] = pkt[c], job'[c] = job[c]
  PROVE  Owned(c)'
  BY DEF Owned, Classifying, Charging

(* A CPU that is done with its packet. *)
LEMMA FreedIsOwned ==
  ASSUME PlaneInv, NEW c \in CPUs, Free(c), walk'[c].at = "idle", pc'[c] = "idle"
  PROVE  Owned(c)'
<1>1. job'[c] = NoJob
  BY Types DEF Free
<1> QED
  BY <1>1 DEF Owned, Classifying, Charging

(* A step of a CPU leaves the others alone. *)
LEMMA OthersStayOwned ==
  ASSUME PlaneInv, NEW c \in CPUs, NEW d \in CPUs, c # d,
         \/ PassUnaccounted(c) \/ Work(c)
         \/ \E f \in Flows, n \in Lens, t \in Readings :
              Arrive(c, f, n, t)
  PROVE  Owned(d)'
<1>1. /\ clock' = clock
      /\ walk'[d] = walk[d] /\ pc'[d] = pc[d]
      /\ pkt'[d] = pkt[d] /\ job'[d] = job[d]
  <2>1. CASE PassUnaccounted(c)
    BY <2>1 DEF PassUnaccounted, bucketVars, sketchVars
  <2>2. CASE Count(c) \/ Mouse(c) \/ Hit(c)
    BY <2>2, Types DEF Count, Mouse, Hit, Pass, Free, bucketVars, Sketch!Take,
       Sketch!Step, Sketch!LoadIdx, Sketch!LoadBytes, Sketch!StoreBytes,
       Sketch!StoreIdx, Bucket!Heavy, Bucket!Goto
  <2>3. CASE Lock(c) \/ Consume(c) \/ Pace(c) \/ MarkOrDrop(c)
    BY <2>3, Types DEF Lock, Consume, Pace, MarkOrDrop, Pass, Free, sketchVars,
       Bucket!LockConsume, Bucket!LockPace, Bucket!LockAndLoad, Bucket!Goto,
       Bucket!UnlockConsume, Bucket!UnlockPace, Bucket!MarkOrDrop
  <2>4. ASSUME NEW f \in Flows, NEW n \in Lens, NEW t \in Readings, Arrive(c, f, n, t)
        PROVE  /\ clock' = clock
               /\ walk'[d] = walk[d] /\ pc'[d] = pc[d]
               /\ pkt'[d] = pkt[d] /\ job'[d] = job[d]
    BY <2>4, Types DEF Arrive, bucketVars, Sketch!Begin
  <2> QED
    BY <2>1, <2>2, <2>3, <2>4 DEF Work
<1>2. Owned(d) /\ clock \in Nat
  BY OwnerIsOwned, Types DEF PlaneInv
<1> QED
  BY <1>1, <1>2, StaysOwned

(* A CPU's own step keeps its packet in one place. *)
LEMMA StepStaysOwned ==
  ASSUME PlaneInv, NEW c \in CPUs, PassUnaccounted(c) \/ Work(c)
  PROVE  Owned(c)'
<1>0. Owned(c) /\ clock \in Nat
  BY OwnerIsOwned, Types DEF PlaneInv
<1>1. CASE PassUnaccounted(c)
  BY <1>0, <1>1, StaysOwned DEF PassUnaccounted, bucketVars, sketchVars
<1>2. CASE Count(c)
  <2>1. /\ walk'[c].at # "idle" /\ walk[c].at # "idle"
        /\ walk'[c].flow = walk[c].flow
        /\ walk'[c].len = walk[c].len
        /\ walk'[c].idx = walk[c].idx
    <3>1. walk \in [CPUs -> Sketch!Walk] /\ walk[c] \in Sketch!Walk
      BY Types
    <3>2. CASE Sketch!LoadIdx(c)
      BY <3>1, <3>2 DEF Sketch!LoadIdx, Sketch!Walk
    <3>3. CASE Sketch!LoadBytes(c)
      BY <3>1, <3>3 DEF Sketch!LoadBytes, Sketch!Walk
    <3>4. CASE Sketch!StoreBytes(c)
      BY <3>1, <3>4 DEF Sketch!StoreBytes, Sketch!Walk
    <3>5. CASE Sketch!StoreIdx(c)
      BY <3>1, <3>5 DEF Sketch!StoreIdx, Sketch!NextRow, Sketch!Walk
    <3> QED
      BY <1>2, <3>2, <3>3, <3>4, <3>5 DEF Count, Sketch!Step
  <2>2. /\ clock' = clock /\ pc'[c] = pc[c]
        /\ pkt'[c] = pkt[c] /\ job'[c] = job[c]
    BY <1>2 DEF Count, bucketVars
  <2> QED
    BY <1>0, <2>1, <2>2 DEF Owned, Classifying, Charging
<1>3. CASE Mouse(c)
  <2>1. walk[c].at # "idle" /\ walk'[c].at = "idle" /\ pc'[c] = pc[c]
    BY <1>3, Types DEF Mouse, Sketch!Take, Sketch!Idle, bucketVars
  <2>2. pc[c] = "idle"
    BY <1>0, <2>1 DEF Owned, Classifying, Charging
  <2> QED
    BY <1>3, <2>1, <2>2, FreedIsOwned DEF Mouse, Pass
<1>4. CASE Hit(c)
  <2>1. /\ walk[c].at # "idle" /\ walk'[c].at = "idle"
        /\ pc'[c] = "heavy"
        /\ pkt'[c] = [len |-> job[c].len, now |-> job[c].now]
        /\ job'[c] = job[c] /\ clock' = clock
    BY <1>4, Types DEF Hit, Sketch!Take, Sketch!Idle, Bucket!Heavy, Bucket!Goto
  <2> QED
    BY <1>0, <2>1 DEF Owned, Classifying, Charging
<1>5. CASE Lock(c)
  <2>1. /\ pc[c] # "idle" /\ pc'[c] # "idle"
        /\ walk'[c] = walk[c] /\ clock' = clock
        /\ pkt'[c] = pkt[c] /\ job'[c] = job[c]
    BY <1>5, Types DEF Lock, sketchVars, Bucket!LockConsume, Bucket!LockPace,
       Bucket!LockAndLoad, Bucket!Goto
  <2> QED
    BY <1>0, <2>1 DEF Owned, Classifying, Charging
<1>6. CASE Consume(c) \/ Pace(c) \/ MarkOrDrop(c)
  <2>1. /\ pc[c] # "idle"
        /\ walk'[c] = walk[c] /\ clock' = clock /\ pkt'[c] = pkt[c]
        /\ \/ pc'[c] = "idle" /\ Free(c)
           \/ pc'[c] # "idle" /\ job'[c] = job[c]
    BY <1>6, Types DEF Consume, Pace, MarkOrDrop, Pass, sketchVars,
       Bucket!UnlockConsume, Bucket!UnlockPace, Bucket!MarkOrDrop, Bucket!Goto
  <2>2. walk[c].at = "idle"
    BY <1>0, <2>1 DEF Owned, Classifying, Charging
  <2>3. CASE pc'[c] = "idle" /\ Free(c)
    BY <2>1, <2>2, <2>3, FreedIsOwned
  <2>4. CASE pc'[c] # "idle" /\ job'[c] = job[c]
    BY <1>0, <2>1, <2>4 DEF Owned, Classifying, Charging
  <2> QED
    BY <2>1, <2>3, <2>4
<1> QED
  BY <1>1, <1>2, <1>3, <1>4, <1>5, <1>6 DEF Work

LEMMA ArrivalIsOwned ==
  ASSUME PlaneInv, NEW c \in CPUs, NEW f \in Flows, NEW n \in Lens,
         NEW t \in Readings, Arrive(c, f, n, t)
  PROVE  Owned(c)'
<1>1. /\ job[c] = NoJob /\ pc'[c] = pc[c] /\ clock' = clock
      /\ job'[c] = [flow |-> f, len |-> n, now |-> t]
  BY Types DEF Arrive, bucketVars
<1>2. /\ walk'[c].at # "idle" /\ walk'[c].flow = f
      /\ walk'[c].len = n /\ walk'[c].idx = t \div Interval
  BY Types DEF Arrive, Sketch!Begin, Sketch!Idle
<1>3. pc[c] = "idle"
  BY <1>1, OwnerIsOwned DEF PlaneInv, Owned, Charging
<1>4. f # NoFlow /\ t \in 0..clock
  BY PlaneAssumption, Types DEF Readings
<1> QED
  BY <1>1, <1>2, <1>3, <1>4 DEF Owned, Classifying, Charging, NoJob

LEMMA OwnerStep ==
  ASSUME PlaneInv, [Next]_vars
  PROVE  OneOwner'
<1> SUFFICES ASSUME NEW c \in CPUs PROVE Owned(c)'
  BY DEF OneOwner, Owned, Classifying, Charging
<1>0. Owned(c) /\ clock \in Nat
  BY OwnerIsOwned, Types DEF PlaneInv
<1>1. CASE Tick \/ OpenWindow \/ FqSend \/ UNCHANGED vars
  <2>1. /\ pc' = pc /\ pkt' = pkt /\ job' = job /\ walk' = walk
        /\ clock' \in {clock, clock + 1}
    BY <1>1 DEF Tick, OpenWindow, FqSend, vars, bucketVars, sketchVars,
       Bucket!Tick, Bucket!OpenWindow, Bucket!FqSend, Sketch!Boundary
  <2> QED
    BY <1>0, <2>1, StaysOwned
<1>2. ASSUME NEW d \in CPUs,
             \/ PassUnaccounted(d) \/ Work(d)
             \/ \E f \in Flows, n \in Lens, t \in Readings :
                  Arrive(d, f, n, t)
      PROVE  Owned(c)'
  BY <1>2, OthersStayOwned, StepStaysOwned, ArrivalIsOwned
<1> QED
  BY <1>1, <1>2 DEF Next

----------------------------------------------------------------------------
(* The other parts of the invariant.                                       *)

LEMMA OwnTypeStep ==
  ASSUME PlaneInv, [Next]_vars
  PROVE  OwnTypeOK'
<1>0. /\ OwnTypeOK /\ MaxPackets \in Nat /\ clock \in Nat
      /\ NoJob \in Job
      /\ \A c \in CPUs : job[c].len \in Nat
  <2>1. ASSUME NEW c \in CPUs PROVE job[c].len \in Nat
    <3>1. job[c] \in Job
      BY Types
    <3>2. job[c].len \in Lens \union {0}
      BY <3>1 DEF Job
    <3> QED
      BY <3>2, LensNat
  <2>2. NoJob \in Job
    BY DEF NoJob, Job
  <2>3. MaxPackets \in Nat
    BY PlaneAssumption
  <2> QED
    BY <2>1, <2>2, <2>3, Types DEF PlaneInv
<1>b. ASSUME NEW c \in CPUs, NEW s \in Slots, Bump(c, s)
      PROVE  stats' \in [CPUs -> [Slots -> Nat]]
  <2>1. stats[c] \in [Slots -> Nat]
    BY <1>0 DEF OwnTypeOK
  <2>2. [stats[c] EXCEPT ![s] = @ + 1] \in [Slots -> Nat]
    BY <2>1
  <2> QED
    BY <1>0, <1>b, <2>2 DEF Bump, OwnTypeOK
<1>f. ASSUME NEW c \in CPUs, Free(c) PROVE job' \in [CPUs -> Job]
  BY <1>0, <1>f DEF Free, OwnTypeOK
<1>s. Slots = {"passed", "throttled", "hh_hits", "ecn_marked", "edt_delayed",
               "dropped"}
  BY DEF Slots
<1>1. CASE Tick \/ OpenWindow \/ FqSend \/ UNCHANGED vars
  BY <1>0, <1>1 DEF OwnTypeOK, Tick, OpenWindow, FqSend, vars
<1>2. ASSUME NEW c \in CPUs, PassUnaccounted(c) PROVE OwnTypeOK'
  BY <1>0, <1>2, <1>b, <1>s DEF OwnTypeOK, PassUnaccounted
<1>3. ASSUME NEW c \in CPUs, NEW f \in Flows, NEW n \in Lens, NEW t \in Readings, Arrive(c, f, n, t)
      PROVE  OwnTypeOK'
  <2>1. [flow |-> f, len |-> n, now |-> t] \in Job
    BY <1>0 DEF Job, Readings
  <2> QED
    BY <1>0, <1>3, <2>1 DEF OwnTypeOK, Arrive
<1>4. ASSUME NEW c \in CPUs, Count(c) \/ Lock(c) PROVE OwnTypeOK'
  BY <1>0, <1>4 DEF OwnTypeOK, Count, Lock
<1>5. ASSUME NEW c \in CPUs, Mouse(c) \/ Hit(c) PROVE OwnTypeOK'
  BY <1>0, <1>5, <1>b, <1>f, <1>s DEF OwnTypeOK, Mouse, Hit, Pass
<1>6. ASSUME NEW c \in CPUs, Consume(c) \/ Pace(c) PROVE OwnTypeOK'
  BY <1>0, <1>6, <1>b, <1>f, <1>s DEF OwnTypeOK, Consume, Pace, Pass
<1>7. ASSUME NEW c \in CPUs, MarkOrDrop(c) PROVE OwnTypeOK'
  BY <1>0, <1>7, <1>b, <1>f, <1>s DEF OwnTypeOK, MarkOrDrop
<1> QED
  BY <1>1, <1>2, <1>3, <1>4, <1>5, <1>6, <1>7 DEF Next, Work

LEMMA ClocksStep ==
  ASSUME PlaneInv, [Next]_vars
  PROVE  ClocksAgree'
<1>0. now_idx = clock \div Interval /\ clock \in Nat /\ Interval \in Nat \ {0}
  BY Types, MaxIdxNat DEF PlaneInv, ClocksAgree
<1>1. CASE Tick
  <2>1. clock' = clock + 1
    BY <1>1 DEF Tick, Bucket!Tick
  <2>2. clock' \div Interval \in {now_idx, now_idx + 1}
    BY <1>0, <2>1, NextInterval
  <2>3. now_idx' = IF clock' \div Interval = now_idx THEN now_idx ELSE now_idx + 1
    BY <1>1 DEF Tick, sketchVars, Sketch!Boundary
  <2> QED
    BY <2>2, <2>3 DEF ClocksAgree
<1>2. ASSUME NEW c \in CPUs,
             \/ PassUnaccounted(c) \/ Work(c)
             \/ \E f \in Flows, n \in Lens, t \in Readings :
                  Arrive(c, f, n, t)
      PROVE  UNCHANGED <<clock, now_idx>>
  BY <1>2 DEF PassUnaccounted, Arrive, Work, Count, Mouse, Hit, Lock, Consume,
     Pace, MarkOrDrop, bucketVars, sketchVars, Sketch!Begin, Sketch!Take,
     Sketch!Step, Sketch!LoadIdx, Sketch!LoadBytes, Sketch!StoreBytes,
     Sketch!StoreIdx, Bucket!Heavy, Bucket!LockConsume, Bucket!LockPace,
     Bucket!LockAndLoad, Bucket!UnlockConsume, Bucket!UnlockPace, Bucket!MarkOrDrop
<1>3. ASSUME UNCHANGED <<clock, now_idx>> PROVE ClocksAgree'
  BY <1>0, <1>3 DEF ClocksAgree
<1>4. CASE OpenWindow \/ FqSend \/ UNCHANGED vars
  BY <1>3, <1>4 DEF OpenWindow, FqSend, vars, bucketVars, sketchVars,
     Bucket!OpenWindow, Bucket!FqSend
<1>5. CASE \E c \in CPUs :
             \/ PassUnaccounted(c) \/ Work(c)
             \/ \E f \in Flows, n \in Lens, t \in Readings :
                  Arrive(c, f, n, t)
  BY <1>2, <1>3, <1>5
<1> QED
  BY <1>1, <1>4, <1>5 DEF Next

(* What a cell was sent never shrinks. *)
LEMMA SentGrows ==
  ASSUME PlaneInv, [Next]_vars, NEW r \in 1..Depth, NEW k \in Cols
  PROVE  sent[r][k] \in Nat /\ sent'[r][k] \in Nat /\ sent'[r][k] >= sent[r][k]
<1>1. [Sketch!Next]_(Sketch!vars) /\ Sketch!TypeOK
  BY StepsOfTheSketch DEF PlaneInv, Sketch!SketchInv
<1>0. /\ sent \in [1..Depth -> [Cols -> Nat]]
      /\ sent[r] \in [Cols -> Nat] /\ sent[r][k] \in Nat
  BY <1>1 DEF Sketch!TypeOK, Sketch!Cell
<1>2. ASSUME NEW c \in CPUs, Sketch!LoadBytes(c)
      PROVE  sent'[r][k] \in {sent[r][k], sent[r][k] + walk[c].len}
  BY <1>0, <1>2 DEF Sketch!LoadBytes
<1>3. ASSUME NEW c \in CPUs PROVE walk[c].len \in Nat
  <2>1. walk[c] \in Sketch!Walk
    BY Types
  <2>2. walk[c].len \in Lens \union {0}
    BY <2>1 DEF Sketch!Walk
  <2> QED
    BY <2>2, LensNat
<1>4. ASSUME NEW c \in CPUs,
             \/ Sketch!LoadIdx(c) \/ Sketch!StoreBytes(c) \/ Sketch!StoreIdx(c)
             \/ Sketch!Take(c)
             \/ \E f \in Flows, n \in Lens, i \in Sketch!Readings :
                  Sketch!Begin(c, f, n, i)
      PROVE  sent' = sent
  BY <1>4 DEF Sketch!LoadIdx, Sketch!StoreBytes, Sketch!StoreIdx, Sketch!Take,
     Sketch!Begin
<1>5. ASSUME Sketch!Boundary \/ UNCHANGED Sketch!vars PROVE sent' = sent
  BY <1>5 DEF Sketch!Boundary, Sketch!vars
<1>6. CASE sent' = sent
  BY <1>0, <1>6
<1>7. CASE \E c \in CPUs : Sketch!LoadBytes(c)
  BY <1>0, <1>2, <1>3, <1>7
<1> QED
  BY <1>1, <1>4, <1>5, <1>6, <1>7 DEF Sketch!Next, Sketch!Step

(* A CPU that is charging a packet has just found it heavy, or was         *)
(* charging it already.                                                    *)
LEMMA ChargingComesFromAHit ==
  ASSUME PlaneInv, [Next]_vars, NEW c \in CPUs, Charging(c)'
  PROVE  job'[c] = job[c] /\ (Charging(c) \/ Hit(c))
<1>0. Owned(c) /\ Owned(c)'
  BY OwnerIsOwned, OwnerStep DEF PlaneInv, OneOwner, Owned, Classifying, Charging
<1>1. CASE Tick \/ OpenWindow \/ FqSend \/ UNCHANGED vars
  BY <1>1 DEF Tick, OpenWindow, FqSend, vars, bucketVars, Charging,
     Bucket!Tick, Bucket!OpenWindow, Bucket!FqSend
<1>2. CASE PassUnaccounted(c) \/ Count(c) \/ Lock(c)
  BY <1>2, Types DEF PassUnaccounted, Count, Lock, bucketVars, Charging,
     Bucket!LockConsume, Bucket!LockPace, Bucket!LockAndLoad, Bucket!Goto
<1>3. CASE Hit(c)
  BY <1>3 DEF Hit
<1>4. CASE Mouse(c)
  <2>1. job'[c] = NoJob
    BY <1>4, Types DEF Mouse, Pass, Free
  <2> QED
    BY <1>0, <2>1 DEF Owned
<1>5. CASE Consume(c) \/ Pace(c) \/ MarkOrDrop(c)
  BY <1>5, Types DEF Consume, Pace, MarkOrDrop, Charging,
     Bucket!UnlockConsume, Bucket!UnlockPace, Bucket!MarkOrDrop, Bucket!Goto
<1>6. ASSUME NEW f \in Flows, NEW n \in Lens, NEW t \in Readings, Arrive(c, f, n, t)
      PROVE  FALSE
  BY <1>0, <1>6 DEF Arrive, bucketVars, Owned, Charging
<1>7. ASSUME NEW d \in CPUs, d # c,
             \/ PassUnaccounted(d) \/ Work(d)
             \/ \E f \in Flows, n \in Lens, t \in Readings :
                  Arrive(d, f, n, t)
      PROVE  job'[c] = job[c] /\ pc'[c] = pc[c]
  <2>1. CASE Count(d) \/ Mouse(d) \/ Hit(d) \/ PassUnaccounted(d)
    BY <1>7, <2>1, Types DEF Count, Mouse, Hit, PassUnaccounted, Pass, Free,
       bucketVars, Bucket!Heavy, Bucket!Goto
  <2>2. CASE Lock(d) \/ Consume(d) \/ Pace(d) \/ MarkOrDrop(d)
    BY <1>7, <2>2, Types DEF Lock, Consume, Pace, MarkOrDrop, Pass, Free,
       Bucket!LockConsume, Bucket!LockPace, Bucket!LockAndLoad, Bucket!Goto,
       Bucket!UnlockConsume, Bucket!UnlockPace, Bucket!MarkOrDrop
  <2>3. ASSUME NEW f \in Flows, NEW n \in Lens, NEW t \in Readings, Arrive(d, f, n, t)
        PROVE  job'[c] = job[c] /\ pc'[c] = pc[c]
    BY <1>7, <2>3, Types DEF Arrive, bucketVars
  <2> QED
    BY <1>7, <2>1, <2>2, <2>3 DEF Work
<1>8. ASSUME NEW d \in CPUs, d # c,
             \/ PassUnaccounted(d) \/ Work(d)
             \/ \E f \in Flows, n \in Lens, t \in Readings :
                  Arrive(d, f, n, t)
      PROVE  job'[c] = job[c] /\ Charging(c)
  BY <1>7, <1>8 DEF Charging
<1> QED
  BY <1>1, <1>2, <1>3, <1>4, <1>5, <1>6, <1>8 DEF Next, Work

(* A packet reaches the bucket only on the evidence of all its cells. *)
LEMMA MiceStep ==
  ASSUME PlaneInv, [Next]_vars
  PROVE  MiceAreNeverCharged'
<1> SUFFICES ASSUME NEW c \in CPUs, Charging(c)', NEW r \in 1..Depth
             PROVE  sent'[r][Hash[job'[c].flow][r]] > Threshold
  BY DEF MiceAreNeverCharged, Charging
<1> DEFINE k == Hash[job[c].flow][r]
<1>1. job'[c] = job[c] /\ (Charging(c) \/ Hit(c))
  BY ChargingComesFromAHit
<1>2. Charging(c) \/ Classifying(c)
  BY <1>1 DEF Hit, Sketch!Take, Classifying
<1>3. job[c].flow \in Flows
  BY <1>2 DEF PlaneInv, OneOwner
<1>4. k \in Cols
  <2>1. Hash[job[c].flow] \in [1..Depth -> Cols]
    BY <1>3, PlaneAssumption
  <2> QED
    BY <2>1
<1>5. sent[r][k] > Threshold
  <2>1. CASE Charging(c)
    BY <2>1 DEF PlaneInv, MiceAreNeverCharged
  <2>2. CASE Hit(c)
    <3>1. walk[c].at = "done" /\ walk[c].mn > Threshold
      BY <2>2 DEF Hit, Sketch!Take
    <3>2. walk[c].flow = job[c].flow
      BY <3>1 DEF PlaneInv, OneOwner, Classifying
    <3>3. walk[c].mn <= sent[r][k]
      BY <3>1, <3>2 DEF PlaneInv, Sketch!SketchInv, Sketch!EvidenceSoFar,
         Sketch!Visited
    <3>4. walk[c].mn \in Nat
      <4>1. walk[c] \in Sketch!Walk
        BY Types
      <4> QED
        BY <4>1 DEF Sketch!Walk
    <3>5. sent[r][k] \in Nat /\ Threshold \in Nat
      BY <1>4, SentGrows, PlaneAssumption
    <3> QED
      BY <3>1, <3>3, <3>4, <3>5
  <2> QED
    BY <1>1, <2>1, <2>2
<1>6. sent[r][k] \in Nat /\ sent'[r][k] \in Nat /\ sent'[r][k] >= sent[r][k]
  BY <1>4, SentGrows
<1>7. Threshold \in Nat
  BY PlaneAssumption
<1> QED
  BY <1>1, <1>5, <1>6, <1>7

LEMMA NextPlaneInv == PlaneInv /\ [Next]_vars => PlaneInv'
<1> SUFFICES ASSUME PlaneInv, [Next]_vars PROVE PlaneInv'
  OBVIOUS
<1>1. Bucket!IInv'
  BY StepsOfTheBucket, BucketKeeps DEF PlaneInv
<1>2. Sketch!SketchInv'
  BY StepsOfTheSketch, SketchKeeps DEF PlaneInv
<1> QED
  BY <1>1, <1>2, OwnTypeStep, OwnerStep, MiceStep, ClocksStep DEF PlaneInv

----------------------------------------------------------------------------
(* The books of natra_stats_map.                                           *)

(* How far a CPU's packet is at the bucket, as far as the slots tell. *)
Stage(c) == IF Undecided(c) THEN "undecided"
            ELSE IF pc[c] = "idle" THEN "none" ELSE "charged"

Busy == {c \in CPUs : job[c] # NoJob}
Open == {c \in CPUs : Undecided(c)}

Balance(c) ==
  /\ stats[c]["throttled"] = stats[c]["ecn_marked"] + stats[c]["edt_delayed"]
                               + stats[c]["dropped"] + (IF Stage(c) = "undecided" THEN 1 ELSE 0)
  /\ stats[c]["throttled"] + (IF Stage(c) = "charged" THEN 1 ELSE 0) <= stats[c]["hh_hits"]

(* Per CPU, and over the CPUs: what arrived, and what was throttled. *)
StatsInv ==
  /\ \A c \in CPUs : Balance(c)
  /\ arrived = Total("passed") + Total("ecn_marked") + Total("edt_delayed")
                 + Total("dropped") + Cardinality(Busy)
  /\ Total("throttled") = Total("ecn_marked") + Total("edt_delayed") + Total("dropped")
                            + Cardinality(Open)

LEMMA TotalIs ==
  ASSUME PlaneInv, NEW s \in Slots
  PROVE  IsFiniteSet(Increments(s)) /\ Total(s) \in Nat
<1>1. \A c \in CPUs : stats[c][s] \in Nat
  <2>1. \A c \in CPUs : stats[c] \in [Slots -> Nat]
    BY Types
  <2> QED
    BY <2>1
<1>2. \A c \in CPUs : IsFiniteSet({c} \X (1..stats[c][s]))
  <2> SUFFICES ASSUME NEW c \in CPUs PROVE IsFiniteSet({c} \X (1..stats[c][s]))
    OBVIOUS
  <2>1. IsFiniteSet({c}) /\ IsFiniteSet(1..stats[c][s])
    <3>1. 1 \in Int /\ stats[c][s] \in Int
      BY <1>1
    <3>2. IsFiniteSet(1..stats[c][s])
      BY ONLY <3>1, FS_Interval
    <3> QED
      BY <3>2, FS_Singleton
  <2> QED
    BY <2>1, FS_Product
<1> DEFINE parts == {{c} \X (1..stats[c][s]) : c \in CPUs}
           f == [c \in CPUs |-> {c} \X (1..stats[c][s])]
<1>3. IsFiniteSet(parts)
  <2>1. f \in Surjection(CPUs, parts)
    BY DEF Surjection
  <2> QED
    BY <2>1, FS_Surjection, PlaneAssumption
<1>4. IsFiniteSet(UNION parts)
  <2>1. \A T \in parts : IsFiniteSet(T)
    BY <1>2
  <2> HIDE DEF parts
  <2> QED
    BY <1>3, <2>1, FS_UNION
<1> QED
  BY <1>4, FS_CardinalityType DEF Increments, Total

(* An increment adds one to the sum of its slot, and nothing to the others. *)
LEMMA BumpTotals ==
  ASSUME PlaneInv, NEW c \in CPUs, NEW s \in Slots, Bump(c, s)
  PROVE  /\ Total(s)' = Total(s) + 1
         /\ \A q \in Slots \ {s} : Total(q)' = Total(q)
<1>1. /\ stats \in [CPUs -> [Slots -> Nat]] /\ stats' = [stats EXCEPT ![c][s] = @ + 1]
  BY Types DEF Bump
<1>2. \A d \in CPUs, q \in Slots :
        /\ stats[d][q] \in Nat
        /\ stats'[d][q] = IF d = c /\ q = s THEN stats[d][q] + 1 ELSE stats[d][q]
  BY <1>1
<1>3. ASSUME NEW q \in Slots \ {s} PROVE Increments(q)' = Increments(q)
  <2>1. \A d \in CPUs : stats'[d][q] = stats[d][q]
    BY <1>2
  <2> QED
    BY <2>1 DEF Increments
<1> DEFINE new == <<c, stats[c][s] + 1>>
<1>4. Increments(s)' = Increments(s) \union {new} /\ new \notin Increments(s)
  <2>1. \A x : x \in Increments(s) <=> \E d \in CPUs : \E i \in 1..stats[d][s] : x = <<d, i>>
    BY DEF Increments
  <2>2. \A x : x \in Increments(s)' <=> \E d \in CPUs : \E i \in 1..stats'[d][s] : x = <<d, i>>
    BY DEF Increments
  <2>3. \A d \in CPUs, i \in Int :
          i \in 1..stats'[d][s] <=> i \in 1..stats[d][s] \/ (d = c /\ i = stats[c][s] + 1)
    BY <1>2
  <2>4. stats[c][s] + 1 \in Int /\ stats[c][s] + 1 \notin 1..stats[c][s]
    BY <1>2
  <2>5. \A x : x \in Increments(s)' <=> x \in Increments(s) \/ x = new
    <3>1. ASSUME NEW x, x \in Increments(s)' PROVE x \in Increments(s) \/ x = new
      <4>1. PICK d \in CPUs : \E i \in 1..stats'[d][s] : x = <<d, i>>
        BY <2>2, <3>1
      <4>2. PICK i \in Int : i \in 1..stats'[d][s] /\ x = <<d, i>>
        BY <4>1
      <4> QED
        BY <2>1, <2>3, <4>1, <4>2
    <3>2. ASSUME NEW x, x \in Increments(s) PROVE x \in Increments(s)'
      <4>1. PICK d \in CPUs : \E i \in 1..stats[d][s] : x = <<d, i>>
        BY <2>1, <3>2
      <4>2. PICK i \in Int : i \in 1..stats[d][s] /\ x = <<d, i>>
        BY <4>1
      <4> QED
        BY <2>2, <2>3, <4>1, <4>2
    <3>3. new \in Increments(s)'
      BY <2>2, <2>3, <2>4
    <3> QED
      BY <3>1, <3>2, <3>3
  <2>6. new \notin Increments(s)
    BY <2>1, <2>4
  <2> QED
    BY <2>5, <2>6
<1> HIDE DEF new
<1>5. Cardinality(Increments(s)') = Cardinality(Increments(s)) + 1
  BY <1>4, TotalIs, FS_AddElement
<1> QED
  BY <1>3, <1>5 DEF Total

LEMMA SetsAreFinite ==
  /\ IsFiniteSet(Busy) /\ Cardinality(Busy) \in Nat
  /\ IsFiniteSet(Open) /\ Cardinality(Open) \in Nat
  /\ Cardinality(Open) <= Cardinality(CPUs)
<1>1. IsFiniteSet(CPUs)
  BY PlaneAssumption
<1>2. Busy \in SUBSET CPUs /\ Open \in SUBSET CPUs
  BY DEF Busy, Open
<1> QED
  BY <1>1, <1>2, FS_Subset, FS_CardinalityType

LEMMA StageIs ==
  ASSUME PlaneInv, NEW c \in CPUs
  PROVE  /\ Stage(c) = "undecided" <=> Undecided(c)
         /\ Stage(c) = "charged" <=> pc[c] \in {"heavy", "refill"}
         /\ Stage(c) = "none" <=> ~Charging(c)
BY Types DEF Stage, Undecided, Charging, Bucket!Control

(* What a step does to the books: c goes from one stage to another. *)
Moves(c, from, to) ==
  /\ Stage(c) = from /\ Stage(c)' = to
  /\ \A d \in CPUs \ {c} : Stage(d)' = Stage(d)

Still == \A d \in CPUs : Stage(d)' = Stage(d)

Quiet == UNCHANGED <<stats, arrived, job>> /\ Still

Ends(c, s, from) ==
  /\ Bump(c, s) /\ Free(c) /\ job[c] # NoJob
  /\ Moves(c, from, "none") /\ arrived' = arrived

Accounts(c) ==
  \/ arrived' = arrived + 1 /\ Bump(c, "passed") /\ job' = job /\ Still
  \/ /\ arrived' = arrived + 1 /\ stats' = stats /\ Still
     /\ job[c] = NoJob /\ \E j : j # NoJob /\ job' = [job EXCEPT ![c] = j]
  \/ Ends(c, "passed", "none") \/ Ends(c, "passed", "charged")
  \/ Bump(c, "hh_hits") /\ Moves(c, "none", "charged") /\ UNCHANGED <<arrived, job>>
  \/ Bump(c, "throttled") /\ Moves(c, "charged", "undecided") /\ UNCHANGED <<arrived, job>>
  \/ \E s \in Dispositions : Ends(c, s, "undecided")

LEMMA StepAccounts ==
  ASSUME PlaneInv, [Next]_vars
  PROVE  Quiet \/ \E c \in CPUs : Accounts(c)
<1>0. PlaneInv'
  BY NextPlaneInv
<1> USE DEF Stage, Undecided
<1>p. pc \in [CPUs -> Bucket!Control]
  BY Types
<1>1. CASE Tick \/ OpenWindow \/ FqSend \/ UNCHANGED vars
  BY <1>1 DEF Tick, OpenWindow, FqSend, vars, bucketVars, Bucket!Tick, Bucket!OpenWindow,
     Bucket!FqSend, Quiet, Still
<1>2. ASSUME NEW c \in CPUs, PassUnaccounted(c) PROVE Accounts(c)
  BY <1>2 DEF PassUnaccounted, bucketVars, Accounts, Still
<1>3. ASSUME NEW c \in CPUs, NEW f \in Flows, NEW n \in Lens, NEW t \in Readings, Arrive(c, f, n, t)
      PROVE  Accounts(c)
  <2>1. [flow |-> f, len |-> n, now |-> t] # NoJob
    BY PlaneAssumption DEF NoJob
  <2> QED
    BY <1>3, <2>1 DEF Arrive, bucketVars, Accounts, Still
<1>4. ASSUME NEW c \in CPUs, Count(c) PROVE Quiet
  BY <1>4 DEF Count, bucketVars, Quiet, Still
<1>5. ASSUME NEW c \in CPUs, Mouse(c) PROVE Accounts(c)
  <2>1. Classifying(c)
    BY <1>5 DEF Mouse, Sketch!Take, Classifying
  <2>2. job[c] # NoJob /\ ~Charging(c)
    BY <2>1 DEF PlaneInv, OneOwner
  <2> QED
    BY <1>5, <2>2 DEF Mouse, Pass, bucketVars, Accounts, Ends, Moves, Charging
<1>6. ASSUME NEW c \in CPUs, Hit(c) PROVE Accounts(c)
  BY <1>6, <1>p DEF Hit, Bucket!Heavy, Bucket!Goto, Accounts, Moves
<1>7. ASSUME NEW c \in CPUs, Lock(c) PROVE Quiet
  BY <1>7, <1>p DEF Lock, Bucket!LockConsume, Bucket!LockPace, Bucket!LockAndLoad, Bucket!Goto,
     Quiet, Still
<1>8. ASSUME NEW c \in CPUs, Consume(c) \/ Pace(c) \/ MarkOrDrop(c)
      PROVE  Quiet \/ Accounts(c)
  <2>1. job[c] # NoJob
    <3>1. Charging(c)
      BY <1>8 DEF Consume, Pace, MarkOrDrop, Bucket!UnlockConsume, Bucket!UnlockPace,
         Bucket!MarkOrDrop, Bucket!Goto, Charging
    <3> QED
      BY <3>1 DEF PlaneInv, OneOwner
  <2>2. CASE Consume(c)
    BY <2>1, <2>2, <1>p DEF Consume, Pass, Bucket!UnlockConsume, Bucket!Goto, Accounts, Ends, Moves
  <2>3. CASE Pace(c)
    BY <2>1, <2>3, <1>p DEF Pace, Bucket!UnlockPace, Bucket!Goto, Accounts, Ends, Moves,
       Dispositions, Quiet, Still
  <2>4. CASE MarkOrDrop(c)
    BY <2>1, <2>4, <1>p DEF MarkOrDrop, Bucket!MarkOrDrop, Bucket!Goto, Accounts, Ends, Moves,
       Dispositions
  <2> QED
    BY <1>8, <2>2, <2>3, <2>4
<1> QED
  BY <1>1, <1>2, <1>3, <1>4, <1>5, <1>6, <1>7, <1>8 DEF Next, Work

(* A CPU that is busy, or is no longer. *)
LEMMA BusyIs ==
  ASSUME PlaneInv, NEW c \in CPUs
  PROVE  /\ (job[c] # NoJob /\ job' = [job EXCEPT ![c] = NoJob]) =>
              Cardinality(Busy)' = Cardinality(Busy) - 1
         /\ (\E j : job[c] = NoJob /\ j # NoJob /\ job' = [job EXCEPT ![c] = j]) =>
              Cardinality(Busy)' = Cardinality(Busy) + 1
<1>0. job \in [CPUs -> Job]
  BY Types
<1>1. ASSUME job[c] # NoJob, job' = [job EXCEPT ![c] = NoJob]
      PROVE  Cardinality(Busy)' = Cardinality(Busy) - 1
  <2>1. Busy' = Busy \ {c} /\ c \in Busy
    BY <1>0, <1>1 DEF Busy
  <2> QED
    BY <2>1, SetsAreFinite, FS_RemoveElement
<1>2. ASSUME NEW j, job[c] = NoJob, j # NoJob, job' = [job EXCEPT ![c] = j]
      PROVE  Cardinality(Busy)' = Cardinality(Busy) + 1
  <2>1. Busy' = Busy \union {c} /\ c \notin Busy
    BY <1>0, <1>2 DEF Busy
  <2> QED
    BY <2>1, SetsAreFinite, FS_AddElement
<1> QED
  BY <1>1, <1>2

LEMMA OpenIs ==
  ASSUME PlaneInv, PlaneInv', NEW c \in CPUs
  PROVE  /\ Still => Cardinality(Open)' = Cardinality(Open)
         /\ \A from, to \in {"none", "charged"} : Moves(c, from, to) =>
              Cardinality(Open)' = Cardinality(Open)
         /\ Moves(c, "charged", "undecided") => Cardinality(Open)' = Cardinality(Open) + 1
         /\ Moves(c, "undecided", "none") => Cardinality(Open)' = Cardinality(Open) - 1
<1>1. \A d \in CPUs : d \in Open <=> Stage(d) = "undecided"
  BY StageIs DEF Open
<1>2. \A d \in CPUs : d \in Open' <=> Stage(d)' = "undecided"
  BY DEF Open, Stage
<1>3. Open \subseteq CPUs /\ Open' \subseteq CPUs
  BY DEF Open
<1>4. Still => Open' = Open
  BY <1>1, <1>2, <1>3 DEF Still
<1>5. \A from, to \in {"none", "charged"} : Moves(c, from, to) => Open' = Open
  BY <1>1, <1>2, <1>3 DEF Moves
<1>6. Moves(c, "charged", "undecided") => Open' = Open \union {c} /\ c \notin Open
  BY <1>1, <1>2, <1>3 DEF Moves
<1>7. Moves(c, "undecided", "none") => Open' = Open \ {c} /\ c \in Open
  BY <1>1, <1>2, <1>3 DEF Moves
<1> QED
  BY <1>4, <1>5, <1>6, <1>7, SetsAreFinite, FS_AddElement, FS_RemoveElement

(* The books of one CPU, whichever CPU made the step. *)
LEMMA BalanceStep ==
  ASSUME PlaneInv, NEW c \in CPUs, Accounts(c), NEW d \in CPUs, Balance(d)
  PROVE  Balance(d)'
<1>1. \A q \in Slots : stats[d][q] \in Nat
  <2>1. stats[d] \in [Slots -> Nat]
    BY Types
  <2> QED
    BY <2>1
<1>2. {"passed", "throttled", "hh_hits", "ecn_marked", "edt_delayed", "dropped"} = Slots
  BY DEF Slots
<1>3. \A s \in Slots : Bump(c, s) => \A q \in Slots :
        stats'[d][q] = IF d = c /\ q = s THEN stats[d][q] + 1 ELSE stats[d][q]
  BY Types DEF Bump
<1>4. CASE Still
  BY <1>1, <1>2, <1>3, <1>4 DEF Accounts, Ends, Moves, Balance, Still, Dispositions
<1>5. CASE d # c
  BY <1>1, <1>2, <1>3, <1>5 DEF Accounts, Ends, Moves, Balance, Still, Dispositions
<1>6. CASE d = c
  <2>1. ASSUME NEW s \in {"passed", "hh_hits", "throttled"} \union Dispositions, Bump(c, s),
               NEW from, NEW to, Moves(c, from, to),
               \/ s = "passed" /\ from \in {"none", "charged"} /\ to = "none"
               \/ s = "hh_hits" /\ from = "none" /\ to = "charged"
               \/ s = "throttled" /\ from = "charged" /\ to = "undecided"
               \/ s \in Dispositions /\ from = "undecided" /\ to = "none"
        PROVE  Balance(d)'
    <3>1. \A q \in Slots : stats'[d][q] = IF q = s THEN stats[d][q] + 1 ELSE stats[d][q]
      BY <1>2, <1>3, <1>6, <2>1 DEF Dispositions
    <3>2. Stage(d) = from /\ Stage(d)' = to
      BY <1>6, <2>1 DEF Moves
    <3> QED
      BY <1>1, <1>2, <2>1, <3>1, <3>2 DEF Balance, Dispositions
  <2> QED
    BY <1>4, <2>1 DEF Accounts, Ends
<1> QED
  BY <1>5, <1>6

LEMMA TotalsAreNat == PlaneInv => \A s \in Slots : Total(s) \in Nat
BY TotalIs

LEMMA TotalsAreNatNext == PlaneInv' => (\A s \in Slots : Total(s) \in Nat)'
BY TotalsAreNat, PTL

LEMMA StatsStep ==
  ASSUME PlaneInv, PlaneInv', StatsInv, Quiet \/ \E c \in CPUs : Accounts(c)
  PROVE  StatsInv'
<1>0. /\ Slots = {"passed", "throttled", "hh_hits", "ecn_marked", "edt_delayed", "dropped"}
      /\ Dispositions = {"ecn_marked", "edt_delayed", "dropped"}
  BY DEF Slots, Dispositions
<1>1. /\ \A s \in Slots : Total(s) \in Nat /\ Total(s)' \in Nat
      /\ Cardinality(Busy) \in Nat /\ Cardinality(Open) \in Nat /\ arrived \in Nat
  <2>1. MaxPackets \in Nat /\ arrived \in 0..MaxPackets
    BY PlaneAssumption DEF PlaneInv, OwnTypeOK
  <2>2. \A s \in Slots : Total(s) \in Nat
    BY TotalsAreNat
  <2>3. \A s \in Slots : Total(s)' \in Nat
    BY TotalsAreNatNext
  <2> QED
    BY <2>1, <2>2, <2>3, SetsAreFinite
<1> DEFINE Books == /\ arrived = Total("passed") + Total("ecn_marked") + Total("edt_delayed")
                                   + Total("dropped") + Cardinality(Busy)
                    /\ Total("throttled") = Total("ecn_marked") + Total("edt_delayed")
                                              + Total("dropped") + Cardinality(Open)
<1>2. CASE Quiet
  <2>1. \A d \in CPUs : Balance(d)'
    BY <1>2 DEF Quiet, Still, StatsInv, Balance
  <2>2. \A s \in Slots : Total(s)' = Total(s)
    BY <1>2 DEF Quiet, Total, Increments
  <2>3. Busy' = Busy
    BY <1>2 DEF Quiet, Busy
  <2>4. Open' = Open
    BY <1>2, StageIs DEF Quiet, Still, Open, Stage
  <2> QED
    BY <1>0, <1>2, <2>1, <2>2, <2>3, <2>4 DEF StatsInv, Quiet
<1>3. ASSUME NEW c \in CPUs, Accounts(c) PROVE StatsInv'
  <2>1. \A d \in CPUs : Balance(d)'
    BY <1>3, BalanceStep DEF StatsInv
  <2>2. ASSUME NEW s \in Slots, Bump(c, s)
        PROVE  Total(s)' = Total(s) + 1 /\ \A q \in Slots \ {s} : Total(q)' = Total(q)
    BY <2>2, BumpTotals
  <2>3. Books
    BY DEF StatsInv
  <2>4. CASE arrived' = arrived + 1 /\ Bump(c, "passed") /\ job' = job /\ Still
    <3>1. Cardinality(Busy)' = Cardinality(Busy) /\ Cardinality(Open)' = Cardinality(Open)
      BY <2>4, OpenIs DEF Busy
    <3> QED
      BY <1>0, <1>1, <2>1, <2>2, <2>3, <2>4, <3>1 DEF StatsInv
  <2>5. CASE /\ arrived' = arrived + 1 /\ stats' = stats /\ Still
             /\ job[c] = NoJob /\ \E j : j # NoJob /\ job' = [job EXCEPT ![c] = j]
    <3>1. Cardinality(Busy)' = Cardinality(Busy) + 1 /\ Cardinality(Open)' = Cardinality(Open)
      BY <2>5, OpenIs, BusyIs
    <3>2. \A s \in Slots : Total(s)' = Total(s)
      BY <2>5 DEF Total, Increments
    <3> QED
      BY <1>0, <1>1, <2>1, <2>3, <2>5, <3>1, <3>2 DEF StatsInv
  <2>6. CASE Ends(c, "passed", "none") \/ Ends(c, "passed", "charged")
    <3>1. Cardinality(Busy)' = Cardinality(Busy) - 1 /\ Cardinality(Open)' = Cardinality(Open)
      BY <2>6, OpenIs, BusyIs DEF Ends, Free
    <3>2. arrived' = arrived /\ Bump(c, "passed")
      BY <2>6 DEF Ends
    <3> QED
      BY <1>0, <1>1, <2>1, <2>2, <2>3, <3>1, <3>2 DEF StatsInv
  <2>7. CASE Bump(c, "hh_hits") /\ Moves(c, "none", "charged") /\ UNCHANGED <<arrived, job>>
    <3>1. Cardinality(Busy)' = Cardinality(Busy) /\ Cardinality(Open)' = Cardinality(Open)
      BY <2>7, OpenIs DEF Busy
    <3> QED
      BY <1>0, <1>1, <2>1, <2>2, <2>3, <2>7, <3>1 DEF StatsInv
  <2>8. CASE Bump(c, "throttled") /\ Moves(c, "charged", "undecided") /\ UNCHANGED <<arrived, job>>
    <3>1. Cardinality(Busy)' = Cardinality(Busy) /\ Cardinality(Open)' = Cardinality(Open) + 1
      BY <2>8, OpenIs DEF Busy
    <3> QED
      BY <1>0, <1>1, <2>1, <2>2, <2>3, <2>8, <3>1 DEF StatsInv
  <2>9. ASSUME NEW s \in Dispositions, Ends(c, s, "undecided") PROVE StatsInv'
    <3>1. Cardinality(Busy)' = Cardinality(Busy) - 1 /\ Cardinality(Open)' = Cardinality(Open) - 1
      BY <2>9, OpenIs, BusyIs DEF Ends, Free
    <3>2. arrived' = arrived /\ Bump(c, s)
      BY <2>9 DEF Ends
    <3> QED
      BY <1>0, <1>1, <2>1, <2>2, <2>3, <2>9, <3>1, <3>2 DEF StatsInv
  <2> QED
    BY <1>3, <2>4, <2>5, <2>6, <2>7, <2>8, <2>9 DEF Accounts
<1> QED
  BY <1>2, <1>3

LEMMA InitStats == Init => StatsInv
<1> SUFFICES ASSUME Init PROVE StatsInv
  OBVIOUS
<1>1. PlaneInv
  BY InitPlaneInv
<1>2. /\ Slots = {"passed", "throttled", "hh_hits", "ecn_marked", "edt_delayed", "dropped"}
      /\ \A c \in CPUs, s \in Slots : stats[c][s] = 0
  BY DEF Init, Slots
<1>3. ASSUME NEW s \in Slots PROVE Total(s) = 0
  <2>1. \A c \in CPUs : 1..stats[c][s] = {}
    BY <1>2
  <2>2. Increments(s) = {}
    BY <2>1 DEF Increments
  <2> QED
    BY <2>2, FS_EmptySet DEF Total
<1>4. Busy = {} /\ Open = {}
  BY DEF Init, Bucket!Init, Busy, Open, Undecided
<1>5. \A c \in CPUs : Stage(c) = "none"
  BY DEF Init, Bucket!Init, Stage, Undecided
<1> QED
  BY <1>2, <1>3, <1>4, <1>5, FS_EmptySet DEF Init, StatsInv, Balance

LEMMA NextStats == PlaneInv /\ StatsInv /\ [Next]_vars => StatsInv'
BY StepAccounts, NextPlaneInv, StatsStep

----------------------------------------------------------------------------
(* The queue of fq, below the whole program.                               *)

LEMMA SameCounts ==
  \A W : B!Cardinality(W) = Bucket!Cardinality(W) /\ B!Max(W) = Bucket!Max(W)
BY DEF B!Cardinality, Bucket!Cardinality, B!Max, Bucket!Max

LEMMA SamePaced ==
  /\ B!DeparturesSpaced => Bucket!DeparturesSpaced
  /\ B!QueueDepthBounded => Bucket!QueueDepthBounded
BY SameCounts DEF B!DeparturesSpaced, Bucket!DeparturesSpaced, B!QueueDepthBounded,
   Bucket!QueueDepthBounded, B!Waiting, Bucket!Waiting, B!LineTime, Bucket!LineTime,
   B!AddNs, Bucket!AddNs

LEMMA PacedStart ==
  ASSUME NEW slot, B!ClockFits(slot), Init
  PROVE  B!PacedInv(slot) /\ B!DepthInv
<1>1. B!Init
  BY SameBucketInit DEF Init
<1>2. B!PacedInv(slot)
  BY <1>1, B!InitPaced, PlaneAssumption, MaxIdxNat
<1>3. B!DepthInv
  BY <1>1 DEF B!Init, B!DepthInv
<1> QED
  BY <1>2, <1>3

LEMMA PacedSteps ==
  ASSUME NEW slot, B!ClockFits(slot), PlaneInv, B!PacedInv(slot), B!DepthInv, [Next]_vars
  PROVE  B!PacedInv(slot)' /\ B!DepthInv'
<1>1. [B!Next]_(B!vars)
  <2>1. [Bucket!Next]_(Bucket!vars)
    BY StepsOfTheBucket
  <2> QED
    BY <2>1, SameBucketNext DEF Bucket!vars, B!vars, Bucket!bucket, B!bucket
<1>2. B!IInv
  BY SameBucketInv DEF PlaneInv
<1> QED
  BY <1>1, <1>2, B!NextPaced, B!NextDepth, PlaneAssumption, MaxIdxNat

----------------------------------------------------------------------------
(* One CPU with a clock that is not behind: no heavy flow gets by.         *)

LEMMA SameTimelyPow2 == Sketch!Pow2 = Timely!Pow2
  BY DEF Sketch!Pow2, Timely!Pow2

LEMMA SameTimelySteps ==
  /\ Sketch!Boundary => Timely!Boundary
  /\ \A c : Sketch!Step(c) => Timely!Step(c)
  /\ \A c : Sketch!Take(c) => Timely!Take(c)
  /\ \A c, f, n, i : Sketch!Begin(c, f, n, i) => Timely!Begin(c, f, n, i)
BY SameTimelyPow2 DEF Sketch!Boundary, Timely!Boundary, Sketch!Begin, Timely!Begin,
  Sketch!Step, Timely!Step, Sketch!Take, Timely!Take, Sketch!LoadIdx, Timely!LoadIdx,
  Sketch!LoadBytes, Timely!LoadBytes, Sketch!StoreBytes, Timely!StoreBytes,
  Sketch!StoreIdx, Timely!StoreIdx, Sketch!Col, Timely!Col,
  Sketch!Faded, Timely!Faded, Sketch!NextRow, Timely!NextRow, Sketch!Lesser, Timely!Lesser,
  Sketch!Idle, Timely!Idle, Sketch!AllOnes, Timely!AllOnes, Sketch!CellWord, Timely!CellWord,
  Sketch!cells, Timely!cells

LEMMA SameTimelyInit == Sketch!Init => Timely!Init
  BY SameTimelyPow2 DEF Sketch!Init, Timely!Init, Sketch!Idle, Timely!Idle, Sketch!AllOnes,
    Timely!AllOnes, Sketch!CellWord, Timely!CellWord

LEMMA SameTimelyInv == Sketch!SketchInv <=> Timely!SketchInv
  BY SameTimelyPow2 DEF Sketch!SketchInv, Timely!SketchInv, Sketch!TypeOK, Timely!TypeOK,
    Sketch!WalkOK, Timely!WalkOK, Sketch!NeverOvercounts, Timely!NeverOvercounts,
    Sketch!EvidenceSoFar, Timely!EvidenceSoFar, Sketch!Visited, Timely!Visited,
    Sketch!Col, Timely!Col, Sketch!Cell, Timely!Cell, Sketch!Walk, Timely!Walk,
    Sketch!AllOnes, Timely!AllOnes, Sketch!CellWord, Timely!CellWord

(* Every packet then names the current interval. *)
LEMMA TimelyReading ==
  ASSUME Skew = 0, ClocksAgree, clock \in 0..MaxClock, NEW t \in Readings
  PROVE  t \div Interval \in Timely!Readings
<1>1. t = clock
  BY MaxIdxNat DEF Readings
<1>2. /\ t \div Interval \in Nat /\ t \div Interval <= MaxIdx /\ t \div Interval = now_idx
  <2>1. clock \in Nat /\ clock <= MaxClock
    BY MaxIdxNat
  <2> QED
    BY <1>1, <2>1, MaxIdxNat, IntervalMonotone DEF MaxIdx, ClocksAgree
<1> QED
  BY <1>2, MaxIdxNat, IntervalMonotone DEF Timely!Readings

LEMMA StepsOfTheTimelySketch ==
  ASSUME Skew = 0, PlaneInv, [Next]_vars
  PROVE  [Timely!Next]_(Timely!vars)
<1> USE DEF sketchVars, Timely!vars, Timely!cells
<1>1. CASE Tick
  BY <1>1, SameTimelySteps DEF Tick, Timely!Next
<1>2. ASSUME NEW c \in CPUs, Count(c) \/ Mouse(c) \/ Hit(c) PROVE Timely!Next
  BY <1>2, SameTimelySteps DEF Count, Mouse, Hit, Timely!Next
<1>3. ASSUME NEW c \in CPUs, NEW f \in Flows, NEW n \in Lens, NEW t \in Readings, Arrive(c, f, n, t)
      PROVE  Timely!Next
  <2>1. t \div Interval \in Timely!Readings
    BY TimelyReading DEF PlaneInv, Bucket!IInv, Bucket!TypeOK
  <2>2. Timely!Begin(c, f, n, t \div Interval)
    BY <1>3, SameTimelySteps DEF Arrive
  <2> QED
    BY <2>1, <2>2 DEF Timely!Next
<1>4. ASSUME NEW c \in CPUs,
             PassUnaccounted(c) \/ Lock(c) \/ Consume(c) \/ Pace(c) \/ MarkOrDrop(c)
      PROVE  UNCHANGED sketchVars
  BY <1>4 DEF PassUnaccounted, Lock, Consume, Pace, MarkOrDrop
<1>5. CASE OpenWindow \/ FqSend \/ UNCHANGED vars
  BY <1>5 DEF OpenWindow, FqSend, vars
<1> QED
  BY <1>1, <1>2, <1>3, <1>4, <1>5 DEF Next, Work

(* The program alone on one CPU, whose counters fit their cells. *)
Alone(c, m) == CPUs = {c} /\ Skew = 0 /\ Timely!CountsFit(m)

LEMMA TimelyStart ==
  ASSUME NEW c \in CPUs, NEW m, Alone(c, m), Init
  PROVE  Timely!AgingInv(c, m)
<1>1. Timely!Init
  BY SameTimelyInit DEF Init
<1>2. Timely!OneClock(c) /\ Timely!CountsFit(m)
  BY DEF Alone, Timely!OneClock
<1> QED
  BY <1>1, <1>2, Timely!InitAgingInv, PlaneAssumption, MaxIdxNat

LEMMA TimelySteps ==
  ASSUME NEW c \in CPUs, NEW m, Alone(c, m), PlaneInv, Timely!AgingInv(c, m), [Next]_vars
  PROVE  Timely!AgingInv(c, m)'
<1>1. [Timely!Next]_(Timely!vars)
  BY StepsOfTheTimelySketch DEF Alone
<1>2. Timely!OneClock(c) /\ Timely!CountsFit(m)
  BY DEF Alone, Timely!OneClock
<1>3. Timely!SketchInv
  BY SameTimelyInv DEF PlaneInv
<1> QED
  BY <1>1, <1>2, <1>3, Timely!NextAgingInv, PlaneAssumption, MaxIdxNat

(* Of the steps that end a job, only Mouse is of a CPU whose packet is     *)
(* still in the sketch.                                                    *)
LEMMA PassingIsMouse ==
  ASSUME PlaneInv, NEW c \in CPUs, [Next]_vars, CPUs = {c}, Classifying(c), job'[c] = NoJob
  PROVE  walk[c].at = "done" /\ walk[c].mn <= Threshold
<1>1. Owned(c)
  BY OwnerIsOwned DEF PlaneInv
<1>2. job[c] # NoJob /\ pc[c] = "idle"
  BY <1>1 DEF Owned, Charging
<1>3. CASE Mouse(c)
  BY <1>3 DEF Mouse, Sketch!Take
<1>4. CASE Hit(c) \/ Count(c) \/ Lock(c)
  BY <1>2, <1>4 DEF Hit, Count, Lock
<1>5. CASE Consume(c) \/ Pace(c) \/ MarkOrDrop(c)
  <2>1. pc[c] # "idle"
    BY <1>5 DEF Consume, Pace, MarkOrDrop, Bucket!UnlockConsume, Bucket!UnlockPace,
       Bucket!MarkOrDrop, Bucket!Goto
  <2> QED
    BY <1>2, <2>1
<1>6. CASE PassUnaccounted(c)
  BY <1>2, <1>6 DEF PassUnaccounted
<1>7. ASSUME NEW f \in Flows, NEW n \in Lens, NEW t \in Readings,
             Arrive(c, f, n, t)
      PROVE  FALSE
  BY <1>2, <1>7 DEF Arrive
<1>8. CASE Tick \/ OpenWindow \/ FqSend \/ UNCHANGED vars
  BY <1>2, <1>8 DEF Tick, OpenWindow, FqSend, vars
<1> QED
  BY <1>3, <1>4, <1>5, <1>6, <1>7, <1>8 DEF Next, Work

LEMMA ElephantsStay ==
  ASSUME NEW c \in CPUs, NEW m, Alone(c, m), PlaneInv, Timely!AgingInv(c, m), [Next]_vars,
         Classifying(c), job'[c] = NoJob
  PROVE  own[job[c].flow] <= Threshold
<1>1. walk[c].at = "done" /\ walk[c].mn <= Threshold
  BY PassingIsMouse DEF Alone
<1>2. walk[c].mn >= own[walk[c].flow]
  <2>1. Timely!OneClock(c) /\ Timely!CountsFit(m)
    BY DEF Alone, Timely!OneClock
  <2>2. Timely!SketchInv
    BY SameTimelyInv DEF PlaneInv
  <2>3. Timely!EstimateCoversFlow
    BY <2>1, <2>2, Timely!AgingCovers, PlaneAssumption, MaxIdxNat
  <2> QED
    BY <1>1, <2>3 DEF Timely!EstimateCoversFlow
<1>3. walk[c].flow = job[c].flow /\ walk[c].flow \in Flows
  BY OwnerIsOwned DEF PlaneInv, Owned
<1>4. walk[c].mn \in Int /\ own[walk[c].flow] \in Int /\ Threshold \in Int
  <2>1. walk \in [CPUs -> Timely!Walk] /\ own \in [Flows -> Nat]
    BY SameTimelyInv DEF PlaneInv, Timely!SketchInv, Timely!TypeOK
  <2> QED
    BY <1>3, <2>1, PlaneAssumption DEF Timely!Walk
<1> QED
  BY <1>1, <1>2, <1>3, <1>4

----------------------------------------------------------------------------
(* The theorems.                                                           *)

(* The inductive invariant holds of every behaviour of the program. *)
THEOREM Invariance == Spec => []PlaneInv
  BY InitPlaneInv, NextPlaneInv, PTL DEF Spec

(* The maps and registers of the program stay within their types. *)
THEOREM TypeCorrect == Spec => []TypeOK
<1>1. PlaneInv => TypeOK
  BY DEF PlaneInv, TypeOK, Bucket!IInv, Sketch!SketchInv
<1> QED
  BY <1>1, Invariance, PTL

(* A packet is in the sketch or at the bucket, never in both, and both     *)
(* handle the length and the clock reading it came with.                   *)
THEOREM PacketHasOneOwner == Spec => []OneOwner
<1>1. PlaneInv => OneOwner
  BY DEF PlaneInv
<1> QED
  BY <1>1, Invariance, PTL

(* A packet is charged, and so can be delayed, marked or dropped, only if  *)
(* every sketch cell of its flow was sent more than hh_threshold: for any  *)
(* number of CPUs that race on the sketch, any hash and any clock skew.    *)
THEOREM MicePass == Spec => []MiceAreNeverCharged
<1>1. PlaneInv => MiceAreNeverCharged
  BY DEF PlaneInv
<1> QED
  BY <1>1, Invariance, PTL

(* The one clock reading of a packet means the same to both halves: the    *)
(* sketch's interval is the one the bucket's clock is in.                  *)
THEOREM ClocksStayTogether == Spec => []ClocksAgree
<1>1. PlaneInv => ClocksAgree
  BY DEF PlaneInv
<1> QED
  BY <1>1, Invariance, PTL

(* The program drives the token bucket as TokenBucket says it is driven. *)
THEOREM RefinesBucket == Spec => DrivesBucket
<1>1. Init => Bucket!Init
  BY DEF Init
<1>2. PlaneInv /\ [Next]_vars => [Bucket!Next]_(Bucket!vars)
  BY StepsOfTheBucket
<1> QED
  BY <1>1, <1>2, Invariance, PTL DEF Spec, DrivesBucket, BucketSafety

(* It drives the sketch as CountMin says. *)
THEOREM RefinesSketch == Spec => DrivesSketch
<1>1. Init => Sketch!Init
  BY DEF Init
<1>2. PlaneInv /\ [Next]_vars => [Sketch!Next]_(Sketch!vars)
  BY StepsOfTheSketch
<1> QED
  BY <1>1, <1>2, Invariance, PTL DEF Spec, DrivesSketch, Sketch!Spec

(* So whatever the sketch lets through, the bytes charged over any window  *)
(* stay within burst_bytes and what rate_bps accrues over it.              *)
THEOREM RateCapHolds == Spec => []RateCap
<1>1. B!IInv => B!RateCap
  BY B!BooksGiveCap, PlaneAssumption, MaxIdxNat
<1>2. PlaneInv => RateCap
  BY <1>1, SameBucketInv, SameCap DEF PlaneInv
<1> QED
  BY <1>2, Invariance, PTL

(* The slots of natra_stats_map add up: on every CPU what was throttled    *)
(* has one disposition, and over the CPUs every packet that arrived was    *)
(* passed, disposed of or is still in flight, whatever the CPUs are at.    *)
THEOREM StatsAddUp == Spec => []StatsBalance
<1>1. Spec => []StatsInv
  BY InitStats, NextStats, Invariance, PTL DEF Spec
<1>2. PlaneInv /\ StatsInv => StatsBalance
  <2> SUFFICES ASSUME PlaneInv, StatsInv PROVE StatsBalance
    OBVIOUS
  <2>1. ASSUME NEW c \in CPUs
        PROVE  /\ stats[c]["throttled"] = stats[c]["ecn_marked"] + stats[c]["edt_delayed"]
                    + stats[c]["dropped"] + (IF Undecided(c) THEN 1 ELSE 0)
               /\ stats[c]["throttled"] <= stats[c]["hh_hits"]
    <3>1. stats[c] \in [Slots -> Nat] /\ {"throttled", "hh_hits"} \subseteq Slots
      BY Types DEF Slots
    <3> QED
      BY <3>1, StageIs DEF StatsInv, Balance
  <2>2. InFlight = Cardinality(Busy)
    BY DEF InFlight, Busy
  <2> QED
    BY <2>1, <2>2 DEF StatsInv, StatsBalance
<1> QED
  BY <1>1, <1>2, Invariance, PTL

(* Behind the whole program too, departures keep their distance and fq     *)
(* never holds more than the delay bound's worth and one packet.           *)
THEOREM PacingHolds ==
  ASSUME NEW CONSTANT slot, B!ClockFits(slot)
  PROVE  Spec => [](Bucket!DeparturesSpaced /\ Bucket!QueueDepthBounded)
<1>1. Init => B!PacedInv(slot) /\ B!DepthInv
  BY PacedStart
<1>2. PlaneInv /\ B!PacedInv(slot) /\ B!DepthInv /\ [Next]_vars
        => B!PacedInv(slot)' /\ B!DepthInv'
  BY PacedSteps
<1>3. PlaneInv /\ B!PacedInv(slot) /\ B!DepthInv
        => Bucket!DeparturesSpaced /\ Bucket!QueueDepthBounded
  <2> SUFFICES ASSUME PlaneInv, B!PacedInv(slot), B!DepthInv
               PROVE  Bucket!DeparturesSpaced /\ Bucket!QueueDepthBounded
    OBVIOUS
  <2>1. B!IInv
    BY SameBucketInv DEF PlaneInv
  <2>2. B!QueueDepthBounded
    BY <2>1, B!DepthIsBounded, PlaneAssumption, MaxIdxNat
  <2>3. B!DeparturesSpaced
    BY DEF B!PacedInv
  <2> QED
    BY <2>2, <2>3, SamePaced
<1> QED
  BY <1>1, <1>2, <1>3, Invariance, PTL DEF Spec

(* The other half of what natra promises of flows: where one CPU counts,   *)
(* with one clock, nothing of a flow above the threshold gets by without   *)
(* being charged.                                                          *)
THEOREM ElephantsAreCharged ==
  ASSUME NEW CONSTANT d \in CPUs, NEW CONSTANT m, Alone(d, m)
  PROVE  Spec => NoElephantPasses
<1>1. Init => Timely!AgingInv(d, m)
  BY TimelyStart
<1>2. PlaneInv /\ Timely!AgingInv(d, m) /\ [Next]_vars => Timely!AgingInv(d, m)'
  BY TimelySteps
<1>3. PlaneInv /\ Timely!AgingInv(d, m) /\ [Next]_vars => OnlyMicePass
  BY ElephantsStay DEF Alone, OnlyMicePass
<1> QED
  BY <1>1, <1>2, <1>3, Invariance, PTL DEF Spec, NoElephantPasses

=============================================================================
