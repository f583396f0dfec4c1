---------------------------- MODULE PacingProofs ----------------------------
(***************************************************************************)
(* Departures keep their distance, whatever the number of CPUs, the skew   *)
(* of their clocks, the order in which they race and the width of a word   *)
(* that the pacing clock does not overflow.                                *)
(***************************************************************************)
EXTENDS TokenBucketProofs, FiniteSetTheorems, NaturalsInduction, WellFoundedInduction

(* The pacing clock stays within a word, however many of the packets that  *)
(* reach the bucket advance it; slot is the time of the largest.           *)
ClockFits(slot) ==
  /\ slot \in Nat
  /\ \A n \in Lens : AddNs(n) <= slot
  /\ MaxClock + slot * MaxPackets < Word

(* Packets that may still advance the pacing clock. *)
InFlight == {c \in CPUs : pc[c] \in {"heavy", "refill", "over", "pace"}}
Past == packets - Cardinality(InFlight)

(* Each packet that is past the pacing clock has advanced it by a slot at  *)
(* the most, and whatever fq holds leaves no later than the clock says and *)
(* was stamped under a number of its own.                                  *)
PacedInv(slot) ==
  /\ \A c \in InFlight : pkt[c].len \in Lens
  /\ IsFiniteSet(InFlight) /\ Past \in Nat
  /\ next_release_ns <= MaxClock + slot * Past
  /\ \A p \in fq : p.at <= next_release_ns /\ p.nth <= stamped
  /\ \A p, q \in fq : p.nth = q.nth => p = q
  /\ DeparturesSpaced

(* A packet in fq leaves behind no more than the delay bound.              *)
DepthInv ==
  \A p \in fq : p.len \in Lens /\ p.at <= clock + MaxEdtDelay

----------------------------------------------------------------------------
LEMMA InitPaced ==
  ASSUME NEW slot, ClockFits(slot), Init PROVE PacedInv(slot)
<1>1. InFlight = {}
  BY DEF Init, InFlight
<1>2. IsFiniteSet(InFlight) /\ Cardinality(InFlight) = 0
  BY <1>1, FS_EmptySet
<1>3. Past = 0
  BY <1>2 DEF Init, Past
<1>4. MaxClock \in Nat /\ slot \in Nat
  BY BucketAssumption DEF ClockFits
<1> QED
  BY <1>1, <1>2, <1>3, <1>4 DEF Init, PacedInv, DeparturesSpaced

(* A step that leaves the pacing clock and fq's packets alone keeps them,  *)
(* if no packet that was past the clock is in flight again.                *)
LEMMA ClockUntouched ==
  ASSUME NEW slot, ClockFits(slot), IInv, PacedInv(slot),
         next_release_ns' = next_release_ns, fq' \subseteq fq, stamped' = stamped,
         IsFiniteSet(InFlight'), Past' \in Nat, Past' >= Past,
         \A c \in InFlight' : pkt'[c].len \in Lens
  PROVE  PacedInv(slot)'
<1>1. slot \in Nat /\ MaxClock \in Nat /\ Past \in Nat /\ next_release_ns \in Nat
  BY BucketAssumption DEF ClockFits, PacedInv, IInv, TypeOK
<1>2. slot * Past <= slot * Past' /\ slot * Past \in Nat /\ slot * Past' \in Nat
  <2>1. \A a, b \in Nat : a <= b => slot * a <= slot * b
    BY <1>1
  <2>2. \A a \in Nat : slot * a \in Nat
    BY <1>1
  <2> QED
    BY <1>1, <2>1, <2>2
<1>3. next_release_ns' <= MaxClock + slot * Past'
  <2>1. next_release_ns <= MaxClock + slot * Past
    BY DEF PacedInv
  <2> DEFINE x == slot * Past
             y == slot * Past'
  <2>2. x \in Nat /\ y \in Nat /\ x <= y
    BY <1>2
  <2>3. next_release_ns <= MaxClock + x
    BY <2>1
  <2>4. next_release_ns' = next_release_ns
    OBVIOUS
  <2> HIDE DEF x, y
  <2>5. next_release_ns' <= MaxClock + y
    BY <1>1, <2>2, <2>3, <2>4
  <2> QED
    BY <2>5 DEF y
<1>4. /\ \A p \in fq' : p.at <= next_release_ns' /\ p.nth <= stamped'
      /\ \A p, q \in fq' : p.nth = q.nth => p = q
  BY DEF PacedInv
<1>5. DeparturesSpaced'
  BY DEF PacedInv, DeparturesSpaced, AddNs
<1> QED
  BY <1>3, <1>4, <1>5 DEF PacedInv

(* One CPU moves: what becomes of the packets in flight. *)
LEMMA OneMoves ==
  ASSUME NEW slot, ClockFits(slot), IInv, PacedInv(slot), NEW c \in CPUs, NEW to \in Control, Goto(c, pc[c], to)
  PROVE  /\ to \in {"heavy", "refill", "over", "pace"} => InFlight' = InFlight \union {c}
         /\ to \in {"idle", "spill"} => InFlight' = InFlight \ {c}
         /\ IsFiniteSet(InFlight') /\ Cardinality(InFlight) \in Nat
         /\ Cardinality(InFlight') \in Nat
         /\ Cardinality(InFlight') =
              IF to \in {"heavy", "refill", "over", "pace"}
                THEN IF c \in InFlight THEN Cardinality(InFlight) ELSE Cardinality(InFlight) + 1
                ELSE IF c \in InFlight THEN Cardinality(InFlight) - 1 ELSE Cardinality(InFlight)
<1>1. pc' = [pc EXCEPT ![c] = to] /\ pc \in [CPUs -> Control]
  BY DEF Goto, IInv, TypeOK
<1>2. to \in {"heavy", "refill", "over", "pace"} => InFlight' = InFlight \union {c}
  BY <1>1 DEF InFlight
<1>3. to \in {"idle", "spill"} => InFlight' = InFlight \ {c}
  BY <1>1 DEF InFlight
<1>4. IsFiniteSet(InFlight)
  BY DEF PacedInv
<1>5. to \in {"heavy", "refill", "over", "pace"} \/ to \in {"idle", "spill"}
  BY DEF Control
<1>6. /\ IsFiniteSet(InFlight \union {c}) /\ IsFiniteSet(InFlight \ {c})
      /\ Cardinality(InFlight \union {c}) =
           IF c \in InFlight THEN Cardinality(InFlight) ELSE Cardinality(InFlight) + 1
      /\ Cardinality(InFlight \ {c}) =
           IF c \in InFlight THEN Cardinality(InFlight) - 1 ELSE Cardinality(InFlight)
  BY <1>4, FS_AddElement, FS_RemoveElement
<1>7. Cardinality(InFlight) \in Nat
  BY <1>4, FS_CardinalityType
<1>8. IsFiniteSet(InFlight')
  BY <1>2, <1>3, <1>5, <1>6
<1>9. Cardinality(InFlight') \in Nat
  BY <1>8, FS_CardinalityType
<1> QED
  BY <1>2, <1>3, <1>5, <1>6, <1>7, <1>8, <1>9

(* The steps that do not store the pacing clock. *)
LEMMA OthersKeep ==
  ASSUME NEW slot, ClockFits(slot), IInv, PacedInv(slot), NEW c \in CPUs,
         \/ \E n \in Lens, t \in Readings : Heavy(c, n, t)
         \/ LockConsume(c) \/ UnlockConsume(c) \/ LockPace(c) \/ MarkOrDrop(c)
  PROVE  PacedInv(slot)'
<1>1. /\ packets \in Nat /\ pc \in [CPUs -> Control] /\ Past \in Nat
      /\ pkt \in [CPUs -> [len : Nat, now : Nat]]
      /\ \A d \in InFlight : pkt[d].len \in Lens
  BY DEF IInv, TypeOK, PacedInv
<1> DEFINE Ahead == {"heavy", "refill", "over", "pace"}
<1>2. ASSUME NEW n \in Lens, NEW t \in Readings, Heavy(c, n, t)
      PROVE  PacedInv(slot)'
  <2>1. pc[c] = "idle" /\ c \notin InFlight /\ "heavy" \in Control /\ Goto(c, pc[c], "heavy")
    BY <1>2 DEF Heavy, Goto, InFlight, Control
  <2>2. /\ IsFiniteSet(InFlight') /\ Cardinality(InFlight) \in Nat
        /\ Cardinality(InFlight') = Cardinality(InFlight) + 1
        /\ InFlight' = InFlight \union {c}
    BY <2>1, OneMoves
  <2>3. packets' = packets + 1
    BY <1>2 DEF Heavy
  <2>4. Past' = Past
    BY <1>1, <2>2, <2>3 DEF Past
  <2>5. \A d \in InFlight' : pkt'[d].len \in Lens
    <3>1. pkt' = [pkt EXCEPT ![c] = [len |-> n, now |-> t]]
      BY <1>2 DEF Heavy
    <3>2. \A d \in InFlight' : d = c \/ d \in InFlight
      BY <2>2
    <3>3. \A d \in CPUs : pkt'[d] = IF d = c THEN [len |-> n, now |-> t] ELSE pkt[d]
      BY <1>1, <3>1
    <3>4. InFlight' \subseteq CPUs
      BY DEF InFlight
    <3> QED
      BY <1>1, <3>2, <3>3, <3>4
  <2>6. next_release_ns' = next_release_ns /\ fq' \subseteq fq /\ stamped' = stamped
    BY <1>2 DEF Heavy, bucket
  <2> QED
    BY <1>1, <2>2, <2>4, <2>5, <2>6, ClockUntouched
<1>3. ASSUME NEW from \in Control, NEW to \in Control, Goto(c, from, to),
             to \in {"idle", "spill"} \/ from \in {"heavy", "refill", "over", "pace"},
             packets' = packets, pkt' = pkt,
             next_release_ns' = next_release_ns, fq' \subseteq fq, stamped' = stamped
      PROVE  PacedInv(slot)'
  <2>1. pc[c] = from /\ Goto(c, pc[c], to)
    BY <1>3 DEF Goto
  <2>2. from \in {"heavy", "refill", "over", "pace"} <=> c \in InFlight
    BY <2>1 DEF InFlight
  <2>3. /\ IsFiniteSet(InFlight') /\ Cardinality(InFlight) \in Nat
        /\ Cardinality(InFlight') \in Nat
        /\ Cardinality(InFlight') <= Cardinality(InFlight)
        /\ InFlight' \subseteq InFlight
    BY <1>3, <2>1, <2>2, OneMoves DEF Control
  <2>4. Past' \in Nat /\ Past' >= Past
    BY <1>1, <1>3, <2>3 DEF Past
  <2>5. \A d \in InFlight' : pkt'[d].len \in Lens
    BY <1>1, <1>3, <2>3
  <2> QED
    BY <1>3, <2>3, <2>4, <2>5, ClockUntouched
<1>4. CASE LockConsume(c)
  <2>1. /\ Goto(c, "heavy", "refill") /\ packets' = packets /\ pkt' = pkt
        /\ next_release_ns' = next_release_ns /\ fq' \subseteq fq /\ stamped' = stamped
    BY <1>4 DEF LockConsume, LockAndLoad, bucket
  <2> QED
    BY <2>1, <1>3 DEF Control
<1>5. CASE LockPace(c)
  <2>1. /\ Goto(c, "over", "pace") /\ packets' = packets /\ pkt' = pkt
        /\ next_release_ns' = next_release_ns /\ fq' \subseteq fq /\ stamped' = stamped
    BY <1>5 DEF LockPace, LockAndLoad, bucket
  <2> QED
    BY <2>1, <1>3 DEF Control
<1>6. CASE UnlockConsume(c)
  <2>1. /\ Goto(c, "refill", "idle") \/ Goto(c, "refill", "over")
        /\ packets' = packets /\ pkt' = pkt
        /\ next_release_ns' = next_release_ns /\ fq' \subseteq fq /\ stamped' = stamped
    BY <1>6 DEF UnlockConsume
  <2> QED
    BY <2>1, <1>3 DEF Control
<1>7. CASE MarkOrDrop(c)
  <2>1. /\ Goto(c, "over", "idle") \/ Goto(c, "spill", "idle")
        /\ packets' = packets /\ pkt' = pkt
        /\ next_release_ns' = next_release_ns /\ fq' \subseteq fq /\ stamped' = stamped
    BY <1>7 DEF MarkOrDrop, bucket
  <2> QED
    BY <2>1, <1>3 DEF Control
<1> QED
  BY <1>2, <1>4, <1>5, <1>6, <1>7

(* The time of a packet is a number of nanoseconds. *)
LEMMA AddNsNat ==
  ASSUME NEW len \in Lens
  PROVE  AddNs(len) \in Nat
<1>0. Rate \in Nat \ {0} /\ Word \in Nat \ {0}
  BY BucketAssumption
<1>1. len \in Nat /\ PaceBits \in Nat /\ Micro \in Nat /\ PerSecond \in Nat
  BY BucketAssumption
<1>2. len * PaceBits * Micro * PerSecond \in Nat
  <2>1. len * PaceBits \in Nat
    BY <1>1
  <2>2. len * PaceBits * Micro \in Nat
    BY <1>1, <2>1
  <2> QED
    BY <1>1, <2>2
<1> DEFINE x == len * PaceBits * Micro * PerSecond
<1>3. x % Word \in Nat
  <2> HIDE DEF x
  <2>1. x \in Nat
    BY <1>2 DEF x
  <2> QED
    BY <1>0, <2>1, ModLeq
<1>4. AddNs(len) = (x % Word) \div Rate
  BY DEF AddNs
<1> HIDE DEF x
<1> QED
  BY <1>0, <1>3, <1>4, DivLeq

(* What the store of the pacing clock makes of it, and of fq. *)
LEMMA StampIs ==
  ASSUME NEW slot, ClockFits(slot), IInv, PacedInv(slot), NEW c \in CPUs, UnlockPace(c)
  PROVE  LET now == pkt[c].now
             len == pkt[c].len
             at  == ReleaseAt(len, now, next_release_ns)
         IN  /\ len \in Lens /\ AddNs(len) \in Nat /\ next_release_ns \in Nat
             /\ at \in Nat /\ at >= next_release_ns + AddNs(len)
             /\ now \in Nat /\ now <= clock /\ now <= at /\ at < Word
             /\ next_release_ns' = at /\ at <= MaxClock + slot * Past'
             /\ pkt' = pkt /\ InFlight' = InFlight \ {c}
             /\ IsFiniteSet(InFlight') /\ Past' \in Nat
             /\ \/ fq' = fq /\ stamped' = stamped
                \/ /\ DelayNs(at, now) <= MaxEdtDelay /\ stamped' = stamped + 1
                   /\ fq' = fq \union {[at |-> at, len |-> len, nth |-> stamped']}
<1> DEFINE now == pkt[c].now
           len == pkt[c].len
           at == ReleaseAt(len, now, next_release_ns)
<1>1. /\ lock = c /\ pc[c] = "pace" /\ reg[c].next = next_release_ns
      /\ c \in InFlight /\ len \in Lens /\ now \in Nat /\ now <= MaxClock
      /\ next_release_ns \in Nat /\ packets \in 0..MaxPackets /\ now <= clock
  <2>1. pc[c] = "pace"
    BY DEF UnlockPace, Goto
  <2>2. lock = c /\ reg[c].next = next_release_ns
    BY <2>1 DEF IInv, HolderIsCurrent
  <2>3. c \in InFlight
    BY <2>1 DEF InFlight
  <2>4. now \in Nat /\ now <= clock /\ clock \in 0..MaxClock /\ MaxClock \in Nat
    BY BucketAssumption DEF IInv, TypeOK, NoCreditFromTheFuture
  <2> QED
    BY <2>1, <2>2, <2>3, <2>4 DEF PacedInv, IInv, TypeOK
<1>2. /\ Rate \in Nat \ {0} /\ Word \in Nat \ {0} /\ slot \in Nat /\ MaxClock \in Nat
      /\ MaxPackets \in Nat /\ MaxClock + slot * MaxPackets < Word /\ AddNs(len) <= slot
  BY <1>1, BucketAssumption DEF ClockFits
<1>3. AddNs(len) \in Nat
  BY <1>1, AddNsNat
<1>4. /\ IsFiniteSet(InFlight') /\ InFlight' = InFlight \ {c}
      /\ Cardinality(InFlight) \in Nat /\ Cardinality(InFlight') = Cardinality(InFlight) - 1
      /\ Cardinality(InFlight') \in Nat
  <2>1. Goto(c, pc[c], "idle") \/ Goto(c, pc[c], "spill")
    BY DEF UnlockPace, Goto
  <2> QED
    BY <1>1, <2>1, OneMoves DEF Control
<1>5. Past' = Past + 1 /\ Past \in Nat /\ Past' \in Nat /\ Past' <= MaxPackets
  <2>1. packets' = packets
    BY DEF UnlockPace
  <2> QED
    BY <1>1, <1>2, <1>4, <2>1 DEF Past, PacedInv
<1>6. /\ slot * Past \in Nat /\ slot * Past' = slot * Past + slot
      /\ slot * Past' <= slot * MaxPackets /\ slot * MaxPackets \in Nat
  <2>1. \A a, b \in Nat : a <= b => slot * a <= slot * b
    BY <1>2
  <2>2. \A a \in Nat : slot * a \in Nat /\ slot * (a + 1) = slot * a + slot
    BY <1>2
  <2> QED
    BY <1>2, <1>5, <2>1, <2>2
<1>7. /\ Later(now, next_release_ns) \in Nat
      /\ Later(now, next_release_ns) >= next_release_ns
      /\ Later(now, next_release_ns) <= MaxClock + slot * Past
  BY <1>1, <1>2, <1>6 DEF Later, PacedInv
<1>8. /\ at \in Nat /\ at >= next_release_ns + AddNs(len) /\ now <= at /\ at < Word
      /\ at <= MaxClock + slot * Past'
  <2> DEFINE y == Later(now, next_release_ns) + AddNs(len)
  <2>1. y \in Nat /\ y < Word /\ y <= MaxClock + slot * Past' /\ now <= y
    <3>1. now <= Later(now, next_release_ns)
      BY <1>1 DEF Later
    <3> QED
      BY <1>1, <1>2, <1>3, <1>6, <1>7, <3>1
  <2>2. at = y % Word
    BY DEF ReleaseAt
  <2>3. at = y
    <3> HIDE DEF y, at
    <3> QED
      BY <1>2, <2>1, <2>2
  <2> QED
    BY <1>1, <1>3, <1>7, <2>1, <2>3
<1>9. /\ next_release_ns' = at /\ pkt' = pkt
      /\ \/ fq' = fq /\ stamped' = stamped
         \/ /\ DelayNs(at, now) <= MaxEdtDelay /\ stamped' = stamped + 1
            /\ fq' = fq \union {[at |-> at, len |-> len, nth |-> stamped']}
  BY <1>1 DEF UnlockPace
<1> QED
  BY <1>1, <1>3, <1>4, <1>5, <1>8, <1>9

(* The store of the pacing clock, and the packet that may get its stamp:   *)
(* it leaves a slot of its own after everything that fq holds.             *)
LEMMA PaceKeeps ==
  ASSUME NEW slot, ClockFits(slot), IInv, PacedInv(slot), NEW c \in CPUs, UnlockPace(c)
  PROVE  PacedInv(slot)'
<1> DEFINE now == pkt[c].now
           len == pkt[c].len
           at == ReleaseAt(len, now, next_release_ns)
<1>1. next_release_ns \in Nat /\ AddNs(len) \in Nat
  BY StampIs
<1>2. IsFiniteSet(InFlight') /\ InFlight' = InFlight \ {c} /\ Past' \in Nat
  BY StampIs
<1>3. /\ at \in Nat /\ at >= next_release_ns + AddNs(len)
      /\ at <= MaxClock + slot * Past'
  BY StampIs
<1> DEFINE new == [at |-> at, len |-> len, nth |-> stamped']
<1>4. /\ next_release_ns' = at /\ pkt' = pkt
      /\ \/ fq' = fq /\ stamped' = stamped
         \/ stamped' = stamped + 1 /\ fq' = fq \union {new}
  BY StampIs
<1> HIDE DEF at, len, now
<1>5. /\ stamped \in Nat
      /\ \A p \in fq : /\ p.at \in Nat /\ p.at <= next_release_ns
                      /\ p.nth \in Nat /\ p.nth <= stamped
  BY DEF PacedInv, IInv, TypeOK
<1>6. \A p \in fq' : p.at <= next_release_ns' /\ p.nth <= stamped'
  BY <1>1, <1>3, <1>4, <1>5
<1>7. DeparturesSpaced' /\ \A p, q \in fq' : p.nth = q.nth => p = q
  <2>1. CASE fq' = fq
    BY <2>1 DEF PacedInv, DeparturesSpaced, AddNs
  <2>2. CASE stamped' = stamped + 1 /\ fq' = fq \union {new}
    <3>1. \A p \in fq : p.nth < new.nth /\ new.at >= p.at + AddNs(new.len)
      BY <1>1, <1>3, <1>5, <2>2
    <3>2. ~(new.nth < new.nth) /\ \A p \in fq : ~(new.nth < p.nth)
      BY <1>5, <2>2
    <3>3. \A p, q \in fq' : p.nth < q.nth => q.at >= p.at + AddNs(q.len)
      <4> SUFFICES ASSUME NEW p \in fq', NEW q \in fq', p.nth < q.nth
                   PROVE  q.at >= p.at + AddNs(q.len)
        OBVIOUS
      <4> HIDE DEF new
      <4>1. p \in fq
        BY <2>2, <3>2
      <4>2. CASE q \in fq
        BY <4>1, <4>2 DEF PacedInv, DeparturesSpaced
      <4> QED
        BY <2>2, <3>1, <4>1, <4>2
    <3>4. \A p, q \in fq' : p.nth = q.nth => p = q
      <4> HIDE DEF new
      <4>1. \A p \in fq : p.nth # new.nth
        BY <1>5, <3>1
      <4> QED
        BY <2>2, <4>1 DEF PacedInv
    <3> QED
      BY <3>3, <3>4 DEF DeparturesSpaced, AddNs
  <2> QED
    BY <1>4, <2>1, <2>2
<1>8. \A d \in InFlight' : pkt'[d].len \in Lens
  BY <1>2, <1>4 DEF PacedInv
<1> QED
  BY <1>2, <1>3, <1>4, <1>6, <1>7, <1>8 DEF PacedInv

LEMMA NextPaced ==
  ASSUME NEW slot, ClockFits(slot), IInv, PacedInv(slot), [Next]_vars
  PROVE  PacedInv(slot)'
<1>1. CASE Tick \/ OpenWindow \/ FqSend \/ UNCHANGED vars
  <2>1. /\ pc' = pc /\ packets' = packets /\ pkt' = pkt /\ stamped' = stamped
        /\ next_release_ns' = next_release_ns /\ fq' \subseteq fq
    BY <1>1 DEF Tick, OpenWindow, FqSend, vars, bucket
  <2>2. InFlight' = InFlight /\ Past' = Past
    BY <2>1 DEF InFlight, Past
  <2>3. /\ IsFiniteSet(InFlight') /\ Past' \in Nat /\ Past' >= Past
        /\ \A c \in InFlight' : pkt'[c].len \in Lens
    BY <2>1, <2>2 DEF PacedInv
  <2> QED
    BY <2>1, <2>3, ClockUntouched
<1> QED
  BY <1>1, OthersKeep, PaceKeeps DEF Next, Step

LEMMA NextDepth ==
  ASSUME NEW slot, ClockFits(slot), IInv, PacedInv(slot), DepthInv, [Next]_vars
  PROVE  DepthInv'
<1>0. /\ clock \in Nat /\ clock' \in Nat /\ clock' >= clock /\ MaxEdtDelay \in Nat
      /\ \A p \in fq : p.at \in Nat /\ p.at <= next_release_ns /\ p.len \in Lens
  <2>1. clock' = clock \/ clock' = clock + 1
    BY DEF Next, Tick, OpenWindow, FqSend, Heavy, Step, LockConsume, LockPace, LockAndLoad,
       UnlockConsume, UnlockPace, MarkOrDrop, vars
  <2> QED
    BY <2>1, BucketAssumption DEF IInv, TypeOK, PacedInv, DepthInv
<1>1. CASE fq' \subseteq fq
  <2>1. \A p \in fq' : p.at <= clock' + MaxEdtDelay
    BY <1>0, <1>1 DEF DepthInv
  <2> QED
    BY <1>1, <2>1 DEF DepthInv, AddNs
<1>2. ASSUME NEW c \in CPUs, UnlockPace(c) PROVE DepthInv'
  <2> DEFINE now == pkt[c].now
             len == pkt[c].len
             at == ReleaseAt(len, now, next_release_ns)
             new == [at |-> at, len |-> len, nth |-> stamped']
  <2>1. /\ len \in Lens /\ AddNs(len) \in Nat /\ next_release_ns \in Nat
        /\ at \in Nat /\ at >= next_release_ns + AddNs(len)
        /\ now \in Nat /\ now <= clock /\ now <= at /\ at < Word
        /\ fq' = fq \/ (DelayNs(at, now) <= MaxEdtDelay /\ fq' = fq \union {new})
    BY <1>2, StampIs
  <2>2. Word \in Nat \ {0} /\ clock' = clock
    BY <1>2, BucketAssumption DEF UnlockPace
  <2>3. DelayNs(at, now) = at - now
    <3> HIDE DEF at, now
    <3>1. at - now \in 0..(Word - 1)
      BY <2>1, <2>2
    <3>2. \A x \in 0..(Word - 1) : x % Word = x
      BY <2>2
    <3> QED
      BY <3>1, <3>2 DEF DelayNs
  <2> HIDE DEF at, now, len
  <2>4. CASE DelayNs(at, now) <= MaxEdtDelay /\ fq' = fq \union {new}
    <3>1. at <= clock + MaxEdtDelay
      BY <1>0, <2>1, <2>3, <2>4
    <3> QED
      BY <2>1, <2>2, <2>4, <3>1 DEF DepthInv
  <2> QED
    BY <1>1, <2>1, <2>4
<1>3. fq' \subseteq fq \/ \E c \in CPUs : UnlockPace(c)
  BY DEF Next, Tick, OpenWindow, FqSend, Heavy, Step, LockConsume, LockPace, LockAndLoad,
     UnlockConsume, MarkOrDrop, vars
<1> QED
  BY <1>1, <1>2, <1>3

(* A bounded set of numbers that is not empty has a largest. *)
LEMMA LargestExists ==
  ASSUME NEW S \in SUBSET Nat, S # {}, NEW n \in Nat, \A x \in S : x <= n
  PROVE  Max(S) \in S /\ \A x \in S : x <= Max(S)
<1> DEFINE R == OpToRel(<, Nat)
           Room == {m \in Nat : n - m \in S}
<1>1. Room \subseteq Nat /\ Room # {}
  <2>1. PICK x \in S : x \in Nat /\ x <= n
    OBVIOUS
  <2>2. n - x \in Nat /\ n - (n - x) = x
    BY <2>1
  <2> QED
    BY <2>1, <2>2
<1>2. PICK m \in Room : \A k \in Room : ~(<<k, m>> \in R)
  BY <1>1, NatLessThanWellFounded, WFMin
<1>3. \A k \in Room : ~(k < m)
  BY <1>1, <1>2 DEF OpToRel
<1>4. n - m \in S
  OBVIOUS
<1>5. ASSUME NEW x \in S PROVE x <= n - m
  <2>1. x \in Nat /\ x <= n /\ n - x \in Nat /\ n - (n - x) = x
    OBVIOUS
  <2>2. n - x \in Room
    BY <2>1
  <2>3. ~(n - x < m)
    BY <1>3, <2>2
  <2> QED
    BY <1>1, <2>1, <2>3
<1> QED
  BY <1>4, <1>5 DEF Max

(* throttle_disposition: of any two packets that fq holds, the one stamped *)
(* later departs later, by its slot, for any number of CPUs that race for  *)
(* the pacing clock with readings of any age.                              *)
THEOREM DeparturesKeepDistance ==
  ASSUME NEW CONSTANT slot, ClockFits(slot)
  PROVE  Spec => []DeparturesSpaced
<1>1. Init => PacedInv(slot)
  BY InitPaced
<1>2. IInv /\ PacedInv(slot) /\ [Next]_vars => PacedInv(slot)'
  BY NextPaced
<1>3. PacedInv(slot) => DeparturesSpaced
  BY DEF PacedInv
<1> QED
  BY <1>1, <1>2, <1>3, Invariance, PTL DEF Spec

(* The line time of what fq holds back is laid out one packet after the    *)
(* other between the clock, less the packet now on the line, and the delay *)
(* bound.                                                                  *)
LEMMA DepthIsBounded ==
  ASSUME NEW slot, ClockFits(slot), IInv, PacedInv(slot), DepthInv
  PROVE  QueueDepthBounded
<1> SUFFICES ASSUME Waiting # {}
             PROVE  Cardinality(LineTime) <= MaxEdtDelay + Max({AddNs(n) : n \in Lens})
  BY DEF QueueDepthBounded
<1> DEFINE costs == {AddNs(n) : n \in Lens}
           most == Max(costs)
<1>1. /\ clock \in Nat /\ MaxEdtDelay \in Nat /\ slot \in Nat
      /\ \A n \in Lens : AddNs(n) \in Nat /\ AddNs(n) <= slot
  <2>1. \A n \in Lens : AddNs(n) \in Nat
    BY AddNsNat
  <2> QED
    BY <2>1, BucketAssumption DEF ClockFits, IInv, TypeOK
<1>2. \A p \in Waiting : /\ p \in fq /\ p.at \in Nat /\ p.len \in Lens
                         /\ p.at > clock /\ p.at <= clock + MaxEdtDelay
  BY DEF Waiting, DepthInv, IInv, TypeOK
<1>3. most \in Nat /\ \A n \in Lens : AddNs(n) <= most
  <2>1. costs \in SUBSET Nat /\ costs # {}
    BY <1>1, <1>2
  <2>2. \A x \in costs : x <= slot
    BY <1>1
  <2>3. most \in costs /\ \A x \in costs : x <= most
    BY <1>1, <2>1, <2>2, LargestExists
  <2> QED
    BY <2>1, <2>3
<1> HIDE DEF most, costs
<1> DEFINE from == clock + 1 - most
           upto == clock + MaxEdtDelay
           place(x) == x[1].at - AddNs(x[1].len) + x[2]
           f == [x \in LineTime |-> place(x)]
<1>4. ASSUME NEW x \in LineTime
      PROVE  /\ x = <<x[1], x[2]>> /\ x[1] \in Waiting /\ x[2] \in Int
             /\ 1 <= x[2] /\ x[2] <= AddNs(x[1].len)
  <2>1. PICK p \in Waiting : x \in {p} \X (1..AddNs(p.len))
    BY DEF LineTime
  <2> QED
    BY <2>1
<1>5. ASSUME NEW x \in LineTime
      PROVE  place(x) \in from..upto /\ place(x) \in Int
  <2>1. /\ x[1].at \in Nat /\ x[1].at > clock /\ x[1].at <= clock + MaxEdtDelay
        /\ AddNs(x[1].len) \in Nat /\ AddNs(x[1].len) <= most
        /\ x[2] \in Int /\ 1 <= x[2] /\ x[2] <= AddNs(x[1].len)
    BY <1>1, <1>2, <1>3, <1>4
  <2> QED
    BY <1>1, <1>3, <2>1
<1>6. ASSUME NEW x \in LineTime, NEW y \in LineTime, place(x) = place(y)
      PROVE  x = y
  <2> DEFINE p == x[1]
             q == y[1]
             a == AddNs(p.len)
             b == AddNs(q.len)
  <2>1. /\ p \in fq /\ q \in fq /\ p.at \in Nat /\ q.at \in Nat
        /\ a \in Nat /\ b \in Nat /\ x[2] \in Int /\ y[2] \in Int
        /\ 1 <= x[2] /\ x[2] <= a /\ 1 <= y[2] /\ y[2] <= b
    BY <1>1, <1>2, <1>4
  <2>2. /\ p.nth \in Nat /\ q.nth \in Nat
        /\ p.nth < q.nth => q.at >= p.at + b
        /\ q.nth < p.nth => p.at >= q.at + a
    BY <2>1 DEF PacedInv, DeparturesSpaced, IInv, TypeOK
  <2>3. p.at - a + x[2] = q.at - b + y[2]
    BY <1>6
  <2>4. p.nth = q.nth
    <3> HIDE DEF p, q, a, b
    <3> QED
      BY <2>1, <2>2, <2>3
  <2>5. p = q
    BY <2>1, <2>4 DEF PacedInv
  <2>6. x[2] = y[2]
    <3>1. p.at - a + x[2] = p.at - a + y[2]
      BY <2>3, <2>5
    <3> HIDE DEF p, a
    <3> QED
      BY <2>1, <3>1
  <2> QED
    BY <1>4, <2>5, <2>6
<1> HIDE DEF place
<1>7. f \in Injection(LineTime, from..upto)
  BY <1>5, <1>6 DEF Injection, IsInjective
<1>8. from \in Int /\ upto \in Int
  BY <1>1, <1>3
<1> HIDE DEF f
<1>9. IsFiniteSet(from..upto) /\ Cardinality(from..upto) = IF from > upto THEN 0 ELSE upto - from + 1
  <2> HIDE DEF from, upto
  <2> QED
    BY ONLY <1>8, FS_Interval
<1>10. Cardinality(from..upto) <= MaxEdtDelay + most
  BY <1>1, <1>3, <1>9
<1>11. /\ Cardinality(LineTime) <= Cardinality(from..upto)
       /\ Cardinality(LineTime) \in Nat /\ Cardinality(from..upto) \in Nat
  <2> HIDE DEF from, upto
  <2>1. IsFiniteSet(LineTime) /\ Cardinality(LineTime) <= Cardinality(from..upto)
    BY ONLY <1>7, <1>9, FS_Injection
  <2> QED
    BY <1>9, <2>1, FS_CardinalityType
<1> QED
  BY <1>1, <1>3, <1>10, <1>11 DEF most, costs

(* MAX_EDT_DELAY_NS: what fq holds back never takes longer to send than    *)
(* the delay bound and one packet, however many packets are refused        *)
(* pacing, and still advance the clock, in between.                        *)
THEOREM QueueStaysShort ==
  ASSUME NEW CONSTANT slot, ClockFits(slot)
  PROVE  Spec => []QueueDepthBounded
<1>1. Init => PacedInv(slot) /\ DepthInv
  BY InitPaced DEF Init, DepthInv
<1>2. IInv /\ PacedInv(slot) /\ DepthInv /\ [Next]_vars => PacedInv(slot)' /\ DepthInv'
  BY NextPaced, NextDepth
<1>3. IInv /\ PacedInv(slot) /\ DepthInv => QueueDepthBounded
  BY DepthIsBounded
<1> QED
  BY <1>1, <1>2, <1>3, Invariance, PTL DEF Spec

=============================================================================
