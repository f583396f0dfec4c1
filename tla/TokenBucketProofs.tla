------------------------- MODULE TokenBucketProofs -------------------------
(***************************************************************************)
(* The token bucket charges no byte that its rate and burst have not paid  *)
(* for, whatever the number of CPUs, the skew of their clocks, the packet  *)
(* sizes, the rate, the burst and the width of the machine word.           *)
(***************************************************************************)
EXTENDS TokenBucket, TLAPS

----------------------------------------------------------------------------
(* Arithmetic of the refill.                                               *)

(* Dividing rounds down. *)
LEMMA DivLeq ==
  ASSUME NEW a \in Nat, NEW b \in Nat \ {0}
  PROVE  a \div b \in Nat /\ (a \div b) * b <= a
  OBVIOUS

(* Wrapping around never makes a number larger. *)
LEMMA ModLeq ==
  ASSUME NEW a \in Nat, NEW w \in Nat \ {0}
  PROVE  a % w \in Nat /\ a % w <= a
  OBVIOUS

LEMMA ProductMonotone ==
  ASSUME NEW a \in Nat, NEW b \in Nat, NEW c \in Nat, a <= b
  PROVE  a * c \in Nat /\ a * c <= b * c
  OBVIOUS

LEMMA Difference ==
  ASSUME NEW a \in Nat, NEW b \in Nat, a <= b
  PROVE  b - a \in Nat
  OBVIOUS

LEMMA Telescope ==
  ASSUME NEW a \in Nat, NEW b \in Nat, NEW c \in Nat, a <= b, b <= c
  PROVE  c - a = (b - a) + (c - b) /\ a <= c
  OBVIOUS

LEMMA Distribute ==
  ASSUME NEW a \in Nat, NEW b \in Nat, NEW c \in Nat
  PROVE  /\ a * c \in Nat
         /\ (a + b) * c = a * c + b * c
         /\ c * (a + b) = c * a + c * b
  OBVIOUS

(* Two accounts in balance stay so when they are added up. *)
LEMMA BooksAdd ==
  ASSUME NEW U \in Nat, NEW R \in Nat, NEW B \in Nat,
         NEW s \in Nat, NEW t \in Nat, NEW k \in Nat,
         NEW ds \in Nat, NEW dt \in Nat, NEW k2 \in Nat,
         (s + k) * U <= B * U + R * t,
         (ds + k2) * U <= k * U + R * dt
  PROVE  ((s + ds) + k2) * U <= B * U + R * (t + dt)
<1>1. /\ (s + k) * U = s * U + k * U
      /\ s * U \in Nat /\ k * U \in Nat /\ B * U \in Nat
  BY Distribute
<1>2. ds + k2 \in Nat /\ (s + ds) + k2 = s + (ds + k2)
  OBVIOUS
<1>3. /\ (s + (ds + k2)) * U = s * U + (ds + k2) * U
      /\ (ds + k2) * U \in Nat
  BY <1>2, Distribute
<1>4. /\ R * (t + dt) = R * t + R * dt
      /\ R * t \in Nat /\ R * dt \in Nat
  BY Distribute
<1>5. s * U + (ds + k2) * U <= B * U + (R * t + R * dt)
  BY <1>1, <1>3, <1>4
<1> QED
  BY <1>2, <1>3, <1>4, <1>5

(* Associativity and commutativity, for the provers that do not multiply. *)
LEMMA Regroup ==
  ASSUME NEW a \in Nat, NEW b \in Nat, NEW c \in Nat
  PROVE  /\ a * (b * c) = (a * c) * b
         /\ (a * b) * c = (a * c) * b
         /\ a * b = b * a
  OBVIOUS

(* The refill of a packet is paid for by the time since the last one: the  *)
(* two divisions and the wrap only lose.                                   *)
LEMMA AddedIsPaid ==
  ASSUME NEW now \in Nat, NEW last \in Nat
  PROVE  /\ Elapsed(now, last) \in Nat
         /\ Added(now, last) \in Nat
         /\ Added(now, last) * Unit <= Rate * Elapsed(now, last)
<1> DEFINE e == Elapsed(now, last)
           q == e \div Micro
           m == (q * Rate) % Word
           a == m \div PerSecond
<1>0. /\ Rate \in Nat /\ Micro \in Nat \ {0}
      /\ PerSecond \in Nat \ {0} /\ Word \in Nat \ {0}
  BY BucketAssumption
<1>1. e \in Nat
  BY DEF Elapsed
<1>2. q \in Nat /\ q * Micro <= e
  BY <1>0, <1>1, DivLeq
<1>3. q * Rate \in Nat
  BY <1>0, <1>2, ProductMonotone
<1>4. m \in Nat /\ m <= q * Rate
  BY <1>0, <1>3, ModLeq
<1>5. a \in Nat /\ a * PerSecond <= m
  BY <1>0, <1>4, DivLeq
<1>6. a * PerSecond \in Nat /\ q * Micro \in Nat
  BY <1>0, <1>2, <1>5, ProductMonotone
<1> HIDE DEF e, q, m, a
<1>7. (a * PerSecond) * Micro <= (q * Rate) * Micro
  <2>1. (a * PerSecond) * Micro <= m * Micro
    BY <1>0, <1>4, <1>5, <1>6, ProductMonotone
  <2>2. m * Micro <= (q * Rate) * Micro
    BY <1>0, <1>3, <1>4, ProductMonotone
  <2>3. /\ (a * PerSecond) * Micro \in Nat
        /\ m * Micro \in Nat
        /\ (q * Rate) * Micro \in Nat
    BY <1>0, <1>3, <1>4, <1>6, ProductMonotone
  <2> QED
    BY <2>1, <2>2, <2>3
<1>8. (q * Rate) * Micro <= Rate * e
  <2>1. (q * Rate) * Micro = (q * Micro) * Rate
    BY <1>0, <1>2, Regroup
  <2>2. (q * Micro) * Rate <= e * Rate
    BY <1>0, <1>1, <1>2, <1>6, ProductMonotone
  <2> QED
    BY <1>0, <1>1, <2>1, <2>2, Regroup
<1>9. a * (Micro * PerSecond) = (a * PerSecond) * Micro
  BY <1>0, <1>5, Regroup
<1>10. /\ (a * PerSecond) * Micro \in Nat
       /\ (q * Rate) * Micro \in Nat
       /\ Rate * e \in Nat
  BY <1>0, <1>1, <1>3, <1>6, ProductMonotone
<1>11. a * (Micro * PerSecond) <= Rate * e
  BY <1>7, <1>8, <1>9, <1>10
<1> QED
  BY <1>1, <1>5, <1>11 DEF a, m, q, e, Added, Unit

(* A refill leaves at most burst_bytes, and adds no more than time paid.   *)
LEMMA RefillIsPaid ==
  ASSUME NEW t \in Nat, NEW now \in Nat, NEW last \in Nat
  PROVE  /\ Refill(t, now, last) \in 0..Burst
         /\ Refill(t, now, last) * Unit <= t * Unit + Rate * Elapsed(now, last)
<1> DEFINE a == Added(now, last)
           sum == (t + a) % Word
           r == Refill(t, now, last)
           e == Elapsed(now, last)
<1>0. Burst \in Nat /\ Rate \in Nat /\ Word \in Nat \ {0} /\ Unit \in Nat
  BY BucketAssumption, ProductMonotone DEF Unit
<1>1. a \in Nat /\ e \in Nat /\ a * Unit <= Rate * e
  BY AddedIsPaid
<1>2. sum \in Nat /\ sum <= t + a
  <2>1. t + a \in Nat
    BY <1>1
  <2> QED
    BY <1>0, <2>1, ModLeq
<1>3. r \in 0..Burst /\ r <= t + a
  <2>1. r = IF sum > Burst THEN Burst ELSE sum
    BY DEF Refill
  <2> HIDE DEF r, sum, a
  <2> QED
    BY <1>0, <1>1, <1>2, <2>1
<1> HIDE DEF a, sum, r, e
<1>4. r * Unit <= (t + a) * Unit
  BY <1>0, <1>1, <1>3, ProductMonotone
<1>5. (t + a) * Unit = t * Unit + a * Unit
  BY <1>0, <1>1
<1>6. /\ r * Unit \in Nat /\ t * Unit \in Nat
      /\ a * Unit \in Nat /\ Rate * e \in Nat
  BY <1>0, <1>1, <1>3, ProductMonotone
<1>7. r * Unit <= t * Unit + Rate * e
  BY <1>1, <1>4, <1>5, <1>6
<1> QED
  BY <1>3, <1>7 DEF r, e

----------------------------------------------------------------------------
(* What one call of consume_tokens does to the books.                      *)

(* The unlock of consume_tokens pays for what it serves.                   *)
LEMMA ChargeIsPaid ==
  ASSUME TypeOK, HolderIsCurrent, NEW c \in CPUs, UnlockConsume(c)
  PROVE  /\ tokens' \in 0..Burst
         /\ served' \in Nat /\ served' >= served
         /\ last_update_ns' \in Nat /\ last_update_ns' >= last_update_ns
         /\ last_update_ns' \in {last_update_ns, pkt[c].now}
         /\ (served' - served) + tokens' \in 0..Burst
         /\ ((served' - served) + tokens') * Unit
              <= tokens * Unit + Rate * (last_update_ns' - last_update_ns)
<1> DEFINE now  == pkt[c].now
           len  == pkt[c].len
           have == Refill(tokens, now, last_update_ns)
<1>0. Burst \in Nat /\ Rate \in Nat
  BY BucketAssumption
<1>1. /\ tokens \in Nat /\ last_update_ns \in Nat /\ served \in Nat
      /\ now \in Nat /\ len \in Nat
  BY <1>0 DEF TypeOK
<1>2. reg[c].tokens = tokens /\ reg[c].last = last_update_ns
  BY DEF UnlockConsume, Unlock, HolderIsCurrent
<1>3. /\ have \in 0..Burst
      /\ have * Unit <= tokens * Unit + Rate * Elapsed(now, last_update_ns)
  BY <1>1, RefillIsPaid
<1>4. /\ last_update_ns' = Later(now, last_update_ns)
      /\ \/ have >= len /\ tokens' = have - len /\ served' = served + len
         \/ have < len /\ tokens' = have /\ served' = served
  BY <1>2 DEF UnlockConsume
<1>5. /\ last_update_ns' \in Nat /\ last_update_ns' >= last_update_ns
      /\ last_update_ns' \in {last_update_ns, now}
      /\ last_update_ns' - last_update_ns = Elapsed(now, last_update_ns)
  BY <1>1, <1>4 DEF Later, Elapsed
<1> HIDE DEF now, len, have
<1>6. /\ tokens' \in 0..Burst
      /\ served' \in Nat /\ served' >= served
      /\ (served' - served) + tokens' = have
  BY <1>0, <1>1, <1>3, <1>4
<1> QED
  BY <1>3, <1>5, <1>6 DEF now

----------------------------------------------------------------------------
(* The inductive invariant, one conjunct at a time.                        *)

LEMMA InitIInv == Init => IInv
<1> SUFFICES ASSUME Init PROVE IInv
  OBVIOUS
<1>0. Burst \in Nat /\ Rate \in Nat /\ MaxClock \in Nat /\ MaxPackets \in Nat
  BY BucketAssumption
<1>1. TypeOK
  BY <1>0 DEF Init, TypeOK, Control
<1>2. HolderIsCurrent
  BY BucketAssumption DEF Init, HolderIsCurrent
<1>3. NoCreditFromTheFuture
  BY <1>0 DEF Init, NoCreditFromTheFuture
<1>4. WindowPaid
  <2>1. Burst * Unit \in Nat
    BY BucketAssumption, ProductMonotone DEF Unit
  <2> QED
    BY <1>0, <2>1 DEF Init, WindowPaid
<1> QED
  BY <1>1, <1>2, <1>3, <1>4 DEF IInv

LEMMA TypeStep ==
  ASSUME TypeOK, HolderIsCurrent, [Next]_vars
  PROVE  TypeOK'
<1>0. /\ Burst \in Nat /\ MaxClock \in Nat /\ MaxPackets \in Nat
      /\ Lens \subseteq Nat
  BY BucketAssumption
<1>1. CASE Tick
  BY <1>0, <1>1 DEF TypeOK, Tick, bucket
<1>2. CASE OpenWindow
  BY <1>2 DEF TypeOK, OpenWindow, bucket
<1>3. CASE FqSend
  BY <1>3 DEF TypeOK, FqSend, bucket
<1>4. ASSUME NEW c \in CPUs, NEW n \in Lens, NEW t \in Readings, Heavy(c, n, t)
      PROVE  TypeOK'
  <2>1. /\ packets < MaxPackets
        /\ Goto(c, "idle", "heavy")
        /\ pkt' = [pkt EXCEPT ![c] = [len |-> n, now |-> t]]
        /\ packets' = packets + 1
        /\ UNCHANGED <<clock, bucket, lock, reg, fq, stamped, served, mark>>
    BY <1>4 DEF Heavy
  <2>2. pc' \in [CPUs -> Control]
    BY <2>1 DEF TypeOK, Goto, Control
  <2>3. pkt' \in [CPUs -> [len : Nat, now : Nat]]
    BY <1>0, <2>1 DEF TypeOK, Readings
  <2>4. packets' \in 0..MaxPackets
    BY <1>0, <2>1 DEF TypeOK
  <2> QED
    BY <2>1, <2>2, <2>3, <2>4 DEF TypeOK, bucket
<1>5. ASSUME NEW c \in CPUs, LockConsume(c) \/ LockPace(c) PROVE TypeOK'
  <2>1. tokens \in Nat
    BY <1>0 DEF TypeOK
  <2>2. reg' \in [CPUs -> [tokens : Nat, last : Nat, next : Nat]]
    <3>1. reg' = [reg EXCEPT ![c] = [tokens |-> tokens,
                                     last   |-> last_update_ns,
                                     next   |-> next_release_ns]]
      BY <1>5 DEF LockConsume, LockPace, LockAndLoad
    <3>2. /\ last_update_ns \in Nat /\ next_release_ns \in Nat
          /\ reg \in [CPUs -> [tokens : Nat, last : Nat, next : Nat]]
      BY DEF TypeOK
    <3> QED
      BY <2>1, <3>1, <3>2
  <2>3. pc' \in [CPUs -> Control]
    BY <1>5 DEF TypeOK, LockConsume, LockPace, LockAndLoad, Goto, Control
  <2> QED
    BY <1>5, <2>2, <2>3 DEF TypeOK, LockConsume, LockPace, LockAndLoad, bucket
<1>6. ASSUME NEW c \in CPUs, UnlockConsume(c) PROVE TypeOK'
  <2>1. /\ tokens' \in 0..Burst /\ served' \in Nat /\ last_update_ns' \in Nat
    BY <1>6, ChargeIsPaid
  <2>2. pc' \in [CPUs -> Control]
    BY <1>6 DEF TypeOK, UnlockConsume, Goto, Control
  <2> QED
    BY <1>6, <2>1, <2>2 DEF TypeOK, UnlockConsume, Unlock
<1>7. ASSUME NEW c \in CPUs, UnlockPace(c) PROVE TypeOK'
  <2> DEFINE at == ReleaseAt(pkt[c].len, pkt[c].now, reg[c].next)
  <2>1. at \in Nat
    <3>1. /\ pkt[c].len \in Nat /\ pkt[c].now \in Nat /\ reg[c].next \in Nat
      BY DEF TypeOK
    <3>2. /\ Rate \in Nat \ {0} /\ Word \in Nat \ {0} /\ PaceBits \in Nat
          /\ Micro \in Nat /\ PerSecond \in Nat
      BY BucketAssumption
    <3>3. pkt[c].len * PaceBits * Micro * PerSecond \in Nat
      BY <3>1, <3>2, ProductMonotone
    <3>4. AddNs(pkt[c].len) \in Nat
      BY <3>2, <3>3, ModLeq, DivLeq DEF AddNs
    <3>5. Later(pkt[c].now, reg[c].next) + AddNs(pkt[c].len) \in Nat
      BY <3>1, <3>4 DEF Later
    <3> QED
      BY <3>2, <3>5, ModLeq DEF ReleaseAt
  <2>2. pkt[c].len \in Nat
    BY DEF TypeOK
  <2> HIDE DEF at
  <2>3. next_release_ns' \in Nat /\ stamped' \in Nat
        /\ fq' \subseteq [at : Nat, len : Nat, nth : Nat]
    <3>1. stamped \in Nat /\ fq \subseteq [at : Nat, len : Nat, nth : Nat]
      BY DEF TypeOK
    <3>2. /\ next_release_ns' = at
          /\ \/ fq' = fq /\ stamped' = stamped
             \/ /\ stamped' = stamped + 1
                /\ fq' = fq \union {[at |-> at, len |-> pkt[c].len, nth |-> stamped']}
      BY <1>7 DEF UnlockPace, at
    <3> QED
      BY <2>1, <2>2, <3>1, <3>2
  <2>4. pc' \in [CPUs -> Control]
    BY <1>7 DEF TypeOK, UnlockPace, Goto, Control
  <2> QED
    BY <1>7, <2>3, <2>4 DEF TypeOK, UnlockPace, Unlock
<1>8. ASSUME NEW c \in CPUs, MarkOrDrop(c) PROVE TypeOK'
  <2>1. pc' \in [CPUs -> Control]
    BY <1>8 DEF TypeOK, MarkOrDrop, Goto, Control
  <2> QED
    BY <1>8, <2>1 DEF TypeOK, MarkOrDrop, bucket
<1>9. CASE UNCHANGED vars
  BY <1>9 DEF TypeOK, vars, bucket
<1> QED
  BY <1>1, <1>2, <1>3, <1>4, <1>5, <1>6, <1>7, <1>8, <1>9 DEF Next, Step

LEMMA HolderStep ==
  ASSUME TypeOK, HolderIsCurrent, [Next]_vars
  PROVE  HolderIsCurrent'
<1> USE DEF HolderIsCurrent
<1>1. CASE Tick
  BY <1>1 DEF Tick, bucket
<1>2. CASE OpenWindow
  BY <1>2 DEF OpenWindow, bucket
<1>3. CASE FqSend
  BY <1>3 DEF FqSend, bucket
<1>4. ASSUME NEW c \in CPUs, NEW n \in Lens, NEW t \in Readings, Heavy(c, n, t)
      PROVE  HolderIsCurrent'
  BY <1>4 DEF TypeOK, Heavy, Goto, bucket
<1>5. ASSUME NEW c \in CPUs, LockConsume(c) \/ LockPace(c)
      PROVE  HolderIsCurrent'
  <2>1. /\ lock = None /\ lock' = c
        /\ pc' = [pc EXCEPT ![c] = pc'[c]]
        /\ pc'[c] \in {"refill", "pace"}
        /\ reg' = [reg EXCEPT ![c] = [tokens |-> tokens,
                                      last   |-> last_update_ns,
                                      next   |-> next_release_ns]]
        /\ UNCHANGED <<tokens, last_update_ns, next_release_ns>>
    BY <1>5 DEF TypeOK, LockConsume, LockPace, LockAndLoad, Goto, bucket
  <2>2. None \notin CPUs
    BY BucketAssumption
  <2> QED
    BY <2>1, <2>2 DEF TypeOK
<1>6. ASSUME NEW c \in CPUs, UnlockConsume(c) \/ UnlockPace(c)
      PROVE  HolderIsCurrent'
  <2>1. /\ lock = c /\ lock' = None
        /\ pc' = [pc EXCEPT ![c] = pc'[c]]
        /\ pc'[c] \notin {"refill", "pace"}
    BY <1>6 DEF TypeOK, UnlockConsume, UnlockPace, Unlock, Goto
  <2>2. None \notin CPUs
    BY BucketAssumption
  <2>3. \A d \in CPUs : pc'[d] \notin {"refill", "pace"}
    BY <2>1, <2>2 DEF TypeOK
  <2> QED
    BY <2>1, <2>2, <2>3
<1>7. ASSUME NEW c \in CPUs, MarkOrDrop(c) PROVE HolderIsCurrent'
  BY <1>7 DEF TypeOK, MarkOrDrop, Goto, bucket
<1>8. CASE UNCHANGED vars
  BY <1>8 DEF vars, bucket
<1> QED
  BY <1>1, <1>2, <1>3, <1>4, <1>5, <1>6, <1>7, <1>8 DEF Next, Step

LEMMA ClockStep ==
  ASSUME TypeOK, HolderIsCurrent, NoCreditFromTheFuture, [Next]_vars
  PROVE  NoCreditFromTheFuture'
<1> USE DEF NoCreditFromTheFuture
<1>0. /\ MaxClock \in Nat /\ clock \in Nat /\ last_update_ns \in Nat
      /\ \A c \in CPUs : pkt[c].now \in Nat
  BY BucketAssumption DEF TypeOK
<1>1. CASE Tick
  BY <1>0, <1>1 DEF Tick, bucket
<1>2. CASE OpenWindow
  BY <1>2 DEF OpenWindow, bucket
<1>3. CASE FqSend
  BY <1>3 DEF FqSend, bucket
<1>4. ASSUME NEW c \in CPUs, NEW n \in Lens, NEW t \in Readings, Heavy(c, n, t)
      PROVE  NoCreditFromTheFuture'
  <2>1. pkt' = [pkt EXCEPT ![c] = [len |-> n, now |-> t]] /\ t <= clock
    BY <1>0, <1>4 DEF Heavy, Readings
  <2>2. clock' = clock /\ last_update_ns' = last_update_ns
    BY <1>4 DEF Heavy, bucket
  <2> QED
    BY <1>0, <2>1, <2>2 DEF TypeOK
<1>5. ASSUME NEW c \in CPUs, LockConsume(c) \/ LockPace(c)
      PROVE  NoCreditFromTheFuture'
  BY <1>5 DEF LockConsume, LockPace, LockAndLoad, bucket
<1>6. ASSUME NEW c \in CPUs, UnlockConsume(c) PROVE NoCreditFromTheFuture'
  <2>1. last_update_ns' \in {last_update_ns, pkt[c].now}
    BY <1>6, ChargeIsPaid
  <2>2. clock' = clock /\ pkt' = pkt
    BY <1>6 DEF UnlockConsume
  <2> QED
    BY <2>1, <2>2
<1>7. ASSUME NEW c \in CPUs, UnlockPace(c) PROVE NoCreditFromTheFuture'
  BY <1>7 DEF UnlockPace
<1>8. ASSUME NEW c \in CPUs, MarkOrDrop(c) PROVE NoCreditFromTheFuture'
  BY <1>8 DEF MarkOrDrop, bucket
<1>9. CASE UNCHANGED vars
  BY <1>9 DEF vars, bucket
<1> QED
  BY <1>1, <1>2, <1>3, <1>4, <1>5, <1>6, <1>7, <1>8, <1>9 DEF Next, Step

LEMMA WindowStep ==
  ASSUME TypeOK, HolderIsCurrent, WindowPaid, [Next]_vars
  PROVE  WindowPaid'
<1>0. /\ Burst \in Nat /\ Rate \in Nat /\ Unit \in Nat
      /\ Burst * Unit \in Nat
      /\ tokens \in Nat /\ tokens <= Burst
      /\ served \in Nat /\ last_update_ns \in Nat
      /\ mark.time \in Nat /\ mark.served \in Nat
  <2>1. Burst \in Nat /\ Rate \in Nat /\ Unit \in Nat
    BY BucketAssumption, ProductMonotone DEF Unit
  <2> QED
    BY <2>1, ProductMonotone DEF TypeOK
<1>1. CASE OpenWindow
  <2>1. /\ mark' = [time |-> last_update_ns, served |-> served]
        /\ UNCHANGED <<tokens, last_update_ns, served>>
    BY <1>1 DEF OpenWindow, bucket
  <2>2. tokens * Unit <= Burst * Unit
    BY <1>0, ProductMonotone
  <2>3. /\ (served - served) + tokens = tokens
        /\ Rate * (last_update_ns - last_update_ns) = 0
    BY <1>0
  <2> QED
    BY <1>0, <2>1, <2>2, <2>3 DEF WindowPaid
<1>2. ASSUME NEW c \in CPUs, UnlockConsume(c) PROVE WindowPaid'
  <2> DEFINE ds == served' - served
             dt == last_update_ns' - last_update_ns
             s  == served - mark.served
             t  == last_update_ns - mark.time
  <2>1. /\ tokens' \in Nat
        /\ served' \in Nat /\ served' >= served
        /\ last_update_ns' \in Nat /\ last_update_ns' >= last_update_ns
    BY <1>0, <1>2, ChargeIsPaid
  <2>2. (ds + tokens') * Unit <= tokens * Unit + Rate * dt
    BY <1>2, ChargeIsPaid
  <2>3. mark.time <= last_update_ns /\ mark.served <= served
    BY DEF WindowPaid
  <2>8. (s + tokens) * Unit <= Burst * Unit + Rate * t
    BY DEF WindowPaid
  <2>4. mark' = mark
    BY <1>2 DEF UnlockConsume
  <2>5. ds \in Nat /\ dt \in Nat /\ s \in Nat /\ t \in Nat
    BY <1>0, <2>1, <2>3, Difference
  <2>6. /\ served' - mark.served = s + ds
        /\ last_update_ns' - mark.time = t + dt
        /\ mark.time <= last_update_ns' /\ mark.served <= served'
    BY <1>0, <2>1, <2>3, Telescope
  <2> HIDE DEF ds, dt, s, t
  <2>7. ((s + ds) + tokens') * Unit <= Burst * Unit + Rate * (t + dt)
    BY <1>0, <2>1, <2>2, <2>5, <2>8, BooksAdd
  <2> QED
    BY <2>4, <2>6, <2>7 DEF WindowPaid
<1>3. CASE UNCHANGED <<tokens, last_update_ns, served, mark>>
  BY <1>3 DEF WindowPaid
<1>4. ASSUME Tick \/ FqSend \/ UNCHANGED vars
      PROVE  UNCHANGED <<tokens, last_update_ns, served, mark>>
  BY <1>4 DEF Tick, FqSend, vars, bucket
<1>5. ASSUME NEW c \in CPUs,
             \/ \E n \in Lens, t \in Readings : Heavy(c, n, t)
             \/ LockConsume(c) \/ LockPace(c)
             \/ UnlockPace(c) \/ MarkOrDrop(c)
      PROVE  UNCHANGED <<tokens, last_update_ns, served, mark>>
  BY <1>5 DEF Heavy, LockConsume, LockPace, LockAndLoad, UnlockPace,
              MarkOrDrop, bucket
<1> QED
  BY <1>1, <1>2, <1>3, <1>4, <1>5 DEF Next, Step

LEMMA NextIInv == IInv /\ [Next]_vars => IInv'
  BY TypeStep, HolderStep, ClockStep, WindowStep DEF IInv

----------------------------------------------------------------------------
(* The invariants the model checker checks on small instances.             *)

(* With the books in order, the cap holds of the open window. *)
LEMMA BooksGiveCap == IInv => RateCap
<1> SUFFICES ASSUME IInv PROVE RateCap
  OBVIOUS
<1> DEFINE s == served - mark.served
           t == last_update_ns - mark.time
<1>1. /\ Burst \in Nat /\ Rate \in Nat /\ Unit \in Nat
      /\ tokens \in Nat /\ served \in Nat /\ last_update_ns \in Nat
      /\ mark.time \in Nat /\ mark.served \in Nat
  BY BucketAssumption, ProductMonotone DEF Unit, IInv, TypeOK
<1>2. mark.time <= last_update_ns /\ mark.served <= served
  BY DEF IInv, WindowPaid
<1>3. s \in Nat /\ t \in Nat
  BY <1>1, <1>2, Difference
<1>4. (s + tokens) * Unit <= Burst * Unit + Rate * t
  BY DEF IInv, WindowPaid
<1> HIDE DEF s, t
<1>5. /\ (s + tokens) * Unit = s * Unit + tokens * Unit
      /\ s * Unit \in Nat /\ tokens * Unit \in Nat
      /\ Burst * Unit \in Nat /\ Rate * t \in Nat
  BY <1>1, <1>3, Distribute
<1>6. s * Unit <= Burst * Unit + Rate * t
  BY <1>4, <1>5
<1> QED
  BY <1>6 DEF s, t, RateCap, Contract!RateCap, Contract!Full

(* The inductive invariant holds of every behaviour of the bucket. *)
THEOREM Invariance == Spec => []IInv
  BY InitIInv, NextIInv, PTL DEF Spec

(* The bucket's fields stay within their types; in particular tokens never *)
(* exceeds burst_bytes and never goes below zero.                          *)
THEOREM TypeCorrect == Spec => []TypeOK
<1>1. IInv => TypeOK
  BY DEF IInv
<1> QED
  BY <1>1, Invariance, PTL

(* bpf_spin_lock serialises both critical sections: what the holder loaded *)
(* is what it updates.                                                     *)
THEOREM LockCorrect == Spec => []HolderIsCurrent
<1>1. IInv => HolderIsCurrent
  BY DEF IInv
<1> QED
  BY <1>1, Invariance, PTL

(* No reading of any CPU lets the bucket refill for time to come. *)
THEOREM RefillOfThePast == Spec => []NoCreditFromTheFuture
<1>1. IInv => NoCreditFromTheFuture
  BY DEF IInv
<1> QED
  BY <1>1, Invariance, PTL

(* Over any window, the bytes charged stay within burst_bytes plus what    *)
(* rate_bps accrues over it, for every number of CPUs, skew and word size. *)
THEOREM RateCapHolds == Spec => []RateCap
  BY BooksGiveCap, Invariance, PTL

----------------------------------------------------------------------------
(* Refinement of the contract.                                             *)

(* The one step of the bucket that serves is a step of the contract. *)
LEMMA ChargeServes ==
  ASSUME IInv, NEW c \in CPUs, UnlockConsume(c)
  PROVE  Contract!Serve
<1> DEFINE ds == served' - served
           dt == last_update_ns' - last_update_ns
           left == ds + tokens'
<1>0. /\ TypeOK /\ HolderIsCurrent /\ NoCreditFromTheFuture
  BY DEF IInv
<1>1. /\ Burst \in Nat /\ Rate \in Nat /\ MaxClock \in Nat
      /\ tokens \in Nat /\ served \in Nat /\ last_update_ns \in Nat
      /\ clock \in 0..MaxClock
  BY <1>0, BucketAssumption DEF TypeOK
<1>u. Unit \in Nat
  BY BucketAssumption, ProductMonotone DEF Unit
<1>2. /\ tokens' \in 0..Burst /\ served' \in Nat /\ last_update_ns' \in Nat
      /\ last_update_ns' >= last_update_ns /\ served' >= served
      /\ left \in 0..Burst
      /\ last_update_ns' \in {last_update_ns, pkt[c].now}
  BY <1>0, ChargeIsPaid
<1>3. left * Unit <= tokens * Unit + Rate * dt
  BY <1>0, ChargeIsPaid
<1>4. last_update_ns' \in 0..MaxClock
  <2>1. last_update_ns <= clock /\ pkt[c].now <= clock
    BY <1>0 DEF NoCreditFromTheFuture
  <2>2. pkt[c].now \in Nat
    BY <1>0 DEF TypeOK
  <2> QED
    BY <1>1, <1>2, <2>1, <2>2
<1>5. ds \in Nat /\ tokens' \in Nat
  <2>1. served \in Nat /\ served' \in Nat /\ served <= served'
    BY <1>1, <1>2
  <2>2. tokens' \in Nat
    BY <1>1, <1>2
  <2> QED
    BY <2>1, <2>2, Difference
<1>6. mark' = mark
  BY DEF UnlockConsume
<1> HIDE DEF ds, dt
<1>7. /\ tokens' * Unit + ds * Unit = left * Unit
      /\ tokens' * Unit \in Nat
  <2>1. left = tokens' + ds
    BY <1>5
  <2>2. /\ (tokens' + ds) * Unit = tokens' * Unit + ds * Unit
        /\ tokens' * Unit \in Nat
    BY <1>u, <1>5, Distribute
  <2> QED
    BY <2>1, <2>2
<1>8. left * Unit <= Burst * Unit
  BY <1>1, <1>u, <1>2, ProductMonotone
<1> HIDE DEF left
<1>9. tokens' * Unit + ds * Unit
        <= Contract!Lower(Burst * Unit, tokens * Unit + Rate * dt)
  BY <1>3, <1>7, <1>8 DEF Contract!Lower
<1>10. tokens' * Unit >= 0
  BY <1>7
<1> QED
  BY <1>2, <1>4, <1>6, <1>9, <1>10 DEF Contract!Serve, Contract!Full, ds, dt

(* Every behaviour of the bucket, raced over by any number of CPUs, is a   *)
(* behaviour of the contract: no step of any of them invents credit.       *)
THEOREM Refinement == Spec => ImplementsContract
<1>1. Init => Contract!Init
  BY DEF Init, Contract!Init, Contract!Full
<1>2. IInv /\ [Next]_vars => [Contract!Next]_(Contract!vars)
  <2> SUFFICES ASSUME IInv, [Next]_vars
               PROVE  Contract!Next \/ UNCHANGED Contract!vars
    OBVIOUS
  <2>1. CASE OpenWindow
    BY <2>1 DEF OpenWindow, bucket, Contract!Next, Contract!OpenWindow
  <2>2. ASSUME NEW c \in CPUs, UnlockConsume(c) PROVE Contract!Next
    BY <2>2, ChargeServes DEF Contract!Next
  <2>3. CASE UNCHANGED <<tokens, last_update_ns, served, mark>>
    BY <2>3 DEF Contract!vars
  <2>4. ASSUME Tick \/ FqSend \/ UNCHANGED vars
        PROVE  UNCHANGED <<tokens, last_update_ns, served, mark>>
    BY <2>4 DEF Tick, FqSend, vars, bucket
  <2>5. ASSUME NEW c \in CPUs,
               \/ \E n \in Lens, t \in Readings : Heavy(c, n, t)
               \/ LockConsume(c) \/ LockPace(c)
               \/ UnlockPace(c) \/ MarkOrDrop(c)
        PROVE  UNCHANGED <<tokens, last_update_ns, served, mark>>
    BY <2>5 DEF Heavy, LockConsume, LockPace, LockAndLoad, UnlockPace,
                MarkOrDrop, bucket
  <2> QED
    BY <2>1, <2>2, <2>3, <2>4, <2>5 DEF Next, Step
<1> QED
  BY <1>1, <1>2, Invariance, PTL DEF Spec, ImplementsContract, Contract!Spec

=============================================================================
