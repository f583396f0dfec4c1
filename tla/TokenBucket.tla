---------------------------- MODULE TokenBucket -----------------------------
(***************************************************************************)
(* One direction's token bucket (struct token_bucket) and the CPUs that    *)
(* charge heavy-hitter packets to it: consume_tokens and the EDT pacing    *)
(* clock of throttle_disposition.                                          *)
(*                                                                         *)
(* Both functions read the bucket, compute and write it back under         *)
(* bpf_spin_lock, so each critical section is two steps here: take the     *)
(* lock and load, then store and release.  bpf_ktime_get_ns is a helper    *)
(* call and must happen before the lock is taken: the reading a packet     *)
(* carries into the critical section may be older than the one the         *)
(* previous holder carried, by Skew.                                       *)
(*                                                                         *)
(* The fq qdisc below the egress hook holds a stamped packet until its     *)
(* departure time; it is not natra's code, and is reduced to the set of    *)
(* packets it still holds, each with its departure, its size and the       *)
(* number of its stamp, so that no two packets are one element.            *)
(***************************************************************************)
EXTENDS Integers, FiniteSets, FiniteSetsExt

CONSTANTS
  CPUs,         \* CPUs that run the program
  Lens,         \* the sizes of packets, skb->len
  Rate,         \* cfg->rate_bps: the refill takes it as bytes per second
  Burst,        \* cfg->burst_bytes
  Edt,          \* TRUE on egress with cfg->edt_pacing # 0
  Micro,        \* nanoseconds in the refill's first divisor: 1000
  PerSecond,    \* the refill's second divisor: 1 000 000
  PaceBits,     \* the pacing clock multiplies bytes by PaceBits: 8
  MaxEdtDelay,  \* MAX_EDT_DELAY_NS
  Word,         \* 2^64, where u64 arithmetic wraps
  Skew,         \* how old a packet's reading may be when it gets here
  MaxClock,     \* bound: the clock stops here
  MaxPackets,   \* bound: packets that reach the bucket
  None          \* no CPU

ASSUME BucketAssumption ==
  /\ Lens \subseteq Nat \ {0}
  /\ Rate \in Nat \ {0}
  /\ Burst \in Nat
  /\ Edt \in BOOLEAN
  /\ Micro \in Nat \ {0}
  /\ PerSecond \in Nat \ {0}
  /\ PaceBits \in Nat \ {0}
  /\ MaxEdtDelay \in Nat
  /\ Word \in Nat \ {0}
  /\ Skew \in Nat
  /\ MaxClock \in Nat
  /\ MaxPackets \in Nat
  /\ None \notin CPUs

VARIABLES
  clock,            \* nanoseconds of CLOCK_MONOTONIC
  tokens,           \* token_bucket.tokens
  last_update_ns,   \* token_bucket.last_update_ns
  next_release_ns,  \* token_bucket.next_release_ns
  lock,             \* token_bucket.lock: the CPU that holds it, or None
  pc,               \* where each CPU is in the program
  pkt,              \* the packet each CPU handles: len and now_ns
  reg,              \* what each CPU loaded in its critical section
  fq,               \* external: the packets the fq qdisc still holds
  stamped,          \* history: packets that were given a departure time
  packets,          \* history: packets that reached the bucket
  served,           \* history: bytes charged to the bucket
  mark              \* history: the open measurement window

bucket == <<tokens, last_update_ns, next_release_ns>>
vars == <<clock, bucket, lock, pc, pkt, reg, fq, stamped, packets, served, mark>>

----------------------------------------------------------------------------
(* The arithmetic of the two critical sections, in u64.                    *)

(* A reading that is not later than the last one counts as no time. *)
Elapsed(now, last) == IF now > last THEN now - last ELSE 0

(* Mutant of Added: rounds the refill up. *)
AddedRoundedUp(now, last) ==
  ((((Elapsed(now, last) \div Micro) * Rate) % Word) + PerSecond - 1) \div PerSecond

(* added = (elapsed_ns / 1000) * rate_bps / 1000000 *)
Added(now, last) == (((Elapsed(now, last) \div Micro) * Rate) % Word) \div PerSecond

(* Mutant of Refill: the ceiling is forgotten. *)
RefillUncapped(t, now, last) == (t + Added(now, last)) % Word

Refill(t, now, last) ==
  LET sum == (t + Added(now, last)) % Word
  IN  IF sum > Burst THEN Burst ELSE sum

(* Mutant of Later: a reading that is out of order takes the bucket back   *)
(* in time.                                                                *)
LaterOrEarlier(now, last) == now

Later(now, last) == IF now > last THEN now ELSE last

(* add_ns = (bytes * 8000) * 1000000 / rate_bps *)
AddNs(len) == ((len * PaceBits * Micro * PerSecond) % Word) \div Rate

(* Mutant of ReleaseAt: forgets the departure before. *)
ReleaseAlone(len, now, next) == (now + AddNs(len)) % Word

ReleaseAt(len, now, next) == (Later(now, next) + AddNs(len)) % Word

(* Mutant of DelayNs: microseconds are compared with a bound in nanoseconds. *)
DelayUs(release, now) == ((release - now) % Word) \div Micro

DelayNs(release, now) == (release - now) % Word

----------------------------------------------------------------------------
(* Configure leaves the bucket full, with both timestamps at 0; the        *)
(* program is attached afterwards, whatever the uptime of the node.        *)
Init ==
  /\ clock \in 0..MaxClock
  /\ tokens = Burst
  /\ last_update_ns = 0
  /\ next_release_ns = 0
  /\ lock = None
  /\ pc = [c \in CPUs |-> "idle"]
  /\ pkt = [c \in CPUs |-> [len |-> 0, now |-> 0]]
  /\ reg = [c \in CPUs |-> [tokens |-> 0, last |-> 0, next |-> 0]]
  /\ fq = {}
  /\ stamped = 0
  /\ packets = 0
  /\ served = 0
  /\ mark = [time |-> 0, served |-> 0]

Goto(c, from, to) ==
  /\ pc[c] = from
  /\ pc' = [pc EXCEPT ![c] = to]

Tick ==
  /\ clock < MaxClock
  /\ clock' = clock + 1
  /\ UNCHANGED <<bucket, lock, pc, pkt, reg, fq, stamped, packets, served, mark>>

(* The observer starts to measure. *)
OpenWindow ==
  /\ mark' = [time |-> last_update_ns, served |-> served]
  /\ UNCHANGED <<clock, bucket, lock, pc, pkt, reg, fq, stamped, packets, served>>

(* natra_classify found the flow of CPU c's packet heavy; it had read the  *)
(* clock, t, before it walked the sketch.                                  *)
Heavy(c, n, t) ==
  /\ packets < MaxPackets
  /\ Goto(c, "idle", "heavy")
  /\ pkt' = [pkt EXCEPT ![c] = [len |-> n, now |-> t]]
  /\ packets' = packets + 1
  /\ UNCHANGED <<clock, bucket, lock, reg, fq, stamped, served, mark>>

(* bpf_spin_lock, and the loads behind it. *)
LockAndLoad(c, from, to) ==
  /\ lock = None
  /\ lock' = c
  /\ reg' = [reg EXCEPT ![c] = [tokens |-> tokens,
                                last   |-> last_update_ns,
                                next   |-> next_release_ns]]
  /\ Goto(c, from, to)
  /\ UNCHANGED <<clock, bucket, pkt, fq, stamped, packets, served, mark>>

(* Mutant of Unlock: a path that returns with the lock held. *)
StayLocked(c) == lock = c /\ UNCHANGED lock

Unlock(c) ==
  /\ lock = c
  /\ lock' = None

LockConsume(c) == LockAndLoad(c, "heavy", "refill")

(* The rest of consume_tokens: refill, charge if the tokens cover the      *)
(* packet, store, unlock.                                                  *)
UnlockConsume(c) ==
  LET now  == pkt[c].now
      len  == pkt[c].len
      have == Refill(reg[c].tokens, now, reg[c].last)
  IN  /\ \/ /\ have >= len
            /\ Goto(c, "refill", "idle")
            /\ tokens' = have - len
            /\ served' = served + len
         \/ /\ have < len
            /\ Goto(c, "refill", "over")
            /\ tokens' = have
            /\ UNCHANGED served
      /\ last_update_ns' = Later(now, reg[c].last)
      /\ Unlock(c)
      /\ UNCHANGED <<clock, next_release_ns, pkt, reg, fq, stamped, packets, mark>>

LockPace(c) == Edt /\ LockAndLoad(c, "over", "pace")

(* The rest of the EDT branch of throttle_disposition: the clock advances  *)
(* whether or not the packet is stamped.                                   *)
UnlockPace(c) ==
  LET now == pkt[c].now
      at  == ReleaseAt(pkt[c].len, now, reg[c].next)
  IN  /\ next_release_ns' = at
      /\ \/ /\ DelayNs(at, now) <= MaxEdtDelay
            /\ Goto(c, "pace", "idle")
            /\ stamped' = stamped + 1
            /\ fq' = fq \union {[at |-> at, len |-> pkt[c].len, nth |-> stamped']}
         \/ /\ DelayNs(at, now) > MaxEdtDelay
            /\ Goto(c, "pace", "spill")
            /\ UNCHANGED <<fq, stamped>>
      /\ Unlock(c)
      /\ UNCHANGED <<clock, tokens, last_update_ns, pkt, reg, packets, served, mark>>

(* No EDT, or the delay would be too long: the packet is marked or         *)
(* dropped, which touches no state of the bucket.                          *)
MarkOrDrop(c) ==
  /\ \/ ~Edt /\ Goto(c, "over", "idle")
     \/ Goto(c, "spill", "idle")
  /\ UNCHANGED <<clock, bucket, lock, pkt, reg, fq, stamped, packets, served, mark>>

(* external: fq sends a packet whose departure time has come. *)
FqSend ==
  \E p \in fq :
    /\ p.at <= clock
    /\ fq' = fq \ {p}
    /\ UNCHANGED <<clock, bucket, lock, pc, pkt, reg, stamped, packets, served, mark>>

Step(c) ==
  \/ LockConsume(c) \/ UnlockConsume(c)
  \/ LockPace(c) \/ UnlockPace(c)
  \/ MarkOrDrop(c)

(* What a packet may have read: its CPU may lag behind, and the walk over  *)
(* the sketch takes its time.                                              *)
Readings == {t \in 0..clock : t + Skew >= clock}

Next ==
  \/ Tick
  \/ OpenWindow
  \/ FqSend
  \/ \E c \in CPUs :
       \/ \E n \in Lens, t \in Readings : Heavy(c, n, t)
       \/ Step(c)

(* A tc program never sleeps and bpf_spin_lock is a queued lock: a CPU     *)
(* that waits for it is served in its turn.  Time passes, and fq sends     *)
(* what is due.                                                            *)
Fairness ==
  /\ WF_vars(Tick)
  /\ WF_vars(FqSend)
  /\ \A c \in CPUs : SF_vars(Step(c))

Spec == Init /\ [][Next]_vars /\ Fairness

----------------------------------------------------------------------------
Control == {"idle", "heavy", "refill", "over", "pace", "spill"}

TypeOK ==
  /\ clock \in 0..MaxClock
  /\ tokens \in 0..Burst
  /\ last_update_ns \in Nat
  /\ next_release_ns \in Nat
  /\ lock \in CPUs \union {None}
  /\ pc \in [CPUs -> Control]
  /\ pkt \in [CPUs -> [len : Nat, now : Nat]]
  /\ reg \in [CPUs -> [tokens : Nat, last : Nat, next : Nat]]
  /\ fq \subseteq [at : Nat, len : Nat, nth : Nat]
  /\ stamped \in Nat
  /\ packets \in 0..MaxPackets
  /\ served \in Nat
  /\ mark \in [time : Nat, served : Nat]

(* Nanoseconds in the second that rate_bps is per. *)
Unit == Micro * PerSecond

(* The contract the bucket keeps: its tokens are the credit, as of the     *)
(* last update.                                                            *)
Contract == INSTANCE RateContract WITH
  Unit   <- Unit,
  Times  <- 0..MaxClock,
  credit <- tokens * Unit,
  time   <- last_update_ns

(* The bucket, raced over by CPUs whose clocks disagree, implements the    *)
(* contract: no interleaving, stale reading, rounding or overflow invents  *)
(* a byte of credit.                                                       *)
ImplementsContract == Contract!Spec

(* consume_tokens: over any window the bytes charged to the bucket stay    *)
(* within burst_bytes plus what rate_bps accrues over the window.          *)
RateCap == Contract!RateCap

(* The spin lock: a CPU inside either critical section is the holder, and  *)
(* what it loaded is still what the bucket contains.                       *)
HolderIsCurrent ==
  \A c \in CPUs :
    /\ pc[c] \in {"refill", "pace"} <=> lock = c
    /\ lock = c => reg[c] = [tokens |-> tokens,
                            last   |-> last_update_ns,
                            next   |-> next_release_ns]

(* The refill never reaches past the clock: nobody is paid for time that   *)
(* has not passed, even by a CPU that lags behind.                         *)
NoCreditFromTheFuture ==
  /\ last_update_ns <= clock
  /\ \A c \in CPUs : pkt[c].now <= clock

(* The books of the open window: what was served in it, and what could     *)
(* still be served at once, is covered by a full bucket and by the time    *)
(* since the window opened.                                                *)
WindowPaid ==
  /\ mark.time <= last_update_ns
  /\ mark.served <= served
  /\ ((served - mark.served) + tokens) * Unit
       <= Burst * Unit + Rate * (last_update_ns - mark.time)

IInv == TypeOK /\ HolderIsCurrent /\ NoCreditFromTheFuture /\ WindowPaid

(* throttle_disposition: a packet stamped behind another departs behind    *)
(* it, by the time that sending it takes at the pacing rate, whichever     *)
(* CPUs stamped the two: fq never holds two packets for the same slot.     *)
DeparturesSpaced ==
  \A p, q \in fq : p.nth < q.nth => q.at >= p.at + AddNs(q.len)

(* The packets fq holds back, and the nanoseconds that sending each takes. *)
Waiting  == {p \in fq : p.at > clock}
LineTime == UNION {{p} \X (1..AddNs(p.len)) : p \in Waiting}

(* MAX_EDT_DELAY_NS: the transmission time of the packets fq holds back is *)
(* at most the delay bound plus one packet.                                *)
QueueDepthBounded ==
  Waiting # {} =>
    Cardinality(LineTime) <= MaxEdtDelay + Max({AddNs(n) : n \in Lens})

(* natra.bpf.c says of EDT that "the bucket releases at exactly rate_bps": *)
(* a packet that leaves behind another is due when Rate has paid for it.   *)
PacedAtRate ==
  [][ \A c \in CPUs :
        UnlockPace(c) /\ pkt[c].now <= next_release_ns
          => (next_release_ns' - next_release_ns) * Rate
               <= pkt[c].len * Unit ]_vars

(* ARCHITECTURE.md says of sustained overload that most packets leave      *)
(* within the delay bound, and that the fall-through answers a queue that  *)
(* would overshoot: no packet small enough to be paced is refused pacing   *)
(* while fq is empty.                                                      *)
SpillsOnlyBehindAQueue ==
  \A c \in CPUs :
    pc[c] = "spill" /\ AddNs(pkt[c].len) <= MaxEdtDelay => fq # {}

=============================================================================
