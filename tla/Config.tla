------------------------------- MODULE Config -------------------------------
(***************************************************************************)
(* How the bandwidth settings of a pod become the rate, the burst and the  *)
(* heavy-hitter threshold of a direction: pkg/cni/config/config.go and     *)
(* resolveDirectionConfig of cmd/natra/main.go.  Two channels carry the    *)
(* settings, kubelet's runtimeConfig.bandwidth and the pod's annotations,  *)
(* both in bits; the cluster's defaults come with the conflist.  Numbers   *)
(* are int64, whose limit is a parameter.                                  *)
(***************************************************************************)
EXTENDS Integers

CONSTANTS
  MaxInt,        \* the largest int64
  Multipliers,   \* what the suffixes that suffixMultiplier knows stand for
  BitsPerByte,   \* 8
  Milli,         \* milliseconds in a second: 1000
  DefaultRatio,  \* DefaultBurstRatio, seconds of credit as a fraction
  MinBurst,      \* MinBurstBytes
  DefaultHH,     \* DefaultHHThresholdBytes
  MinHH,         \* minHHThresholdBytes
  TimeConst      \* defaultFastPassTimeConstantMs

Fraction == [num : Nat, den : Nat \ {0}]

ASSUME ConfigAssumption ==
  /\ MaxInt \in Nat
  /\ Multipliers \in SUBSET (Nat \ {0})
  /\ BitsPerByte \in Nat \ {0} /\ Milli \in Nat \ {0}
  /\ DefaultRatio \in Fraction /\ DefaultRatio.num <= DefaultRatio.den
  /\ MinBurst \in Nat /\ DefaultHH \in Nat /\ MinHH \in Nat /\ TimeConst \in Nat

Dirs == {"ingress", "egress"}
MinInt == -MaxInt - 1
Int64 == MinInt..MaxInt

(* Half of the range, so that a burst of twice a rate would not overflow. *)
MaxRate == MaxInt \div 2

(* What the arithmetic of int64 makes of a product. *)
Wrap(x) == ((x - MinInt) % (2 * (MaxInt + 1))) + MinInt

(* Division of Go: towards zero. *)
Quot(x, d) == IF x >= 0 THEN x \div d ELSE -((-x) \div d)

AtLeast(floor, x) == IF x < floor THEN floor ELSE x

(* A quantity is a number with the factor its suffix stands for: one that  *)
(* no suffix has if the text cannot be read.  Unset is the empty string of *)
(* the JSON form.                                                          *)
Quantity == [num : Nat, factor : Nat]
Unset    == [num |-> 0, factor |-> -1]

(* What an annotation holds; "none" also if there is none. *)
Annotation == [form : {"none", "simple", "json", "malformed"},
               rate : Quantity, burst : Quantity \cup {Unset}, hh : Int64]

(* Zero and the defaults of Go stand for a field that is absent. *)
Conf == [bandwidth : [Dirs -> [rate : Int64, burst : Int64]],
         annotation : [Dirs -> Annotation],
         ratio : [num : Int, den : Nat \ {0}], hh : Int64, timeConst : Int64]

Limit == [on : BOOLEAN, rate : Int, burst : Int, hh : Int]

DefaultConfig == [on |-> TRUE, rate |-> 0, burst |-> 0, hh |-> DefaultHH]

(* No config, or an error: the direction gets no program. *)
Off == [on |-> FALSE, rate |-> 0, burst |-> 0, hh |-> 0]

----------------------------------------------------------------------------
Unreadable == -1

(* Mutant of Fits: the number is compared without its suffix. *)
FitsAlone(q) == q.num <= MaxRate

Fits(q) == q.num <= MaxRate \div q.factor

(* parseBandwidth: also a number beyond the largest is refused. *)
ParseBandwidth(q) ==
  IF q.factor \in Multipliers /\ q.num <= MaxInt /\ Fits(q)
    THEN Wrap(q.num * q.factor)
    ELSE Unreadable

DefaultBurstFor(rate) ==
  AtLeast(MinBurst, (rate * DefaultRatio.num) \div DefaultRatio.den)

ParseSimple(a) ==
  LET bits == ParseBandwidth(a.rate)
      rate == Quot(bits, BitsPerByte)
  IN IF bits = Unreadable THEN Off
     ELSE [DefaultConfig EXCEPT !.rate = rate, !.burst = DefaultBurstFor(rate)]

(* The fields of the JSON form: a burst that is given is taken as it is. *)
ParseJSON(a) ==
  LET bits  == ParseBandwidth(a.rate)
      rate  == Quot(bits, BitsPerByte)
      burst == IF a.burst # Unset THEN ParseBandwidth(a.burst) ELSE 0
      hh    == IF a.hh > 0 THEN a.hh ELSE DefaultHH
  IN IF bits = Unreadable \/ burst = Unreadable THEN Off
     ELSE [on |-> TRUE, rate |-> rate, hh |-> hh,
           burst |-> IF a.burst # Unset THEN Quot(burst, BitsPerByte)
                     ELSE IF rate > 0 THEN DefaultBurstFor(rate) ELSE 0]

ParseAnnotation(a) ==
  CASE a.form = "none"      -> DefaultConfig
    [] a.form = "simple"    -> ParseSimple(a)
    [] a.form = "json"      -> ParseJSON(a)
    [] a.form = "malformed" -> Off

(* What no program can run with. *)
Validate(c) == c.rate >= 0 /\ c.burst >= 0 /\ c.hh >= 0

----------------------------------------------------------------------------
(* int64(float64(rate) * ratio): what a conversion out of range gives      *)
(* depends on the processor, the smallest or the largest number.           *)
Product(rate, ratio) ==
  LET p == (rate * ratio.num) \div ratio.den
  IN IF p <= MaxInt THEN {p} ELSE {MinInt, MaxInt}

(* The bursts that a ratio of the cluster may give. *)
ClusterBurst(rate, ratio) ==
  {AtLeast(MinBurst, b) : b \in Product(rate, ratio)}

BurstRatio(conf) == IF conf.ratio.num > 0 THEN conf.ratio ELSE DefaultRatio

(* Mutant of Floored: no floor under the threshold. *)
AsScaled(scaled) == scaled

Floored(scaled) == AtLeast(MinHH, scaled)

ResolveHHThreshold(conf, rate) ==
  LET tc == IF conf.timeConst > 0 THEN conf.timeConst ELSE TimeConst
  IN IF conf.hh > 0 THEN conf.hh ELSE Floored(Quot(Wrap(rate * tc), Milli))

(* kubelet's channel: a burst that is given is capped, and not floored. *)
FromRuntime(conf, bw) ==
  LET rate  == Quot(bw.rate, BitsPerByte)
      burst == Quot(bw.burst, BitsPerByte)
  IN {[on |-> TRUE, rate |-> rate, hh |-> ResolveHHThreshold(conf, rate),
       burst |-> IF burst <= 0 \/ burst > most THEN most ELSE burst] :
        most \in ClusterBurst(rate, BurstRatio(conf))}

(* The pod's own channel: the cluster's defaults replace what looks like   *)
(* the compiled ones.                                                      *)
FromAnnotation(conf, a) ==
  LET p == ParseAnnotation(a)
      hh == IF p.hh = DefaultHH THEN ResolveHHThreshold(conf, p.rate) ELSE p.hh
      bursts == IF conf.ratio.num > 0 /\ p.burst = DefaultBurstFor(p.rate)
                  THEN ClusterBurst(p.rate, BurstRatio(conf))
                  ELSE {p.burst}
  IN IF p.on /\ p.rate > 0
       THEN {[p EXCEPT !.hh = hh, !.burst = b] : b \in bursts}
       ELSE {Off}

(* resolveDirectionConfig: the results it may have. *)
Resolve(conf, d) ==
  IF conf.bandwidth[d].rate > 0
    THEN FromRuntime(conf, conf.bandwidth[d])
    ELSE FromAnnotation(conf, conf.annotation[d])

=============================================================================
