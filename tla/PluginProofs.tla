---------------------------- MODULE PluginProofs ----------------------------
(***************************************************************************)
(* What becomes of the settings of a pod, for numbers of any width, any    *)
(* defaults and any configuration; and what a call of the plugin answers,  *)
(* for any versions and any containers.                                    *)
(***************************************************************************)
EXTENDS Plugin, TLAPS

----------------------------------------------------------------------------
(* Arithmetic. *)
LEMMA DivNat ==
  ASSUME NEW a \in Nat, NEW b \in Nat \ {0}
  PROVE  /\ a \div b \in Nat /\ (a \div b) * b <= a /\ a < (a \div b) * b + b
         /\ a \div b <= a
  OBVIOUS

LEMMA DivInt ==
  ASSUME NEW a \in Int, NEW b \in Nat \ {0}
  PROVE  a \div b \in Int
  OBVIOUS

LEMMA DivSmall ==
  ASSUME NEW a \in Nat, NEW b \in Nat \ {0}
  PROVE  a \div b = 0 <=> a < b
<1>1. a < b => a \div b = 0
  OBVIOUS
<1>2. a \div b = 0 => a < b
  BY DivNat
<1> QED
  BY <1>1, <1>2

LEMMA ProductMonotone ==
  ASSUME NEW a \in Nat, NEW b \in Nat, NEW c \in Nat, a <= b
  PROVE  a * c \in Nat /\ a * c <= b * c
  OBVIOUS

(* To divide the bound is to multiply what is bounded. *)
LEMMA DivBound ==
  ASSUME NEW n \in Nat, NEW m \in Nat, NEW f \in Nat \ {0}
  PROVE  n <= m \div f <=> n * f <= m
<1> DEFINE q == m \div f
<1>1. q \in Nat /\ q * f <= m /\ m < q * f + f
  BY DivNat
<1> HIDE DEF q
<1>2. n <= q => n * f <= m
  BY <1>1, ProductMonotone
<1>3. ASSUME n > q PROVE n * f > m
  <2>1. q + 1 \in Nat /\ q + 1 <= n
    BY <1>1, <1>3
  <2>2. (q + 1) * f <= n * f
    BY <2>1, ProductMonotone
  <2>3. (q + 1) * f = q * f + f
    BY <1>1
  <2>4. n * f \in Int
    OBVIOUS
  <2> QED
    BY <1>1, <2>2, <2>3, <2>4
<1>4. n <= q \/ n > q
  BY <1>1
<1>5. n * f \in Int
  OBVIOUS
<1> QED
  BY <1>2, <1>3, <1>4, <1>5 DEF q

LEMMA ModSmall ==
  ASSUME NEW a \in Nat, NEW b \in Nat \ {0}, a < b
  PROVE  a % b = a
  OBVIOUS

(* What fits is not changed by the width of a number. *)
LEMMA WrapFits ==
  ASSUME NEW x \in 0..MaxInt
  PROVE  Wrap(x) = x
<1>1. MaxInt \in Nat
  BY ConfigAssumption
<1>2. x - MinInt \in Nat /\ x - MinInt < 2 * (MaxInt + 1) /\ 2 * (MaxInt + 1) \in Nat \ {0}
  BY <1>1 DEF MinInt
<1>3. (x - MinInt) % (2 * (MaxInt + 1)) = x - MinInt
  BY <1>2, ModSmall
<1> QED
  BY <1>1, <1>3 DEF Wrap, MinInt

LEMMA WrapInt ==
  ASSUME NEW x \in Int
  PROVE  Wrap(x) \in Int
<1>1. MaxInt \in Nat /\ x - MinInt \in Int
  BY ConfigAssumption DEF MinInt
<1>2. 2 * (MaxInt + 1) \in Nat \ {0}
  BY <1>1
<1>3. \A a \in Int, b \in Nat \ {0} : a % b \in Int
  OBVIOUS
<1>4. (x - MinInt) % (2 * (MaxInt + 1)) \in Int
  BY <1>1, <1>2, <1>3
<1> QED
  BY <1>1, <1>4 DEF Wrap, MinInt

LEMMA QuotIs ==
  ASSUME NEW x \in Int, NEW d \in Nat \ {0}
  PROVE  /\ Quot(x, d) \in Int
         /\ x >= 0 => Quot(x, d) = x \div d /\ Quot(x, d) >= 0
         /\ x <= 0 => Quot(x, d) <= 0
<1>1. CASE x >= 0
  <2>1. x \div d \in Nat /\ (x = 0 => x \div d = 0)
    BY <1>1, DivNat, DivSmall
  <2> QED
    BY <1>1, <2>1 DEF Quot
<1>2. CASE x < 0
  <2>1. (-x) \div d \in Nat
    BY <1>2, DivNat
  <2> QED
    BY <1>2, <2>1 DEF Quot
<1> QED
  BY <1>1, <1>2

LEMMA AtLeastIs ==
  ASSUME NEW a \in Int, NEW b \in Int
  PROVE  AtLeast(a, b) \in Int /\ AtLeast(a, b) >= a /\ AtLeast(a, b) >= b
  BY DEF AtLeast

----------------------------------------------------------------------------
(* parseBandwidth takes what is readable, and nothing else. *)
LEMMA ParseIs ==
  ASSUME NEW q \in Quantity
  PROVE  /\ Readable(q) => /\ ParseBandwidth(q) = q.num * q.factor
                           /\ ParseBandwidth(q) \in Nat
         /\ ~Readable(q) => ParseBandwidth(q) = Unreadable
<1>1. /\ MaxInt \in Nat /\ Multipliers \in SUBSET (Nat \ {0})
      /\ q.num \in Nat /\ q.factor \in Nat
  BY ConfigAssumption DEF Quantity
<1>2. MaxRate \in Nat /\ MaxRate <= MaxInt
  BY <1>1, DivNat DEF MaxRate
<1>3. CASE q.factor \in Multipliers
  <2>1. q.factor \in Nat \ {0} /\ q.num * q.factor \in Nat
    BY <1>1, <1>3
  <2>2. q.num <= MaxRate \div q.factor <=> q.num * q.factor <= MaxRate
    BY <1>1, <1>2, <2>1, DivBound
  <2>3. MaxRate \div q.factor <= MaxRate
    BY <1>2, <2>1, DivNat
  <2>4. q.num <= MaxRate \div q.factor => q.num <= MaxInt
    <3>1. MaxRate \div q.factor \in Nat
      BY <1>2, <2>1, DivNat
    <3> QED
      BY <1>1, <1>2, <2>3, <3>1
  <2>5. q.num * q.factor <= MaxRate => Wrap(q.num * q.factor) = q.num * q.factor
    <3> SUFFICES ASSUME q.num * q.factor <= MaxRate
                 PROVE  Wrap(q.num * q.factor) = q.num * q.factor
      OBVIOUS
    <3>1. q.num * q.factor \in 0..MaxInt
      BY <1>1, <1>2, <2>1
    <3> QED
      BY <3>1, WrapFits
  <2> QED
    BY <1>3, <2>1, <2>2, <2>4, <2>5 DEF ParseBandwidth, Readable, Fits
<1>4. CASE q.factor \notin Multipliers
  BY <1>4 DEF ParseBandwidth, Readable
<1> QED
  BY <1>3, <1>4

(* A burst that is given in a form that can be read. *)
Read(a) ==
  /\ a.form \in {"simple", "json"} /\ Readable(a.rate)
  /\ a.form = "json" => a.burst = Unset \/ Readable(a.burst)

Bits(a) == a.rate.num * a.rate.factor

LEMMA UnitsAre ==
  /\ BitsPerByte \in Nat \ {0} /\ Milli \in Nat \ {0} /\ MaxInt \in Nat
  /\ DefaultRatio.num \in Nat /\ DefaultRatio.den \in Nat \ {0}
  /\ MinBurst \in Nat /\ DefaultHH \in Nat /\ MinHH \in Nat /\ TimeConst \in Nat
  BY ConfigAssumption DEF Fraction

LEMMA DefaultBurstIs ==
  ASSUME NEW rate \in Nat
  PROVE  DefaultBurstFor(rate) \in Nat /\ DefaultBurstFor(rate) >= MinBurst
<1> DEFINE b == (rate * DefaultRatio.num) \div DefaultRatio.den
<1>1. rate * DefaultRatio.num \in Nat
  BY UnitsAre
<1>2. b \in Nat /\ MinBurst \in Nat
  BY <1>1, UnitsAre, DivNat
<1>3. DefaultBurstFor(rate) = AtLeast(MinBurst, b)
  BY DEF DefaultBurstFor
<1> HIDE DEF b
<1> QED
  BY <1>2, <1>3, AtLeastIs

(* ParseAnnotation: the rate that was written, if it can be read; a burst  *)
(* and a threshold that were not, by default.                              *)
LEMMA AnnotationIs ==
  ASSUME NEW a \in Annotation, NEW p, p = ParseAnnotation(a)
  PROVE  /\ p \in [on : BOOLEAN, rate : Nat, burst : Nat, hh : Nat]
         /\ Read(a) => p.on /\ Bits(a) \in Nat /\ p.rate = Bits(a) \div BitsPerByte
         /\ ~Read(a) => p.rate = 0
         /\ p.on /\ p.hh # DefaultHH => a.form = "json" /\ a.hh > 0
         /\ p.rate > 0 /\ ~(a.form = "json" /\ a.burst # Unset) =>
              p.burst = DefaultBurstFor(p.rate)
<1>t. /\ a.form \in {"none", "simple", "json", "malformed"}
      /\ a.rate \in Quantity /\ a.burst \in Quantity \cup {Unset} /\ a.hh \in Int
  BY UnitsAre DEF Annotation, Int64, MinInt
<1>1. CASE a.form = "none"
  <2>1. p = DefaultConfig /\ ~Read(a)
    BY <1>1 DEF ParseAnnotation, Read
  <2> QED
    BY <1>1, <2>1, UnitsAre DEF DefaultConfig
<1>2. CASE a.form = "malformed"
  <2>1. p = Off /\ ~Read(a)
    BY <1>2 DEF ParseAnnotation, Read
  <2> QED
    BY <1>2, <2>1 DEF Off
<1>3. CASE a.form = "simple"
  <2>1. p = ParseSimple(a)
    BY <1>3 DEF ParseAnnotation
  <2>2. Read(a) <=> Readable(a.rate)
    BY <1>3 DEF Read
  <2>3. CASE ~Readable(a.rate)
    <3>1. p = Off
      BY <1>t, <2>1, <2>3, ParseIs DEF ParseSimple
    <3> QED
      BY <1>3, <2>2, <2>3, <3>1 DEF Off
  <2>4. CASE Readable(a.rate)
    <3>1. ParseBandwidth(a.rate) = Bits(a) /\ Bits(a) \in Nat
      BY <1>t, <2>4, ParseIs DEF Bits
    <3>2. Bits(a) # Unreadable
      BY <3>1 DEF Unreadable
    <3>3. Quot(Bits(a), BitsPerByte) = Bits(a) \div BitsPerByte /\ Bits(a) \div BitsPerByte \in Nat
      BY <3>1, QuotIs, DivNat, UnitsAre
    <3>4. p = [DefaultConfig EXCEPT !.rate = Bits(a) \div BitsPerByte,
                                    !.burst = DefaultBurstFor(Bits(a) \div BitsPerByte)]
      BY <2>1, <3>1, <3>2, <3>3 DEF ParseSimple
    <3>5. DefaultBurstFor(Bits(a) \div BitsPerByte) \in Nat
      BY <3>3, DefaultBurstIs
    <3>6. /\ p.on = TRUE /\ p.rate = Bits(a) \div BitsPerByte /\ p.hh = DefaultHH
          /\ p.burst = DefaultBurstFor(Bits(a) \div BitsPerByte)
          /\ p \in [on : BOOLEAN, rate : Nat, burst : Nat, hh : Nat]
      BY <3>3, <3>4, <3>5, UnitsAre DEF DefaultConfig
    <3> QED
      BY <2>2, <2>4, <3>1, <3>6
  <2> QED
    BY <2>3, <2>4
<1>4. CASE a.form = "json"
  <2>1. p = ParseJSON(a)
    BY <1>4 DEF ParseAnnotation
  <2>2. Read(a) <=> Readable(a.rate) /\ (a.burst = Unset \/ Readable(a.burst))
    BY <1>4 DEF Read
  <2>3. CASE ~Read(a)
    <3>1. ParseBandwidth(a.rate) = Unreadable \/
            (a.burst # Unset /\ ParseBandwidth(a.burst) = Unreadable)
      BY <1>t, <2>2, <2>3, ParseIs
    <3>2. p = Off
      BY <2>1, <3>1 DEF ParseJSON
    <3> QED
      BY <1>4, <2>3, <3>2 DEF Off
  <2>4. CASE Read(a)
    <3>1. ParseBandwidth(a.rate) = Bits(a) /\ Bits(a) \in Nat
      BY <1>t, <2>2, <2>4, ParseIs DEF Bits
    <3>2. a.burst # Unset => ParseBandwidth(a.burst) \in Nat
      BY <1>t, <2>2, <2>4, ParseIs
    <3> DEFINE rate == Bits(a) \div BitsPerByte
               burst == IF a.burst # Unset THEN Quot(ParseBandwidth(a.burst), BitsPerByte)
                        ELSE IF rate > 0 THEN DefaultBurstFor(rate) ELSE 0
               hh == IF a.hh > 0 THEN a.hh ELSE DefaultHH
    <3>3. Quot(Bits(a), BitsPerByte) = rate /\ rate \in Nat
      BY <3>1, QuotIs, DivNat, UnitsAre
    <3>4. burst \in Nat
      <4>1. a.burst # Unset => Quot(ParseBandwidth(a.burst), BitsPerByte) \in Nat
        BY <3>2, QuotIs, UnitsAre
      <4> QED
        BY <3>3, <4>1, DefaultBurstIs
    <3>5. hh \in Nat
      BY <1>t, UnitsAre
    <3>6. Bits(a) # Unreadable /\ (a.burst # Unset => ParseBandwidth(a.burst) # Unreadable)
      BY <3>1, <3>2 DEF Unreadable
    <3>7. p = [on |-> TRUE, rate |-> rate, hh |-> hh, burst |-> burst]
      <4>1. 0 # Unreadable
        BY DEF Unreadable
      <4> QED
        BY <2>1, <3>1, <3>3, <3>6, <4>1 DEF ParseJSON
    <3>8. hh # DefaultHH => a.hh > 0
      OBVIOUS
    <3>9. rate > 0 /\ a.burst = Unset => burst = DefaultBurstFor(rate)
      OBVIOUS
    <3>10. p.rate = rate /\ p.hh = hh /\ p.burst = burst /\ p.on = TRUE
           /\ p \in [on : BOOLEAN, rate : Nat, burst : Nat, hh : Nat]
      <4> HIDE DEF rate, burst, hh
      <4> QED
        BY <3>3, <3>4, <3>5, <3>7
    <3> HIDE DEF burst, hh
    <3> QED
      BY <1>4, <2>4, <3>1, <3>8, <3>9, <3>10
  <2> QED
    BY <2>3, <2>4
<1> QED
  BY <1>t, <1>1, <1>2, <1>3, <1>4

----------------------------------------------------------------------------
(* What a ratio of the cluster gives lies between the floor and the exact  *)
(* product, also when the product is out of range.                         *)
LEMMA ClusterBurstIs ==
  ASSUME NEW rate \in Nat, NEW ratio \in [num : Int, den : Nat \ {0}], ratio.num >= 0,
         NEW b \in ClusterBurst(rate, ratio)
  PROVE  /\ b \in Nat /\ b >= MinBurst
         /\ b <= AtLeast(MinBurst, (rate * ratio.num) \div ratio.den)
<1> DEFINE p == (rate * ratio.num) \div ratio.den
<1>1. ratio.num \in Nat /\ ratio.den \in Nat \ {0} /\ rate * ratio.num \in Nat
  OBVIOUS
<1>2. p \in Nat /\ MaxInt \in Nat /\ MinBurst \in Nat
  BY <1>1, DivNat, UnitsAre
<1>3. Product(rate, ratio) = IF p <= MaxInt THEN {p} ELSE {MinInt, MaxInt}
  BY DEF Product
<1>4. PICK x \in Product(rate, ratio) : b = AtLeast(MinBurst, x)
  BY DEF ClusterBurst
<1> HIDE DEF p
<1>5. x \in Int /\ x <= p
  BY <1>2, <1>3, <1>4 DEF MinInt
<1>6. b \in Nat /\ b >= MinBurst /\ b <= AtLeast(MinBurst, p)
  BY <1>2, <1>4, <1>5 DEF AtLeast
<1> QED
  BY <1>6 DEF p

(* The threshold that nobody gave is floored, whatever the product is.     *)
LEMMA ThresholdIs ==
  ASSUME NEW conf \in Conf, NEW rate \in Nat
  PROVE  /\ ResolveHHThreshold(conf, rate) \in Nat
         /\ conf.hh <= 0 => ResolveHHThreshold(conf, rate) >= MinHH
<1> DEFINE tc == IF conf.timeConst > 0 THEN conf.timeConst ELSE TimeConst
           scaled == Quot(Wrap(rate * tc), Milli)
<1>1. conf.hh \in Int /\ conf.timeConst \in Int /\ TimeConst \in Nat /\ MinHH \in Nat
  BY UnitsAre DEF Conf, Int64, MinInt
<1>2. tc \in Nat
  BY <1>1
<1>3. rate * tc \in Int
  BY <1>2
<1>4. scaled \in Int
  <2> HIDE DEF tc
  <2> QED
    BY <1>3, WrapInt, QuotIs, UnitsAre
<1>5. ResolveHHThreshold(conf, rate) =
        IF conf.hh > 0 THEN conf.hh ELSE AtLeast(MinHH, scaled)
  BY DEF ResolveHHThreshold, Floored
<1> HIDE DEF tc, scaled
<1>6. AtLeast(MinHH, scaled) \in Nat /\ AtLeast(MinHH, scaled) >= MinHH
  BY <1>1, <1>4 DEF AtLeast
<1> HIDE DEF Conf
<1> QED
  BY <1>1, <1>5, <1>6

----------------------------------------------------------------------------
(* The two properties of a run, of one result for one configuration. *)
Faithful(conf, d, limit) ==
  /\ limit.on => limit.rate = BitsGiven(conf, d) \div BitsPerByte
  /\ ~limit.on => BitsGiven(conf, d) < BitsPerByte

Usable(conf, d, limit) ==
  /\ Validate(limit)
  /\ ~GivenBurst(conf, d) => limit.burst >= MinBurst
  /\ ~GivenHH(conf, d) => limit.hh >= MinHH
  /\ conf.bandwidth[d].rate > 0 \/ ~GivenBurst(conf, d) =>
       limit.burst <= AtLeast(MinBurst,
         (limit.rate * BurstRatio(conf).num) \div BurstRatio(conf).den)

LEMMA RatioIs ==
  ASSUME NEW conf \in Conf
  PROVE  /\ BurstRatio(conf) \in [num : Int, den : Nat \ {0}]
         /\ conf.ratio.num > 0 => BurstRatio(conf) = conf.ratio /\ BurstRatio(conf).num > 0
         /\ ~(conf.ratio.num > 0) => BurstRatio(conf) = DefaultRatio
         /\ BurstRatio(conf).num >= 0
<1>1. conf.ratio \in [num : Int, den : Nat \ {0}]
  BY DEF Conf
<1>2. DefaultRatio \in [num : Int, den : Nat \ {0}] /\ DefaultRatio.num >= 0
  BY ConfigAssumption DEF Fraction
<1>3. CASE conf.ratio.num > 0
  <2>1. BurstRatio(conf) = conf.ratio
    BY <1>3 DEF BurstRatio
  <2>2. conf.ratio.num >= 0
    BY <1>1, <1>3
  <2> QED
    BY <1>1, <1>3, <2>1, <2>2
<1>4. CASE ~(conf.ratio.num > 0)
  <2>1. BurstRatio(conf) = DefaultRatio
    BY <1>4 DEF BurstRatio
  <2> QED
    BY <1>2, <1>4, <2>1
<1> QED
  BY <1>3, <1>4

(* Bits in bytes, as Go divides them. *)
LEMMA BytesAre ==
  ASSUME NEW x \in Int
  PROVE  /\ Quot(x, BitsPerByte) \in Int
         /\ x > 0 => Quot(x, BitsPerByte) = x \div BitsPerByte /\ x \div BitsPerByte \in Nat
         /\ x < BitsPerByte => Quot(x, BitsPerByte) <= 0
<1>1. BitsPerByte \in Nat \ {0}
  BY UnitsAre
<1>2. Quot(x, BitsPerByte) \in Int /\ (x <= 0 => Quot(x, BitsPerByte) <= 0)
  BY <1>1, QuotIs
<1>3. CASE x > 0
  <2>1. x \in Nat /\ Quot(x, BitsPerByte) = x \div BitsPerByte
    BY <1>1, <1>3, QuotIs
  <2>2. x \div BitsPerByte \in Nat /\ (x < BitsPerByte => x \div BitsPerByte = 0)
    BY <1>1, <2>1, DivNat, DivSmall
  <2> QED
    BY <1>2, <2>1, <2>2
<1> QED
  BY <1>2, <1>3

(* kubelet's channel. *)
LEMMA RuntimeIs ==
  ASSUME NEW conf \in Conf, NEW d \in Dirs, conf.bandwidth[d].rate > 0,
         NEW limit \in FromRuntime(conf, conf.bandwidth[d])
  PROVE  limit \in Limit /\ Faithful(conf, d, limit) /\ Usable(conf, d, limit)
<1> DEFINE bw == conf.bandwidth[d]
           rate == Quot(bw.rate, BitsPerByte)
           asked == Quot(bw.burst, BitsPerByte)
           r == BurstRatio(conf)
<1>1. bw.rate \in Nat /\ bw.burst \in Int /\ bw.rate > 0
  BY UnitsAre DEF Conf, Int64, MinInt
<1>2. rate = bw.rate \div BitsPerByte /\ rate \in Nat
  <2> HIDE DEF bw
  <2> QED
    BY <1>1, BytesAre
<1>3. asked \in Int /\ (bw.burst < BitsPerByte => asked <= 0)
  <2> HIDE DEF bw
  <2> QED
    BY <1>1, BytesAre
<1>4. PICK most \in ClusterBurst(rate, r) :
        limit = [on |-> TRUE, rate |-> rate, hh |-> ResolveHHThreshold(conf, rate),
                 burst |-> IF asked <= 0 \/ asked > most THEN most ELSE asked]
  BY DEF FromRuntime
<1> HIDE DEF rate, asked, r
<1>5. /\ most \in Nat /\ most >= MinBurst
      /\ most <= AtLeast(MinBurst, (rate * r.num) \div r.den)
  BY <1>2, RatioIs, ClusterBurstIs DEF r
<1>6. /\ ResolveHHThreshold(conf, rate) \in Nat
      /\ conf.hh <= 0 => ResolveHHThreshold(conf, rate) >= MinHH
  BY <1>2, ThresholdIs
<1>7. /\ limit.on = TRUE /\ limit.rate = rate
      /\ limit.hh = ResolveHHThreshold(conf, rate)
      /\ limit.burst = IF asked <= 0 \/ asked > most THEN most ELSE asked
  BY <1>4
<1>8. limit.burst \in Nat /\ limit.burst <= most
      /\ (bw.burst < BitsPerByte => limit.burst = most)
  BY <1>3, <1>5, <1>7
<1>9. limit \in Limit
  <2>1. limit.burst \in Int /\ limit.hh \in Int /\ limit.rate \in Int
    BY <1>2, <1>6, <1>7, <1>8
  <2>2. limit = [on |-> TRUE, rate |-> limit.rate, hh |-> limit.hh, burst |-> limit.burst]
    BY <1>4, <1>7
  <2> QED
    BY <1>7, <2>1, <2>2 DEF Limit
<1>10. Faithful(conf, d, limit)
  BY <1>1, <1>2, <1>7 DEF Faithful, BitsGiven
<1>11. Usable(conf, d, limit)
  <2>1. Validate(limit)
    BY <1>2, <1>6, <1>7, <1>8 DEF Validate
  <2>2. ~GivenBurst(conf, d) => limit.burst >= MinBurst
    <3>1. ~GivenBurst(conf, d) => bw.burst < BitsPerByte
      BY <1>1, UnitsAre DEF GivenBurst
    <3> QED
      BY <1>5, <1>8, <3>1
  <2>3. ~GivenHH(conf, d) => limit.hh >= MinHH
    <3>1. ~GivenHH(conf, d) => conf.hh <= 0
      BY DEF GivenHH, Conf, Int64, MinInt
    <3> QED
      BY <1>6, <1>7, <3>1
  <2>4. limit.burst <= AtLeast(MinBurst, (limit.rate * r.num) \div r.den)
    <3>1. (rate * r.num) \div r.den \in Int
      <4>1. rate * r.num \in Int /\ r.den \in Nat \ {0}
        BY <1>2, RatioIs DEF r
      <4> QED
        BY <4>1, DivInt
    <3>2. AtLeast(MinBurst, (rate * r.num) \div r.den) \in Int
      BY <3>1, AtLeastIs, UnitsAre
    <3> QED
      BY <1>5, <1>7, <1>8, <3>2
  <2> QED
    BY <2>1, <2>2, <2>3, <2>4 DEF Usable, r
<1> QED
  BY <1>9, <1>10, <1>11

(* The pod's own channel. *)
LEMMA PodIs ==
  ASSUME NEW conf \in Conf, NEW d \in Dirs, ~(conf.bandwidth[d].rate > 0),
         NEW limit \in FromAnnotation(conf, conf.annotation[d])
  PROVE  limit \in Limit /\ Faithful(conf, d, limit) /\ (limit.on => Usable(conf, d, limit))
<1> DEFINE a == conf.annotation[d]
           p == ParseAnnotation(a)
           r == BurstRatio(conf)
           hh == IF p.hh = DefaultHH THEN ResolveHHThreshold(conf, p.rate) ELSE p.hh
           bursts == IF conf.ratio.num > 0 /\ p.burst = DefaultBurstFor(p.rate)
                       THEN ClusterBurst(p.rate, r) ELSE {p.burst}
<1>a. a \in Annotation
  BY DEF Conf
<1>1. /\ p \in [on : BOOLEAN, rate : Nat, burst : Nat, hh : Nat]
      /\ Read(a) => p.on /\ Bits(a) \in Nat /\ p.rate = Bits(a) \div BitsPerByte
      /\ ~Read(a) => p.rate = 0
      /\ p.on /\ p.hh # DefaultHH => a.form = "json" /\ a.hh > 0
      /\ p.rate > 0 /\ ~(a.form = "json" /\ a.burst # Unset) =>
           p.burst = DefaultBurstFor(p.rate)
  BY <1>a, AnnotationIs
<1>2. BitsGiven(conf, d) = IF Read(a) THEN Bits(a) ELSE 0
  BY DEF BitsGiven, Read, Bits
<1>3. GivenBurst(conf, d) <=> a.form = "json" /\ a.burst # Unset
  BY DEF GivenBurst
<1>4. GivenHH(conf, d) <=> conf.hh > 0 \/ (a.form = "json" /\ a.hh > 0)
  BY DEF GivenHH
<1>5. limit \in IF p.on /\ p.rate > 0
                  THEN {[p EXCEPT !.hh = hh, !.burst = b] : b \in bursts} ELSE {Off}
  BY DEF FromAnnotation
<1>6. conf.hh \in Int
  BY DEF Conf, Int64, MinInt
<1> HIDE DEF a, p, r, hh, bursts
<1>7. CASE ~(p.on /\ p.rate > 0)
  <2>1. limit = Off
    BY <1>5, <1>7
  <2>2. limit \in Limit /\ limit.on = FALSE /\ limit.rate = 0
        /\ limit.burst = 0 /\ limit.hh = 0
    BY <2>1 DEF Off, Limit
  <2>3. BitsGiven(conf, d) < BitsPerByte
    <3>1. CASE Read(a)
      <4>1. Bits(a) \in Nat /\ Bits(a) \div BitsPerByte = 0
        BY <1>1, <1>7, <3>1
      <4> QED
        BY <1>2, <3>1, <4>1, DivSmall, UnitsAre
    <3>2. CASE ~Read(a)
      BY <1>2, <3>2, UnitsAre
    <3> QED
      BY <3>1, <3>2
  <2> QED
    BY <2>2, <2>3 DEF Faithful
<1>8. CASE p.on /\ p.rate > 0
  <2>1. PICK b \in bursts : limit = [p EXCEPT !.hh = hh, !.burst = b]
    BY <1>5, <1>8
  <2>2. limit.on = TRUE /\ limit.rate = p.rate /\ limit.hh = hh /\ limit.burst = b
        /\ limit = [on |-> TRUE, rate |-> p.rate, hh |-> hh, burst |-> b]
    BY <1>1, <1>8, <2>1
  <2>3. Faithful(conf, d, limit)
    BY <1>1, <1>2, <1>8, <2>2 DEF Faithful
  <2>4. /\ hh \in Nat /\ (~GivenHH(conf, d) => hh >= MinHH)
    <3>1. /\ ResolveHHThreshold(conf, p.rate) \in Nat
          /\ conf.hh <= 0 => ResolveHHThreshold(conf, p.rate) >= MinHH
      BY <1>1, ThresholdIs
    <3>2. ~GivenHH(conf, d) => conf.hh <= 0 /\ p.hh = DefaultHH
      BY <1>1, <1>4, <1>6, <1>8
    <3> QED
      BY <1>1, <3>1, <3>2 DEF hh
  <2> DEFINE top == AtLeast(MinBurst, (p.rate * r.num) \div r.den)
  <2>5. /\ b \in Nat
        /\ ~GivenBurst(conf, d) => b >= MinBurst /\ b <= top
    <3>1. CASE conf.ratio.num > 0 /\ p.burst = DefaultBurstFor(p.rate)
      <4>1. b \in ClusterBurst(p.rate, r)
        BY <2>1, <3>1 DEF bursts
      <4>2. r \in [num : Int, den : Nat \ {0}] /\ r.num >= 0
        BY RatioIs DEF r
      <4> HIDE DEF top
      <4>3. b \in Nat /\ b >= MinBurst /\ b <= top
        BY <1>1, <4>1, <4>2, ClusterBurstIs DEF top
      <4> QED
        BY <4>3
    <3>2. CASE ~(conf.ratio.num > 0 /\ p.burst = DefaultBurstFor(p.rate))
      <4>1. b = p.burst
        BY <2>1, <3>2 DEF bursts
      <4>2. ASSUME ~GivenBurst(conf, d) PROVE b >= MinBurst /\ b <= top
        <5>1. b = DefaultBurstFor(p.rate)
          BY <1>1, <1>3, <1>8, <4>1, <4>2
        <5>2. r = DefaultRatio
          BY <3>2, <4>1, <5>1, RatioIs DEF r
        <5>3. b = top /\ b \in Int
          <6>1. b = top
            BY <5>1, <5>2 DEF DefaultBurstFor
          <6> HIDE DEF top
          <6> QED
            BY <1>1, <4>1, <6>1
        <5>4. b >= MinBurst
          BY <1>1, <5>1, DefaultBurstIs
        <5> HIDE DEF top
        <5> QED
          BY <5>3, <5>4
      <4> HIDE DEF top
      <4> QED
        BY <1>1, <4>1, <4>2
    <3> QED
      BY <3>1, <3>2
  <2>6. Usable(conf, d, limit)
    <3>1. Validate(limit)
      BY <1>1, <2>2, <2>4, <2>5 DEF Validate
    <3>2. ~GivenBurst(conf, d) => limit.burst <= AtLeast(MinBurst, (limit.rate * r.num) \div r.den)
      BY <2>2, <2>5
    <3> HIDE DEF top
    <3> QED
      BY <2>2, <2>4, <2>5, <3>1, <3>2 DEF Usable, r
  <2>7. limit \in Limit
    BY <1>1, <2>2, <2>4, <2>5 DEF Limit
  <2> QED
    BY <2>3, <2>6, <2>7
<1> QED
  BY <1>7, <1>8

(* Whatever comes out of a configuration is faithful and usable. *)
LEMMA ResolvedIs ==
  ASSUME NEW conf \in Conf, NEW d \in Dirs, NEW limit \in Resolve(conf, d)
  PROVE  limit \in Limit /\ Faithful(conf, d, limit) /\ (limit.on => Usable(conf, d, limit))
BY RuntimeIs, PodIs DEF Resolve

----------------------------------------------------------------------------
(* The process as the calls shape it. *)
Stages == {"none", "env", "stdin", "versions", "version", "exit"} \cup Serving

Process ==
  [at : Stages, env : Env, input : Input, version : Versions \cup {Junk},
   conf : SUBSET Confs, limits : [Dirs -> Limit], ns : {"host", "pod", ""},
   settings : {"ok", "bad"}, prev : {"none", "some", "bad"},
   fault : {"none", "tools", "stdout", "netns"},
   stdout : Seq({"error", "versions", "previous", "minimal"}), status : -1..1]

Shape ==
  /\ links \in SUBSET Containers /\ filters \in SUBSET Containers
  /\ proc \in Process

(* The limits of a call are those of the configuration it was given. *)
Resolved ==
  \A conf \in proc.conf, d \in Dirs : proc.limits[d] \in Resolve(conf, d)

(* How the answer to a call came about, of one that is over. *)
Answered ==
  /\ (proc.status = 0) <=> (Valid(proc) /\ Sound(proc))
  /\ proc.status = 0 => proc.stdout = Expected(proc)
  /\ proc.status = 1 /\ proc.fault # "tools" =>
       proc.stdout \in {<<"error">>} \cup
         (IF proc.fault = "netns" THEN {Append(Expected(proc), "error")} ELSE {})

(* What is known of a call at each stage: before the request is read that  *)
(* nothing went wrong; when it is served that it is valid, and which       *)
(* command it is; from the result on what stands on stdout.                *)
Silent == {"env", "stdin", "versions", "version", "add", "attach", "result", "del"}

Staged ==
  /\ proc.at = "none" => proc = NoProcess
  /\ proc.at \in Silent \cup {"netns", "answered"} =>
       /\ proc.settings = "ok" /\ proc.fault = "none" /\ proc.input = "ok"
       /\ proc.prev # "bad"
  /\ proc.at \in Silent => proc.stdout = <<>> /\ proc.prev = "none"
  /\ proc.at = "versions" => proc.env.cmd = "VERSION"
  /\ proc.at \in {"stdin", "version"} =>
       proc.env.cmd \notin {"", "VERSION"} /\ ~EnvRefused(proc.env)
  /\ proc.at = "version" => proc.env.cmd # "other"
  /\ proc.at \in Serving => Valid(proc)
  /\ proc.at \in {"add", "attach", "result"} => proc.env.cmd = "ADD"
  /\ proc.at = "del" => proc.env.cmd = "DEL"
  /\ proc.at = "netns" => proc.env.cmd \in {"ADD", "DEL"}
  /\ proc.at = "answered" =>
       /\ proc.env.cmd \in {"ADD", "DEL", "CHECK", "GC", "STATUS"}
       /\ proc.env.cmd \in {"ADD", "DEL"} => proc.env.netns # "own" \/ proc.env.override
  /\ proc.at \in {"netns", "answered"} => proc.stdout = Expected(proc)
  /\ proc.at = "exit" => Answered

IInv == Shape /\ Resolved /\ Staged

LEMMA InitHolds == Init => IInv
<1> SUFFICES ASSUME Init PROVE IInv
  OBVIOUS
<1>1. NoEnv \in Env
  BY DEF NoEnv, Env, Commands
<1>2. Off \in Limit
  BY DEF Off, Limit
<1>3. NoProcess \in Process
  BY <1>1, <1>2 DEF NoProcess, Process, Stages, Input, Serving
<1>4. NoProcess.conf = {} /\ NoProcess.at = "none"
  BY DEF NoProcess
<1> QED
  BY <1>3, <1>4 DEF Init, IInv, Shape, Resolved, Staged, Silent, Serving

(* Whether a request is valid is seen from what was read of it. *)
LEMMA SameRequest ==
  ASSUME NEW p, NEW q, p.env = q.env, p.input = q.input, p.version = q.version
  PROVE  Valid(p) <=> Valid(q)
BY DEF Valid

(* One error on a stdout that was silent. *)
LEMMA ErrorAlone == Append(<<>>, "error") = <<"error">>
OBVIOUS

LEMMA ErrorAfter ==
  ASSUME NEW s \in Seq({"error", "versions", "previous", "minimal"})
  PROVE  Append(s, "error") \in Seq({"error", "versions", "previous", "minimal"})
OBVIOUS

(* How a call ends, whatever it has come to. *)
SameCall(p, q) ==
  /\ p.env = q.env /\ p.input = q.input /\ p.version = q.version
  /\ p.conf = q.conf /\ p.limits = q.limits /\ p.ns = q.ns
  /\ p.settings = q.settings /\ p.prev = q.prev /\ p.fault = q.fault

LEMMA ExitIs ==
  ASSUME NEW p \in Process, NEW s \in -1..1, NEW e, e = Exit(p, s)
  PROVE  /\ e \in Process /\ SameCall(e, p)
         /\ e.at = "exit" /\ e.status = s /\ e.stdout = p.stdout
<1>1. "exit" \in Stages
  BY DEF Stages
<1> QED
  BY <1>1 DEF Exit, Process, SameCall

LEMMA FailIs ==
  ASSUME NEW p \in Process, NEW e, e = Fail(p)
  PROVE  /\ e \in Process /\ SameCall(e, p)
         /\ e.at = "exit" /\ e.status = 1 /\ e.stdout = Append(p.stdout, "error")
<1> DEFINE q == [p EXCEPT !.stdout = Append(@, "error")]
<1>1. Append(p.stdout, "error") \in Seq({"error", "versions", "previous", "minimal"})
  BY ErrorAfter DEF Process
<1>2. q \in Process /\ SameCall(q, p) /\ q.stdout = Append(p.stdout, "error")
  BY <1>1 DEF Process, SameCall
<1>3. e = Exit(q, 1) /\ 1 \in -1..1
  BY DEF Fail
<1> HIDE DEF q
<1>4. /\ e \in Process /\ SameCall(e, q)
      /\ e.at = "exit" /\ e.status = 1 /\ e.stdout = q.stdout
  BY <1>2, <1>3, ExitIs
<1> QED
  BY <1>2, <1>4 DEF SameCall

(* A call that fails before anything was printed. *)
LEMMA FailsSilently ==
  ASSUME NEW p \in Process, p.stdout = <<>>,
         ~(Valid(p) /\ Sound(p)),
         \A conf \in p.conf, d \in Dirs : p.limits[d] \in Resolve(conf, d),
         proc' = Fail(p), UNCHANGED <<links, filters>>, Shape
  PROVE  IInv'
<1>1. /\ proc' \in Process /\ SameCall(proc', p)
      /\ proc'.at = "exit" /\ proc'.status = 1 /\ proc'.stdout = Append(p.stdout, "error")
  BY FailIs
<1>2. /\ proc' \in Process /\ proc'.at = "exit" /\ proc'.status = 1
      /\ proc'.stdout = Append(p.stdout, "error")
      /\ proc'.conf = p.conf /\ proc'.limits = p.limits
      /\ proc'.env = p.env /\ proc'.input = p.input /\ proc'.version = p.version
      /\ proc'.settings = p.settings /\ proc'.prev = p.prev /\ proc'.fault = p.fault
  BY <1>1 DEF SameCall
<1>3. proc'.stdout = <<"error">>
  BY <1>2, ErrorAlone
<1>4. Valid(proc') <=> Valid(p)
  BY <1>2, SameRequest
<1>5. Sound(proc') <=> Sound(p)
  BY <1>2 DEF Sound
<1>6. Answered'
  BY <1>2, <1>3, <1>4, <1>5 DEF Answered
<1>7. Staged'
  BY <1>2, <1>6 DEF Staged, Silent, Serving
<1>8. Resolved'
  BY <1>2 DEF Resolved
<1> QED
  BY <1>2, <1>7, <1>8 DEF IInv, Shape

(* A call that ends with success. *)
LEMMA Succeeds ==
  ASSUME NEW p \in Process, p.stdout = Expected(p), Valid(p), Sound(p),
         \A conf \in p.conf, d \in Dirs : p.limits[d] \in Resolve(conf, d),
         proc' = Exit(p, 0), UNCHANGED <<links, filters>>, Shape
  PROVE  IInv'
<1>1. /\ proc' \in Process /\ SameCall(proc', p)
      /\ proc'.at = "exit" /\ proc'.status = 0 /\ proc'.stdout = p.stdout
  <2>1. 0 \in -1..1
    OBVIOUS
  <2> QED
    BY <2>1, ExitIs
<1>2. /\ proc' \in Process /\ proc'.at = "exit" /\ proc'.status = 0
      /\ proc'.stdout = p.stdout
      /\ proc'.conf = p.conf /\ proc'.limits = p.limits
      /\ proc'.env = p.env /\ proc'.input = p.input /\ proc'.version = p.version
      /\ proc'.settings = p.settings /\ proc'.prev = p.prev /\ proc'.fault = p.fault
  BY <1>1 DEF SameCall
<1>3. Valid(proc') <=> Valid(p)
  BY <1>2, SameRequest
<1>4. (Sound(proc') <=> Sound(p)) /\ Expected(proc') = Expected(p)
  BY <1>2 DEF Sound, Expected
<1>5. Answered'
  BY <1>2, <1>3, <1>4 DEF Answered
<1>6. Staged'
  BY <1>2, <1>5 DEF Staged, Silent, Serving
<1>7. Resolved'
  BY <1>2 DEF Resolved
<1> QED
  BY <1>2, <1>6, <1>7 DEF IInv, Shape

----------------------------------------------------------------------------
(* The request: nothing is served before all of it was found valid. *)
LEMMA ToolsKeep ==
  ASSUME IInv, ExecTools PROVE IInv'
<1> DEFINE p == [proc EXCEPT !.fault = "tools"]
<1>1. p \in Process /\ p.fault = "tools" /\ p.conf = proc.conf /\ p.limits = proc.limits
  BY DEF IInv, Shape, Process
<1>2. proc' = Exit(p, 1) /\ UNCHANGED <<links, filters>> /\ 1 \in -1..1
  BY DEF ExecTools, Step
<1> HIDE DEF p
<1>3. /\ proc' \in Process /\ SameCall(proc', p)
      /\ proc'.at = "exit" /\ proc'.status = 1
  BY <1>1, <1>2, ExitIs
<1>4. proc'.fault = "tools" /\ proc'.conf = proc.conf /\ proc'.limits = proc.limits
  BY <1>1, <1>3 DEF SameCall
<1>5. Answered'
  BY <1>3, <1>4 DEF Answered, Sound
<1> QED
  BY <1>2, <1>3, <1>4, <1>5 DEF IInv, Shape, Resolved, Staged, Silent, Serving

LEMMA StartKeeps ==
  ASSUME IInv, NEW env \in Env, Start(env) PROVE IInv'
<1>1. proc = NoProcess /\ proc \in Process
  BY DEF Start, IInv, Staged, Shape
<1>2. proc' = [proc EXCEPT !.at = "env", !.env = env] /\ UNCHANGED <<links, filters>>
  BY DEF Start, Step
<1>3. /\ proc'.at = "env" /\ proc'.stdout = <<>> /\ proc'.prev = "none"
      /\ proc'.settings = "ok" /\ proc'.fault = "none" /\ proc'.input = "ok"
      /\ proc'.conf = {}
  BY <1>1, <1>2 DEF NoProcess
<1>4. proc' \in Process
  BY <1>1, <1>2 DEF Process, Stages
<1> QED
  BY <1>2, <1>3, <1>4 DEF IInv, Shape, Resolved, Staged, Silent, Serving

(* A variable that is refused makes the request invalid. *)
LEMMA RefusedIsInvalid ==
  ASSUME NEW p \in Process, p.env.cmd # "", EnvRefused(p.env)
  PROVE  ~Valid(p)
<1>1. PICK v \in Required(p.env.cmd) : p.env[v] \in {"", "bad"}
  BY DEF EnvRefused
<1>2. p.env \in Env
  BY DEF Process
<1>3. {"", "bad"} \cap Containers = {}
  BY PluginAssumption
<1>4. CASE p.env.cmd \in {"ADD", "CHECK"}
  <2>1. v \in {"id", "netns", "ifname", "path"}
    BY <1>1, <1>4 DEF Required
  <2>2. p.env.netns # "bad" /\ p.env.path # "bad"
    BY <1>2 DEF Env
  <2> QED
    BY <1>1, <1>3, <1>4, <2>1, <2>2 DEF Valid, Commands
<1>5. CASE p.env.cmd = "DEL"
  <2>1. v \in {"id", "ifname", "path"}
    BY <1>1, <1>5 DEF Required
  <2>2. p.env.path # "bad"
    BY <1>2 DEF Env
  <2> QED
    BY <1>1, <1>3, <1>5, <2>1, <2>2 DEF Valid, Commands
<1>6. CASE p.env.cmd \in {"GC", "STATUS"}
  <2>1. v = "path"
    BY <1>1, <1>6 DEF Required
  <2>2. p.env.path # "bad"
    BY <1>2 DEF Env
  <2> QED
    BY <1>1, <1>6, <2>1, <2>2 DEF Valid, Commands
<1>7. CASE p.env.cmd \notin {"ADD", "CHECK", "DEL", "GC", "STATUS"}
  BY <1>1, <1>7 DEF Required
<1> QED
  BY <1>4, <1>5, <1>6, <1>7

(* One that is not makes it valid as far as the environment goes. *)
LEMMA EnvIsValid ==
  ASSUME NEW env \in Env, ~EnvRefused(env)
  PROVE  /\ env.cmd \in {"ADD", "DEL", "CHECK"} =>
              env.id \in Containers /\ env.ifname = "ok"
         /\ env.cmd \in {"ADD", "CHECK"} => env.netns # ""
         /\ env.cmd \in {"ADD", "DEL", "CHECK", "GC", "STATUS"} => env.path = "ok"
<1>1. \A v \in Required(env.cmd) : env[v] \notin {"", "bad"}
  BY DEF EnvRefused
<1>2. env.id \in Containers \cup {"", "bad"} /\ env.ifname \in {"ok", "", "bad"}
      /\ env.path \in {"ok", ""}
  BY DEF Env
<1>3. env.cmd \in {"ADD", "CHECK"} => Required(env.cmd) = {"id", "netns", "ifname", "path"}
  BY DEF Required
<1>4. env.cmd = "DEL" => Required(env.cmd) = {"id", "ifname", "path"}
  BY DEF Required
<1>5. env.cmd \in {"GC", "STATUS"} => Required(env.cmd) = {"path"}
  BY DEF Required
<1> QED
  BY <1>1, <1>2, <1>3, <1>4, <1>5

LEMMA ReadEnvKeeps ==
  ASSUME IInv, ReadEnv PROVE IInv'
<1>1. /\ proc \in Process /\ Shape /\ proc.at = "env" /\ UNCHANGED <<links, filters>>
      /\ proc.settings = "ok" /\ proc.fault = "none" /\ proc.input = "ok"
      /\ proc.stdout = <<>> /\ proc.prev = "none"
      /\ \A conf \in proc.conf, d \in Dirs : proc.limits[d] \in Resolve(conf, d)
  BY DEF IInv, Shape, Resolved, Staged, Silent, ReadEnv, Step
<1>2. CASE proc.env.cmd = "" /\ proc' = Exit(proc, 0)
  <2>1. Valid(proc) /\ Sound(proc) /\ Expected(proc) = <<>>
    BY <1>1, <1>2 DEF Valid, Sound, Expected, Commands
  <2> QED
    BY <1>1, <1>2, <2>1, Succeeds
<1>3. CASE proc.env.cmd # "" /\ EnvRefused(proc.env) /\ proc' = Fail(proc)
  BY <1>1, <1>3, RefusedIsInvalid, FailsSilently
<1>4. CASE /\ proc.env.cmd # "" /\ ~EnvRefused(proc.env)
           /\ proc' = [proc EXCEPT !.at = IF proc.env.cmd = "VERSION" THEN "versions"
                                                                      ELSE "stdin"]
  <2>1. proc' \in Process
    BY <1>1, <1>4 DEF Process, Stages
  <2>2. /\ proc'.at = IF proc.env.cmd = "VERSION" THEN "versions" ELSE "stdin"
        /\ proc'.env = proc.env /\ proc'.settings = "ok" /\ proc'.fault = "none"
        /\ proc'.input = "ok" /\ proc'.stdout = <<>> /\ proc'.prev = "none"
        /\ proc'.conf = proc.conf /\ proc'.limits = proc.limits
    BY <1>1, <1>4 DEF Process
  <2>3. ~EnvRefused(proc'.env) /\ proc'.env.cmd # ""
    BY <1>4, <2>2
  <2>4. Staged'
    <3>1. CASE proc.env.cmd = "VERSION"
      BY <2>2, <3>1 DEF Staged, Silent, Serving
    <3>2. CASE proc.env.cmd # "VERSION"
      <4>1. proc'.at = "stdin" /\ proc'.env.cmd \notin {"", "VERSION"}
        BY <2>2, <2>3, <3>2
      <4> QED
        BY <2>2, <2>3, <4>1 DEF Staged, Silent, Serving
    <3> QED
      BY <3>1, <3>2
  <2> QED
    BY <1>1, <2>1, <2>2, <2>4 DEF IInv, Shape, Resolved
<1> QED
  BY <1>1, <1>2, <1>3, <1>4 DEF ReadEnv, Step

LEMMA ReadStdinKeeps ==
  ASSUME IInv, ReadStdin PROVE IInv'
<1>1. /\ proc \in Process /\ Shape /\ proc.at = "stdin" /\ UNCHANGED <<links, filters>>
      /\ proc.settings = "ok" /\ proc.fault = "none" /\ proc.input = "ok"
      /\ proc.stdout = <<>> /\ proc.prev = "none"
      /\ proc.env.cmd \notin {"", "VERSION"} /\ ~EnvRefused(proc.env)
      /\ \A conf \in proc.conf, d \in Dirs : proc.limits[d] \in Resolve(conf, d)
  BY DEF IInv, Shape, Resolved, Staged, Silent, ReadStdin, Step
<1>2. proc.env.cmd \in (Commands \cup {"other"}) \ {"VERSION"}
  BY <1>1 DEF Process, Env
<1>3. ASSUME NEW input \in Input \ {"ok"},
             proc' = Fail([proc EXCEPT !.input = input])
      PROVE  IInv'
  <2> DEFINE p == [proc EXCEPT !.input = input]
  <2>1. /\ p \in Process /\ p.env = proc.env /\ p.input # "ok" /\ p.stdout = <<>>
        /\ p.conf = proc.conf /\ p.limits = proc.limits
    BY <1>1 DEF Process
  <2>2. proc' = Fail(p)
    BY <1>3
  <2> HIDE DEF p
  <2>3. ~Valid(p)
    BY <1>2, <2>1 DEF Valid
  <2> QED
    BY <1>1, <2>1, <2>2, <2>3, FailsSilently
<1>4. CASE proc.env.cmd = "other" /\ proc' = Fail(proc)
  <2>1. ~Valid(proc)
    BY <1>4 DEF Valid
  <2> QED
    BY <1>1, <1>4, <2>1, FailsSilently
<1>5. ASSUME proc.env.cmd # "other", NEW v \in Versions,
             proc' = [proc EXCEPT !.at = "version", !.version = v]
      PROVE  IInv'
  <2>1. proc' \in Process
    BY <1>1, <1>5 DEF Process, Stages
  <2>2. /\ proc'.at = "version" /\ proc'.env = proc.env
        /\ proc'.settings = "ok" /\ proc'.fault = "none"
        /\ proc'.input = "ok" /\ proc'.stdout = <<>> /\ proc'.prev = "none"
        /\ proc'.conf = proc.conf /\ proc'.limits = proc.limits
    BY <1>1, <1>5 DEF Process
  <2>3. ~EnvRefused(proc'.env) /\ proc'.env.cmd \notin {"", "VERSION", "other"}
    BY <1>1, <1>5, <2>2
  <2>4. Staged'
    BY <2>2, <2>3 DEF Staged, Silent, Serving
  <2> QED
    BY <1>1, <2>1, <2>2, <2>4 DEF IInv, Shape, Resolved
<1> QED
  BY <1>1, <1>3, <1>4, <1>5 DEF ReadStdin, Step

LEMMA PrintVersionsKeeps ==
  ASSUME IInv, PrintVersions PROVE IInv'
<1>1. /\ proc \in Process /\ Shape /\ proc.at = "versions" /\ UNCHANGED <<links, filters>>
      /\ proc.settings = "ok" /\ proc.fault = "none"
      /\ proc.stdout = <<>> /\ proc.prev = "none" /\ proc.env.cmd = "VERSION"
      /\ \A conf \in proc.conf, d \in Dirs : proc.limits[d] \in Resolve(conf, d)
  BY DEF IInv, Shape, Resolved, Staged, Silent, PrintVersions, Step
<1>2. CASE proc' = Exit([proc EXCEPT !.stdout = <<"versions">>], 0)
  <2> DEFINE p == [proc EXCEPT !.stdout = <<"versions">>]
  <2>1. /\ p \in Process /\ p.env = proc.env /\ p.stdout = <<"versions">>
        /\ p.conf = proc.conf /\ p.limits = proc.limits /\ p.settings = "ok"
        /\ p.fault = "none" /\ p.prev = "none"
    <3>1. <<"versions">> \in Seq({"error", "versions", "previous", "minimal"})
      OBVIOUS
    <3> QED
      BY <1>1, <3>1 DEF Process
  <2>2. proc' = Exit(p, 0)
    BY <1>2
  <2> HIDE DEF p
  <2>3. Valid(p) /\ Sound(p) /\ Expected(p) = <<"versions">>
    BY <1>1, <2>1 DEF Valid, Sound, Expected
  <2> QED
    BY <1>1, <2>1, <2>2, <2>3, Succeeds
<1>3. CASE proc' = Fail([proc EXCEPT !.fault = "stdout"])
  <2> DEFINE p == [proc EXCEPT !.fault = "stdout"]
  <2>1. /\ p \in Process /\ p.fault = "stdout" /\ p.stdout = <<>>
        /\ p.conf = proc.conf /\ p.limits = proc.limits
    BY <1>1 DEF Process
  <2>2. proc' = Fail(p)
    BY <1>3
  <2> HIDE DEF p
  <2>3. ~Sound(p)
    BY <2>1 DEF Sound
  <2> QED
    BY <1>1, <2>1, <2>2, <2>3, FailsSilently
<1> QED
  BY <1>2, <1>3 DEF PrintVersions, Step

(* The gate and the lookup let exactly the versions of a command pass. *)
LEMMA ServedIsValid ==
  ASSUME NEW p \in Process, p.env.cmd \in {"ADD", "DEL", "CHECK", "GC", "STATUS"},
         ~EnvRefused(p.env), p.input = "ok"
  PROVE  Valid(p) <=> ~Gated(p.env.cmd, p.version) /\ Known(p.env.cmd, p.version)
<1> DEFINE cmd == p.env.cmd
           v == p.version
<1>1. /\ Supported \subseteq Nat /\ CheckSince \in Nat /\ GCSince \in Nat
      /\ Junk \notin Nat /\ v \in Nat \cup {Junk}
  BY PluginAssumption DEF Process
<1>2. p.env \in Env
  BY DEF Process
<1>3. Valid(p) <=> /\ v \in Supported
                   /\ cmd = "CHECK" => v >= CheckSince
                   /\ cmd \in {"GC", "STATUS"} => v >= GCSince
  BY <1>2, EnvIsValid DEF Valid, Commands
<1>4. Since(cmd) \in Nat /\ Since(cmd) = IF cmd = "CHECK" THEN CheckSince
                                         ELSE IF cmd \in {"GC", "STATUS"} THEN GCSince ELSE 0
  BY <1>1 DEF Since
<1>5. Valid(p) <=> v \in Supported /\ v >= Since(cmd)
  <2> HIDE DEF cmd, v
  <2>1. v \in Supported => v \in Nat
    BY <1>1
  <2> QED
    BY <1>1, <1>3, <1>4, <2>1
<1>6. ~Gated(cmd, v) <=> ~(Since(cmd) > 0) \/ ~(v = Junk \/ v < Since(cmd))
  BY DEF Gated
<1>7. v \in Supported => v \in Nat /\ v # Junk /\ (\E s \in Supported : s >= v)
  <2> HIDE DEF v
  <2> QED
    BY <1>1
<1>8. Known(cmd, v) <=> v \in Supported
  BY <1>7 DEF Known
<1> HIDE DEF cmd, v
<1>9. v \in Supported => (v >= Since(cmd) <=> ~(v < Since(cmd)))
  BY <1>4, <1>7
<1> QED
  BY <1>4, <1>5, <1>6, <1>7, <1>8, <1>9 DEF cmd, v

LEMMA CheckVersionKeeps ==
  ASSUME IInv, CheckVersion PROVE IInv'
<1>1. /\ proc \in Process /\ Shape /\ proc.at = "version" /\ UNCHANGED <<links, filters>>
      /\ proc.settings = "ok" /\ proc.fault = "none" /\ proc.input = "ok"
      /\ proc.stdout = <<>> /\ proc.prev = "none"
      /\ proc.env.cmd \notin {"", "VERSION", "other"} /\ ~EnvRefused(proc.env)
      /\ \A conf \in proc.conf, d \in Dirs : proc.limits[d] \in Resolve(conf, d)
  BY DEF IInv, Shape, Resolved, Staged, Silent, CheckVersion, Step
<1>2. proc.env.cmd \in {"ADD", "DEL", "CHECK", "GC", "STATUS"}
  BY <1>1 DEF Process, Env, Commands
<1>3. CASE ~Valid(proc) /\ proc' = Fail(proc)
  BY <1>1, <1>3, FailsSilently
<1>4. CASE Valid(proc) /\ proc' = [proc EXCEPT !.at = Call(proc.env.cmd)]
  <2>1. Call(proc.env.cmd) = IF proc.env.cmd = "ADD" THEN "add"
                             ELSE IF proc.env.cmd = "DEL" THEN "del" ELSE "answered"
    BY DEF Call
  <2>2. proc' \in Process
    BY <1>1, <1>4, <2>1 DEF Process, Stages, Serving
  <2>3. /\ proc'.at = Call(proc.env.cmd) /\ proc'.env = proc.env
        /\ proc'.settings = "ok" /\ proc'.fault = "none" /\ proc'.version = proc.version
        /\ proc'.input = "ok" /\ proc'.stdout = <<>> /\ proc'.prev = "none"
        /\ proc'.conf = proc.conf /\ proc'.limits = proc.limits
    BY <1>1, <1>4 DEF Process
  <2>4. Valid(proc')
    BY <1>1, <1>4, <2>3, SameRequest
  <2>5. Staged'
    <3>1. CASE proc.env.cmd = "ADD"
      BY <2>1, <2>3, <2>4, <3>1 DEF Staged, Silent, Serving
    <3>2. CASE proc.env.cmd = "DEL"
      BY <2>1, <2>3, <2>4, <3>2 DEF Staged, Silent, Serving
    <3>3. CASE proc.env.cmd \in {"CHECK", "GC", "STATUS"}
      <4>1. Expected(proc') = <<>>
        BY <2>3, <3>3 DEF Expected
      <4> QED
        BY <2>1, <2>3, <2>4, <3>3, <4>1 DEF Staged, Silent, Serving
    <3> QED
      BY <1>2, <3>1, <3>2, <3>3
  <2> QED
    BY <1>1, <2>2, <2>3, <2>5 DEF IInv, Shape, Resolved
<1> QED
  BY <1>1, <1>2, <1>3, <1>4, ServedIsValid DEF CheckVersion, Step

----------------------------------------------------------------------------
(* The commands. *)
LEMMA ParseConfKeeps ==
  ASSUME IInv, ParseConf PROVE IInv'
<1>1. /\ proc \in Process /\ Shape /\ proc.at = "add" /\ UNCHANGED <<links, filters>>
      /\ proc.settings = "ok" /\ proc.fault = "none" /\ proc.input = "ok"
      /\ proc.stdout = <<>> /\ proc.prev = "none"
      /\ Valid(proc) /\ proc.env.cmd = "ADD"
      /\ \A conf \in proc.conf, d \in Dirs : proc.limits[d] \in Resolve(conf, d)
  BY DEF IInv, Shape, Resolved, Staged, Silent, Serving, ParseConf, Step
<1>2. CASE proc' = Fail([proc EXCEPT !.settings = "bad"])
  <2> DEFINE p == [proc EXCEPT !.settings = "bad"]
  <2>1. /\ p \in Process /\ p.settings = "bad" /\ p.stdout = <<>>
        /\ p.conf = proc.conf /\ p.limits = proc.limits
    BY <1>1 DEF Process
  <2>2. proc' = Fail(p)
    BY <1>2
  <2> HIDE DEF p
  <2>3. ~Sound(p)
    BY <2>1 DEF Sound
  <2> QED
    BY <1>1, <2>1, <2>2, <2>3, FailsSilently
<1>3. ASSUME NEW conf \in Confs, NEW ingress \in Resolve(conf, "ingress"),
             NEW egress \in Resolve(conf, "egress"),
             proc' = [proc EXCEPT
                       !.at = IF ingress.on \/ egress.on THEN "attach" ELSE "result",
                       !.conf = {conf},
                       !.limits = [d \in Dirs |-> IF d = "ingress" THEN ingress
                                                                   ELSE egress]]
      PROVE  IInv'
  <2> DEFINE limits == [d \in Dirs |-> IF d = "ingress" THEN ingress ELSE egress]
             at == IF ingress.on \/ egress.on THEN "attach" ELSE "result"
  <2>1. conf \in Conf /\ "ingress" \in Dirs /\ "egress" \in Dirs
    BY PluginAssumption DEF Dirs
  <2>2. ingress \in Limit /\ egress \in Limit
    BY <2>1, ResolvedIs
  <2>3. limits \in [Dirs -> Limit] /\ \A d \in Dirs : limits[d] \in Resolve(conf, d)
    BY <2>2 DEF Dirs
  <2>4. at \in {"attach", "result"}
    OBVIOUS
  <2>5. proc' = [proc EXCEPT !.at = at, !.conf = {conf}, !.limits = limits]
    BY <1>3
  <2> HIDE DEF limits, at
  <2>6. proc' \in Process
    BY <1>1, <2>3, <2>4, <2>5 DEF Process, Stages, Serving
  <2>7. /\ proc'.at \in {"attach", "result"} /\ proc'.env = proc.env
        /\ proc'.settings = "ok" /\ proc'.fault = "none" /\ proc'.version = proc.version
        /\ proc'.input = "ok" /\ proc'.stdout = <<>> /\ proc'.prev = "none"
        /\ proc'.conf = {conf} /\ proc'.limits = limits
    BY <1>1, <2>4, <2>5 DEF Process
  <2>8. Valid(proc')
    BY <1>1, <2>7, SameRequest
  <2>9. Staged'
    BY <1>1, <2>7, <2>8 DEF Staged, Silent, Serving
  <2> QED
    BY <1>1, <2>3, <2>6, <2>7, <2>9 DEF IInv, Shape, Resolved
<1> QED
  BY <1>1, <1>2, <1>3 DEF ParseConf, Step

LEMMA ForgottenIs ==
  ASSUME NEW p \in Process
  PROVE  /\ Forgotten(p) \in Process /\ Forgotten(p).conf = {}
         /\ Forgotten(p).env = p.env /\ Forgotten(p).input = p.input
         /\ Forgotten(p).version = p.version /\ Forgotten(p).settings = p.settings
         /\ Forgotten(p).prev = p.prev /\ Forgotten(p).fault = p.fault
         /\ Forgotten(p).stdout = p.stdout /\ Forgotten(p).at = p.at
         /\ Forgotten(p).ns = p.ns
<1>1. [d \in Dirs |-> Off] \in [Dirs -> Limit]
  BY DEF Off, Limit
<1>2. {} \in SUBSET Confs
  OBVIOUS
<1> QED
  BY <1>1, <1>2 DEF Forgotten, Process

LEMMA AttachKeeps ==
  ASSUME IInv, AttachBPF PROVE IInv'
<1>1. /\ proc \in Process /\ Shape /\ proc.at = "attach"
      /\ proc.settings = "ok" /\ proc.fault = "none" /\ proc.input = "ok"
      /\ proc.stdout = <<>> /\ proc.prev = "none"
      /\ Valid(proc) /\ proc.env.cmd = "ADD"
  BY DEF IInv, Shape, Staged, Silent, Serving, AttachBPF
<1>2. proc.env.id \in Containers
  BY <1>1 DEF Valid
<1>3. links' \in SUBSET Containers /\ filters' \in SUBSET Containers
  BY <1>1, <1>2 DEF AttachBPF, Shape
<1>4. PICK ns \in {"host", proc.env.netns} \ {"own"} :
        proc' = Forgotten([[proc EXCEPT !.at = "result"] EXCEPT !.ns = ns])
  BY DEF AttachBPF, Attached, AfterAttach
<1> DEFINE p == [[proc EXCEPT !.at = "result"] EXCEPT !.ns = ns]
<1>5. ns \in {"host", "pod", ""}
  BY <1>1 DEF Process, Env
<1>6. /\ p \in Process /\ p.at = "result" /\ p.env = proc.env
      /\ p.settings = "ok" /\ p.fault = "none" /\ p.version = proc.version
      /\ p.input = "ok" /\ p.stdout = <<>> /\ p.prev = "none"
  BY <1>1, <1>5 DEF Process, Stages, Serving
<1>7. proc' = Forgotten(p)
  BY <1>4
<1> HIDE DEF p
<1>8. /\ proc' \in Process /\ proc'.at = "result" /\ proc'.env = proc.env
      /\ proc'.settings = "ok" /\ proc'.fault = "none" /\ proc'.version = proc.version
      /\ proc'.input = "ok" /\ proc'.stdout = <<>> /\ proc'.prev = "none"
      /\ proc'.conf = {}
  BY <1>6, <1>7, ForgottenIs
<1>9. Valid(proc')
  BY <1>1, <1>8, SameRequest
<1>10. Staged'
  BY <1>1, <1>8, <1>9 DEF Staged, Silent, Serving
<1> QED
  BY <1>3, <1>8, <1>10 DEF IInv, Shape, Resolved

LEMMA PrintResultKeeps ==
  ASSUME IInv, PrintResult PROVE IInv'
<1>1. /\ proc \in Process /\ Shape /\ proc.at = "result" /\ UNCHANGED <<links, filters>>
      /\ proc.settings = "ok" /\ proc.fault = "none" /\ proc.input = "ok"
      /\ proc.stdout = <<>> /\ proc.prev = "none"
      /\ Valid(proc) /\ proc.env.cmd = "ADD"
  BY DEF IInv, Shape, Staged, Silent, Serving, PrintResult, Step
<1>2. PICK prev \in {"none", "some", "bad"} :
        LET p == Forgotten([proc EXCEPT !.prev = prev])
        IN \/ /\ prev # "bad"
              /\ proc' = [p EXCEPT !.at = "netns",
                            !.stdout = <<IF prev = "some" THEN "previous" ELSE "minimal">>]
           \/ prev = "bad" /\ proc' = Fail(p)
           \/ proc' = Fail([p EXCEPT !.fault = "stdout"])
  BY DEF PrintResult, Step
<1> DEFINE q == [proc EXCEPT !.prev = prev]
           p == Forgotten(q)
           text == IF prev = "some" THEN "previous" ELSE "minimal"
<1>3. /\ q \in Process /\ q.at = "result" /\ q.env = proc.env
      /\ q.settings = "ok" /\ q.fault = "none" /\ q.version = proc.version
      /\ q.input = "ok" /\ q.stdout = <<>> /\ q.prev = prev
  BY <1>1 DEF Process
<1>4. \/ prev # "bad" /\ proc' = [p EXCEPT !.at = "netns", !.stdout = <<text>>]
      \/ prev = "bad" /\ proc' = Fail(p)
      \/ proc' = Fail([p EXCEPT !.fault = "stdout"])
  BY <1>2
<1>5. text \in {"previous", "minimal"} /\ text = IF prev = "some" THEN "previous" ELSE "minimal"
  OBVIOUS
<1> HIDE DEF q, text
<1>6. /\ p \in Process /\ p.at = "result" /\ p.env = proc.env
      /\ p.settings = "ok" /\ p.fault = "none" /\ p.version = proc.version
      /\ p.input = "ok" /\ p.stdout = <<>> /\ p.prev = prev /\ p.conf = {}
  BY <1>3, ForgottenIs
<1> HIDE DEF p
<1>7. CASE prev = "bad" /\ proc' = Fail(p)
  <2>1. ~Sound(p)
    BY <1>6, <1>7 DEF Sound
  <2> QED
    BY <1>1, <1>6, <1>7, <2>1, FailsSilently
<1>8. CASE proc' = Fail([p EXCEPT !.fault = "stdout"])
  <2> DEFINE r == [p EXCEPT !.fault = "stdout"]
  <2>1. r \in Process /\ r.fault = "stdout" /\ r.stdout = <<>> /\ r.conf = {}
    BY <1>6 DEF Process
  <2>2. proc' = Fail(r)
    BY <1>8
  <2> HIDE DEF r
  <2>3. ~Sound(r)
    BY <2>1 DEF Sound
  <2> QED
    BY <1>1, <2>1, <2>2, <2>3, FailsSilently
<1>9. CASE prev # "bad" /\ proc' = [p EXCEPT !.at = "netns", !.stdout = <<text>>]
  <2>1. <<text>> \in Seq({"error", "versions", "previous", "minimal"})
    BY <1>5
  <2>2. /\ proc' \in Process /\ proc'.at = "netns" /\ proc'.env = proc.env
        /\ proc'.settings = "ok" /\ proc'.fault = "none" /\ proc'.version = proc.version
        /\ proc'.input = "ok" /\ proc'.stdout = <<text>> /\ proc'.prev = prev
        /\ proc'.conf = {}
    BY <1>6, <1>9, <2>1 DEF Process, Stages, Serving
  <2>3. Valid(proc')
    BY <1>1, <2>2, SameRequest
  <2>4. Expected(proc') = <<text>>
    BY <1>1, <1>5, <2>2 DEF Expected
  <2>5. Staged'
    BY <1>1, <1>9, <2>2, <2>3, <2>4 DEF Staged, Silent, Serving
  <2> QED
    BY <1>1, <2>2, <2>5 DEF IInv, Shape, Resolved
<1> QED
  BY <1>4, <1>7, <1>8, <1>9

LEMMA CmdDelKeeps ==
  ASSUME IInv, CmdDel PROVE IInv'
<1>1. /\ proc \in Process /\ proc.at = "del"
      /\ proc.settings = "ok" /\ proc.fault = "none" /\ proc.input = "ok"
      /\ proc.stdout = <<>> /\ proc.prev = "none"
      /\ Valid(proc) /\ proc.env.cmd = "DEL"
      /\ \A conf \in proc.conf, d \in Dirs : proc.limits[d] \in Resolve(conf, d)
  BY DEF IInv, Shape, Resolved, Staged, Silent, Serving, CmdDel
<1>2. links' \in SUBSET Containers /\ filters' \in SUBSET Containers
  BY DEF CmdDel, IInv, Shape
<1>3. proc' = [proc EXCEPT !.at = "netns"]
  BY DEF CmdDel
<1>4. /\ proc' \in Process /\ proc'.at = "netns" /\ proc'.env = proc.env
      /\ proc'.settings = "ok" /\ proc'.fault = "none" /\ proc'.version = proc.version
      /\ proc'.input = "ok" /\ proc'.stdout = <<>> /\ proc'.prev = "none"
      /\ proc'.conf = proc.conf /\ proc'.limits = proc.limits
  BY <1>1, <1>3 DEF Process, Stages, Serving
<1>5. Valid(proc')
  BY <1>1, <1>4, SameRequest
<1>6. Expected(proc') = <<>>
  BY <1>1, <1>4 DEF Expected
<1>7. Staged'
  BY <1>1, <1>4, <1>5, <1>6 DEF Staged, Silent, Serving
<1> QED
  BY <1>1, <1>2, <1>4, <1>7 DEF IInv, Shape, Resolved

(* The netns is looked at after the result is out. *)
LEMMA CheckNetNSKeeps ==
  ASSUME IInv, CheckNetNS PROVE IInv'
<1>1. /\ proc \in Process /\ Shape /\ proc.at = "netns" /\ UNCHANGED <<links, filters>>
      /\ proc.settings = "ok" /\ proc.fault = "none" /\ proc.input = "ok"
      /\ proc.prev # "bad" /\ proc.stdout = Expected(proc)
      /\ Valid(proc) /\ proc.env.cmd \in {"ADD", "DEL"}
      /\ \A conf \in proc.conf, d \in Dirs : proc.limits[d] \in Resolve(conf, d)
  BY DEF IInv, Shape, Resolved, Staged, Silent, Serving, CheckNetNS, Step
<1>2. \/ /\ proc' = [proc EXCEPT !.at = "answered"]
         /\ proc.env.override \/ proc.env.netns # "own"
      \/ proc' = Fail([proc EXCEPT !.fault = "netns"])
  BY DEF CheckNetNS, Step
<1>3. CASE /\ proc' = [proc EXCEPT !.at = "answered"]
           /\ proc.env.override \/ proc.env.netns # "own"
  <2>1. /\ proc' \in Process /\ proc'.at = "answered" /\ proc'.env = proc.env
        /\ proc'.settings = "ok" /\ proc'.fault = "none" /\ proc'.version = proc.version
        /\ proc'.input = "ok" /\ proc'.stdout = proc.stdout /\ proc'.prev = proc.prev
        /\ proc'.conf = proc.conf /\ proc'.limits = proc.limits
    BY <1>1, <1>3 DEF Process, Stages, Serving
  <2>2. Valid(proc') /\ Expected(proc') = Expected(proc)
    BY <1>1, <2>1, SameRequest DEF Expected
  <2>3. Staged'
    BY <1>1, <1>3, <2>1, <2>2 DEF Staged, Silent, Serving
  <2> QED
    BY <1>1, <2>1, <2>3 DEF IInv, Shape, Resolved
<1>4. CASE proc' = Fail([proc EXCEPT !.fault = "netns"])
  <2> DEFINE p == [proc EXCEPT !.fault = "netns"]
  <2>1. /\ p \in Process /\ p.fault = "netns" /\ p.stdout = proc.stdout
        /\ p.conf = proc.conf /\ p.limits = proc.limits
        /\ p.env = proc.env /\ p.prev = proc.prev
    BY <1>1 DEF Process
  <2>2. proc' = Fail(p)
    BY <1>4
  <2> HIDE DEF p
  <2>3. /\ proc' \in Process /\ SameCall(proc', p) /\ proc'.at = "exit"
        /\ proc'.status = 1 /\ proc'.stdout = Append(p.stdout, "error")
    BY <2>1, <2>2, FailIs
  <2>4. /\ proc'.fault = "netns" /\ proc'.conf = proc.conf /\ proc'.limits = proc.limits
        /\ proc'.env = proc.env /\ proc'.prev = proc.prev
    BY <2>1, <2>3 DEF SameCall
  <2>5. Expected(proc') = Expected(proc)
    BY <2>4 DEF Expected
  <2>6. proc'.stdout = Append(Expected(proc'), "error")
    BY <1>1, <2>1, <2>3, <2>5
  <2>7. ~Sound(proc')
    BY <2>4 DEF Sound
  <2>8. Answered'
    BY <2>3, <2>4, <2>6, <2>7 DEF Answered
  <2>9. Staged'
    BY <2>3, <2>8 DEF Staged, Silent, Serving
  <2> QED
    BY <1>1, <2>3, <2>4, <2>9 DEF IInv, Shape, Resolved
<1> QED
  BY <1>2, <1>3, <1>4

LEMMA AnswerKeeps ==
  ASSUME IInv, Answer PROVE IInv'
<1>1. /\ proc \in Process /\ Shape /\ UNCHANGED <<links, filters>>
      /\ proc.settings = "ok" /\ proc.fault = "none" /\ proc.prev # "bad"
      /\ proc.stdout = Expected(proc) /\ Valid(proc)
      /\ proc.env.cmd \in {"ADD", "DEL"} => proc.env.netns # "own" \/ proc.env.override
      /\ \A conf \in proc.conf, d \in Dirs : proc.limits[d] \in Resolve(conf, d)
  BY DEF IInv, Shape, Resolved, Staged, Silent, Serving, Answer, Step
<1>2. Sound(proc)
  BY <1>1 DEF Sound
<1>3. proc' = Exit(proc, 0)
  BY DEF Answer, Step
<1> QED
  BY <1>1, <1>2, <1>3, Succeeds

LEMMA ReapKeeps ==
  ASSUME IInv, Reap PROVE IInv'
<1>1. NoEnv \in Env
  BY DEF NoEnv, Env, Commands
<1>2. Off \in Limit
  BY DEF Off, Limit
<1>3. NoProcess \in Process
  BY <1>1, <1>2 DEF NoProcess, Process, Stages, Input, Serving
<1>4. NoProcess.conf = {} /\ NoProcess.at = "none"
  BY DEF NoProcess
<1>5. links' \in SUBSET Containers /\ filters' \in SUBSET Containers
  BY DEF Reap, IInv, Shape
<1> QED
  BY <1>3, <1>4, <1>5 DEF Reap, IInv, Shape, Resolved, Staged, Silent, Serving

LEMMA NextHolds == IInv /\ [Next]_vars => IInv'
<1> SUFFICES ASSUME IInv, [Next]_vars PROVE IInv'
  OBVIOUS
<1>1. CASE ExecTools
  BY <1>1, ToolsKeep
<1>2. ASSUME NEW env \in Env, Start(env) PROVE IInv'
  BY <1>2, StartKeeps
<1>3. CASE ReadEnv
  BY <1>3, ReadEnvKeeps
<1>4. CASE ReadStdin
  BY <1>4, ReadStdinKeeps
<1>5. CASE PrintVersions
  BY <1>5, PrintVersionsKeeps
<1>6. CASE CheckVersion
  BY <1>6, CheckVersionKeeps
<1>7. CASE ParseConf
  BY <1>7, ParseConfKeeps
<1>8. CASE AttachBPF
  BY <1>8, AttachKeeps
<1>9. CASE PrintResult
  BY <1>9, PrintResultKeeps
<1>10. CASE CmdDel
  BY <1>10, CmdDelKeeps
<1>11. CASE CheckNetNS
  BY <1>11, CheckNetNSKeeps
<1>12. CASE Answer
  BY <1>12, AnswerKeeps
<1>13. CASE Reap
  BY <1>13, ReapKeeps
<1>14. CASE UNCHANGED vars
  <2>1. links' = links /\ filters' = filters /\ proc' = proc
    BY <1>14 DEF vars
  <2>2. (Valid(proc) <=> Valid(proc)') /\ (Answered <=> Answered')
        /\ (Expected(proc) = Expected(proc)') /\ (EnvRefused(proc.env) <=> EnvRefused(proc.env)')
    BY <2>1 DEF Valid, Answered, Expected, Sound, EnvRefused
  <2> QED
    BY <2>1, <2>2 DEF IInv, Shape, Resolved, Staged
<1> QED
  BY <1>1, <1>2, <1>3, <1>4, <1>5, <1>6, <1>7, <1>8, <1>9, <1>10, <1>11, <1>12,
     <1>13, <1>14 DEF Next, PluginStep

LEMMA Inductive == Spec => []IInv
BY InitHolds, NextHolds, PTL DEF Spec

----------------------------------------------------------------------------
(* The process and the pin directory stay what their types say. *)
THEOREM TypeCorrect == Spec => []TypeOK
<1>1. IInv => TypeOK
  BY DEF IInv, Shape, TypeOK, Process, Stages
<1> QED
  BY <1>1, Inductive, PTL

(* skel.go: nothing is served before the whole request was found valid,    *)
(* and the exit status and stdout tell a valid and sound one from any      *)
(* other, for any versions, containers and configurations.                 *)
THEOREM AnswersCorrect == Spec => []AnswersByTheProtocol
<1>1. IInv => AnswersByTheProtocol
  BY DEF IInv, Staged, AnswersByTheProtocol, Answered
<1> QED
  BY <1>1, Inductive, PTL

LEMMA LimitsAreResolved ==
  ASSUME IInv, NEW conf \in proc.conf, NEW d \in Dirs
  PROVE  /\ Faithful(conf, d, proc.limits[d])
         /\ proc.limits[d].on => Usable(conf, d, proc.limits[d])
<1>1. conf \in Conf
  BY PluginAssumption DEF IInv, Shape, Process
<1>2. proc.limits[d] \in Resolve(conf, d)
  BY DEF IInv, Resolved
<1> QED
  BY <1>1, <1>2, ResolvedIs

(* resolveDirectionConfig: the rate a direction runs with is the one it    *)
(* was given, whatever the numbers, their width and the suffixes.          *)
THEOREM LimitsAreFaithful == Spec => []LimitIsTheOneGiven
<1>1. IInv => LimitIsTheOneGiven
  BY LimitsAreResolved DEF LimitIsTheOneGiven, Faithful
<1> QED
  BY <1>1, Inductive, PTL

(* resolveDirectionConfig: what the program is configured with can be used *)
(* and stays within the bounds, also where the arithmetic overflows.       *)
THEOREM LimitsAreSane == Spec => []LimitsAreUsable
<1>1. IInv => LimitsAreUsable
  BY LimitsAreResolved DEF LimitsAreUsable, Usable
<1> QED
  BY <1>1, Inductive, PTL

(* cmdDel and attachBPF: a container loses its limit by its own DEL or ADD *)
(* alone, or by the DEL of one whose ID its own goes on from with a dash.  *)
THEOREM LimitsStay == Spec => LimitsPersist
<1>1. IInv /\ [Next]_vars => [LimitsKept]_vars
  <2> SUFFICES ASSUME IInv, Next PROVE LimitsKept
    BY DEF vars
  <2>1. ASSUME UNCHANGED <<links, filters>> PROVE LimitsKept
    BY <2>1 DEF LimitsKept, Limited
  <2>2. CASE AttachBPF
    BY <2>2 DEF AttachBPF, LimitsKept, Limited, OwnAdd
  <2>3. CASE CmdDel
    BY <2>3 DEF CmdDel, LimitsKept, Limited, Matches, IInv, Shape, Staged
  <2>4. CASE Reap
    BY <2>4 DEF Reap, LimitsKept, Limited
  <2> QED
    BY <2>1, <2>2, <2>3, <2>4 DEF Next, PluginStep, Step, ExecTools, Start, ReadEnv,
       ReadStdin, PrintVersions, CheckVersion, ParseConf, PrintResult, CheckNetNS, Answer
<1> QED
  BY <1>1, Inductive, PTL DEF Spec, LimitsPersist

=============================================================================
