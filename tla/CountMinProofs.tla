--------------------------- MODULE CountMinProofs ---------------------------
(***************************************************************************)
(* However the CPUs overwrite each other's cells, the sketch never blames  *)
(* a flow for bytes that were not sent: for every number of CPUs, flows,   *)
(* rows and columns, every hash, every packet size and every counter       *)
(* width.                                                                  *)
(***************************************************************************)
EXTENDS CountMin, NaturalsInduction, WellFoundedInduction, TLAPS

----------------------------------------------------------------------------
(* Powers of two.  What holds of every power is shown by the exponent it   *)
(* would first fail of.                                                    *)

LEMMA FirstFailure ==
  ASSUME NEW S \in SUBSET Nat, S # {}
  PROVE  \E m \in S : \A k \in Nat : k < m => k \notin S
<1> DEFINE R == OpToRel(<, Nat)
<1>1. PICK m \in S : \A k \in S : ~(<<k, m>> \in R)
  BY NatLessThanWellFounded, WFMin
<1>2. \A k \in S : ~(k < m)
  BY <1>1 DEF OpToRel
<1> QED
  BY <1>2

(* A table of the powers up to 2^n. *)
IsTable(p, n) == p \in [0..n -> Nat] /\ \A i \in 0..n : p[i] = IF i = 0 THEN 1 ELSE 2 * p[i - 1]

LEMMA TablesExist == \A n \in Nat : \E p : IsTable(p, n)
<1> DEFINE Bad == {n \in Nat : ~ \E p : IsTable(p, n)}
<1> SUFFICES ASSUME Bad # {} PROVE FALSE
  OBVIOUS
<1>1. PICK m \in Bad : \A k \in Nat : k < m => k \notin Bad
  BY FirstFailure
<1>2. CASE m = 0
  <2> DEFINE p == [i \in 0..0 |-> 1]
  <2>1. p \in [0..0 -> Nat] /\ \A i \in 0..0 : p[i] = IF i = 0 THEN 1 ELSE 2 * p[i - 1]
    OBVIOUS
  <2>2. IsTable(p, 0)
    BY <2>1 DEF IsTable
  <2> QED
    BY <1>1, <1>2, <2>2
<1>3. CASE m # 0
  <2>1. m \in Nat /\ m - 1 \in Nat /\ m - 1 < m
    BY <1>3
  <2>2. PICK p : IsTable(p, m - 1)
    BY <1>1, <2>1
  <2> DEFINE q == [i \in 0..m |-> IF i = m THEN 2 * p[m - 1] ELSE p[i]]
  <2>3. \A i \in 0..m : i # m => i \in 0..(m - 1)
    BY <2>1
  <2>4. q \in [0..m -> Nat]
    BY <2>1, <2>2, <2>3 DEF IsTable
  <2>5. \A i \in 0..m : q[i] = IF i = 0 THEN 1 ELSE 2 * q[i - 1]
    <3> SUFFICES ASSUME NEW i \in 0..m PROVE q[i] = IF i = 0 THEN 1 ELSE 2 * q[i - 1]
      OBVIOUS
    <3>1. CASE i = m
      BY <1>3, <2>1, <3>1
    <3>2. CASE i # m
      <4>1. i \in 0..(m - 1) /\ q[i] = p[i] /\ (i # 0 => i - 1 \in 0..m /\ i - 1 # m)
        BY <2>1, <2>3, <3>2
      <4>2. i # 0 => q[i - 1] = p[i - 1]
        BY <4>1
      <4> QED
        BY <2>2, <4>1, <4>2 DEF IsTable
    <3> QED
      BY <3>1, <3>2
  <2> HIDE DEF q
  <2>6. IsTable(q, m)
    BY <2>4, <2>5 DEF IsTable
  <2> QED
    BY <1>1, <2>6
<1> QED
  BY <1>2, <1>3

LEMMA TablesAgree ==
  ASSUME NEW n \in Nat, NEW m \in Nat, m <= n,
         NEW p, IsTable(p, n), NEW q, IsTable(q, m)
  PROVE  \A i \in 0..m : p[i] = q[i]
<1> DEFINE Bad == {i \in Nat : i \in 0..m /\ p[i] # q[i]}
<1> SUFFICES ASSUME Bad # {} PROVE FALSE
  OBVIOUS
<1>1. PICK i \in Bad : \A k \in Nat : k < i => k \notin Bad
  BY FirstFailure
<1>2. i \in 0..m /\ i \in 0..n /\ p[i] # q[i]
  BY <1>1
<1>3. CASE i = 0
  BY <1>2, <1>3 DEF IsTable
<1>4. CASE i # 0
  <2>1. i - 1 \in Nat /\ i - 1 < i /\ i - 1 \in 0..m
    BY <1>2, <1>4
  <2>2. p[i - 1] = q[i - 1]
    BY <1>1, <2>1
  <2> QED
    BY <1>2, <1>4, <2>2 DEF IsTable
<1> QED
  BY <1>3, <1>4

LEMMA Pow2Is ==
  /\ Pow2 \in [Nat -> Nat]
  /\ Pow2[0] = 1
  /\ \A e \in Nat : Pow2[e + 1] = 2 * Pow2[e]
<1> DEFINE T(n) == CHOOSE p : IsTable(p, n)
           f == [e \in Nat |-> T(e)[e]]
<1>1. \A n \in Nat : IsTable(T(n), n)
  BY TablesExist
<1> HIDE DEF T
<1>2. \A e \in Nat : T(e)[e] = IF e = 0 THEN 1 ELSE 2 * f[e - 1]
  <2> SUFFICES ASSUME NEW e \in Nat PROVE T(e)[e] = IF e = 0 THEN 1 ELSE 2 * f[e - 1]
    OBVIOUS
  <2>1. CASE e = 0
    BY <1>1, <2>1 DEF IsTable
  <2>2. CASE e # 0
    <3>1. e - 1 \in Nat /\ e - 1 <= e /\ e \in 0..e /\ e - 1 \in 0..(e - 1)
      BY <2>2
    <3>2. T(e)[e] = 2 * T(e)[e - 1]
      BY <1>1, <2>2, <3>1 DEF IsTable
    <3>3. T(e)[e - 1] = T(e - 1)[e - 1]
      BY <1>1, <3>1, TablesAgree
    <3>4. f[e - 1] = T(e - 1)[e - 1]
      BY <3>1
    <3> QED
      BY <2>2, <3>2, <3>3, <3>4
  <2> QED
    BY <2>1, <2>2
<1>3. f = [e \in Nat |-> IF e = 0 THEN 1 ELSE 2 * f[e - 1]]
  BY <1>2
<1>4. Pow2 = [e \in Nat |-> IF e = 0 THEN 1 ELSE 2 * Pow2[e - 1]]
  <2> DEFINE Is(g) == g = [e \in Nat |-> IF e = 0 THEN 1 ELSE 2 * g[e - 1]]
  <2>1. \E g : Is(g)
    BY <1>3
  <2>2. Pow2 = CHOOSE g : Is(g)
    BY DEF Pow2
  <2> HIDE DEF Is
  <2>3. Is(Pow2)
    BY <2>1, <2>2
  <2> QED
    BY <2>3 DEF Is
<1>5. Pow2[0] = 1 /\ \A e \in Nat : Pow2[e + 1] = 2 * Pow2[e]
  <2>1. \A e \in Nat : e + 1 \in Nat /\ e + 1 # 0 /\ (e + 1) - 1 = e
    OBVIOUS
  <2>2. \A e \in Nat : Pow2[e] = IF e = 0 THEN 1 ELSE 2 * Pow2[e - 1]
    BY <1>4
  <2> QED
    BY <2>1, <2>2
<1>6. \A e \in Nat : Pow2[e] \in Nat
  <2> DEFINE Bad == {e \in Nat : Pow2[e] \notin Nat}
  <2> SUFFICES ASSUME Bad # {} PROVE FALSE
    OBVIOUS
  <2>1. PICK e \in Bad : \A k \in Nat : k < e => k \notin Bad
    BY FirstFailure
  <2>2. e # 0
    BY <1>5, <2>1
  <2>3. e - 1 \in Nat /\ e - 1 < e /\ (e - 1) + 1 = e
    BY <2>2
  <2>4. Pow2[e] = 2 * Pow2[e - 1] /\ Pow2[e - 1] \in Nat
    BY <1>5, <2>1, <2>3
  <2> QED
    BY <2>1, <2>4
<1> QED
  BY <1>4, <1>5, <1>6

LEMMA Pow2Positive == \A e \in Nat : Pow2[e] \in Nat \ {0}
<1> DEFINE Bad == {e \in Nat : Pow2[e] = 0}
<1> SUFFICES ASSUME Bad # {} PROVE FALSE
  BY Pow2Is
<1>1. PICK e \in Bad : \A k \in Nat : k < e => k \notin Bad
  BY FirstFailure
<1>2. e # 0
  BY <1>1, Pow2Is
<1>3. e - 1 \in Nat /\ e - 1 < e /\ (e - 1) + 1 = e
  BY <1>2
<1>4. Pow2[e] = 2 * Pow2[e - 1] /\ Pow2[e - 1] \in Nat /\ Pow2[e - 1] # 0
  BY <1>1, <1>3, Pow2Is
<1> QED
  BY <1>1, <1>4

LEMMA Pow2Add == \A a, b \in Nat : Pow2[a + b] = Pow2[a] * Pow2[b]
<1> SUFFICES ASSUME NEW a \in Nat PROVE \A b \in Nat : Pow2[a + b] = Pow2[a] * Pow2[b]
  OBVIOUS
<1> DEFINE Bad == {b \in Nat : Pow2[a + b] # Pow2[a] * Pow2[b]}
<1> SUFFICES ASSUME Bad # {} PROVE FALSE
  OBVIOUS
<1>1. PICK b \in Bad : \A k \in Nat : k < b => k \notin Bad
  BY FirstFailure
<1>2. b # 0
  BY <1>1, Pow2Is
<1>3. b - 1 \in Nat /\ b - 1 < b /\ (b - 1) + 1 = b /\ a + (b - 1) \in Nat /\ (a + (b - 1)) + 1 = a + b
  BY <1>2
<1>4. Pow2[a + (b - 1)] = Pow2[a] * Pow2[b - 1]
  BY <1>1, <1>3
<1>5. Pow2[a + b] = 2 * (Pow2[a] * Pow2[b - 1]) /\ Pow2[b] = 2 * Pow2[b - 1]
  BY <1>3, <1>4, Pow2Is
<1>6. \A x, y \in Nat : 2 * (x * y) = x * (2 * y)
  OBVIOUS
<1>7. Pow2[a] \in Nat /\ Pow2[b - 1] \in Nat
  BY <1>3, Pow2Is
<1> QED
  BY <1>1, <1>5, <1>6, <1>7

----------------------------------------------------------------------------
(* Arithmetic of a cell.                                                   *)

LEMMA DivLeq ==
  ASSUME NEW a \in Nat, NEW b \in Nat \ {0}
  PROVE  a \div b \in Nat /\ a \div b <= a
<1>1. a \div b \in Nat /\ (a \div b) * b <= a
  OBVIOUS
<1> DEFINE q == a \div b
<1> HIDE DEF q
<1>2. q \in Nat /\ q * b <= a
  BY <1>1 DEF q
<1>3. q <= q * b
  BY <1>2
<1> QED
  BY <1>2, <1>3 DEF q

LEMMA ModLeq ==
  ASSUME NEW a \in Nat, NEW w \in Nat \ {0}
  PROVE  a % w \in 0..(w - 1) /\ a % w <= a
  OBVIOUS

(* Aging never makes a counter larger. *)
LEMMA FadedLeq ==
  ASSUME NEW b \in Nat, NEW e \in Nat
  PROVE  Faded(b, e) \in Nat /\ Faded(b, e) <= b
<1>0. CellBits \in Nat
  BY SketchAssumption
<1>1. CASE e >= CellBits
  BY <1>1 DEF Faded
<1>2. CASE ~(e >= CellBits)
  <2>1. Pow2[e] \in Nat \ {0}
    BY Pow2Positive
  <2>2. Faded(b, e) = b \div Pow2[e]
    BY <1>2 DEF Faded
  <2> QED
    BY <2>1, <2>2, DivLeq
<1> QED
  BY <1>1, <1>2

LEMMA WordPositive == CellWord \in Nat \ {0}
BY SketchAssumption, Pow2Positive DEF CellWord

----------------------------------------------------------------------------
(* Inside a walk.                                                          *)

LEMMA ColInRange ==
  ASSUME WalkOK, NEW c \in CPUs, walk[c].at # "idle"
  PROVE  walk[c].row \in 1..Depth /\ walk[c].flow \in Flows /\ Col(c) \in Cols
  BY SketchAssumption DEF WalkOK, Col

LEMMA WalkFields ==
  ASSUME NEW w \in Walk
  PROVE  /\ w.next \in 0..AllOnes /\ w.mn \in 0..AllOnes
         /\ w.len \in Nat /\ w.elapsed \in Nat /\ w.idx \in 0..MaxIdx
<1>1. MaxIdx \in Nat /\ Lens \union {0} \subseteq Nat
  BY SketchAssumption
<1>2. /\ w.next \in 0..AllOnes /\ w.mn \in 0..AllOnes
      /\ w.len \in Lens \union {0} /\ w.elapsed \in 0..MaxIdx
      /\ w.idx \in 0..MaxIdx
  BY DEF Walk
<1> QED
  BY <1>1, <1>2

(* Writing one cell of a row. *)
LEMMA CellUpdate ==
  ASSUME NEW S, NEW b \in Cell(S), NEW r \in 1..Depth, NEW k \in Cols, NEW x \in S
  PROVE  /\ b[r][k] \in S
         /\ [b EXCEPT ![r][k] = x] \in Cell(S)
         /\ \A i \in 1..Depth, j \in Cols :
              [b EXCEPT ![r][k] = x][i][j] = IF i = r /\ j = k THEN x ELSE b[i][j]
  BY DEF Cell

LEMMA CellRead ==
  ASSUME TypeOK
  PROVE  \A r \in 1..Depth, k \in Cols : bytes[r][k] \in Nat /\ sent[r][k] \in Nat
<1>1. AllOnes \in Nat
  BY WordPositive DEF AllOnes
<1>2. bytes \in Cell(0..AllOnes) /\ sent \in Cell(Nat)
  BY DEF TypeOK
<1>3. \A r \in 1..Depth, k \in Cols : bytes[r][k] \in 0..AllOnes /\ sent[r][k] \in Nat
  BY <1>2 DEF Cell
<1> QED
  BY <1>1, <1>3

LEMMA RegisterRead ==
  ASSUME NEW w \in Walk
  PROVE  w.next \in Nat /\ w.mn \in Nat /\ w.len \in Nat
<1>1. AllOnes \in Nat
  BY WordPositive DEF AllOnes
<1> QED
  BY <1>1, WalkFields

(* What LoadBytes puts in the register. *)
LEMMA NextValue ==
  ASSUME TypeOK, WalkOK, NEW c \in CPUs, LoadBytes(c)
  PROVE  LET r == walk[c].row
             k == Col(c)
             b == bytes[r][k]
             n == (Faded(b, walk[c].elapsed) + walk[c].len) % CellWord
         IN  n \in 0..AllOnes /\ n <= b + walk[c].len /\ b \in Nat
<1> DEFINE r == walk[c].row
           k == Col(c)
           b == bytes[r][k]
           f == Faded(b, walk[c].elapsed)
           n == (f + walk[c].len) % CellWord
<1>0. CellWord \in Nat \ {0} /\ AllOnes = CellWord - 1
  BY WordPositive DEF AllOnes
<1>1. r \in 1..Depth /\ k \in Cols
  BY ColInRange DEF LoadBytes
<1>2. b \in Nat
  BY <1>0, <1>1 DEF TypeOK, Cell
<1>3. walk[c].elapsed \in Nat /\ walk[c].len \in Nat
  BY WalkFields DEF TypeOK
<1> HIDE DEF b
<1>4. f \in Nat /\ f <= b
  BY <1>2, <1>3, FadedLeq
<1> HIDE DEF f
<1>5. f + walk[c].len \in Nat /\ f + walk[c].len <= b + walk[c].len
  BY <1>2, <1>3, <1>4
<1>6. n \in 0..(CellWord - 1) /\ n <= f + walk[c].len
  BY <1>0, <1>5, ModLeq
<1> HIDE DEF n
<1>7. n <= b + walk[c].len
  BY <1>0, <1>2, <1>3, <1>5, <1>6
<1> QED
  BY <1>0, <1>2, <1>6, <1>7 DEF n, f, b

LEMMA InitSketchInv == Init => SketchInv
<1> SUFFICES ASSUME Init PROVE SketchInv
  OBVIOUS
<1>0. /\ CellWord \in Nat \ {0} /\ AllOnes = CellWord - 1 /\ Depth \in Nat
      /\ MaxIdx \in Nat /\ MaxPackets \in Nat
  BY WordPositive, SketchAssumption DEF AllOnes
<1>1. TypeOK
  <2>1. AllOnes \in 0..AllOnes /\ 0 \in 0..AllOnes /\ 0 \in 0..MaxIdx /\ 0 \in 0..Depth
    BY <1>0
  <2>2. walk \in [CPUs -> Walk]
    BY <2>1 DEF Init, Idle, Walk
  <2>3. bytes \in Cell(0..AllOnes) /\ last_decay_idx \in Cell(0..MaxIdx) /\ sent \in Cell(Nat)
    BY <2>1 DEF Init, Cell
  <2> QED
    BY <1>0, <2>2, <2>3 DEF Init, TypeOK
<1>2. WalkOK /\ EvidenceSoFar
  BY DEF Init, Idle, WalkOK, EvidenceSoFar, Visited
<1>3. NeverOvercounts
  BY DEF Init, Idle, NeverOvercounts
<1> QED
  BY <1>1, <1>2, <1>3 DEF SketchInv

(* One CPU's walk changes: the others do not, and all stay walks. *)
LEMMA WalkUpdate ==
  ASSUME TypeOK, NEW c \in CPUs, NEW w \in Walk,
         walk' = [walk EXCEPT ![c] = w]
  PROVE  /\ walk' \in [CPUs -> Walk]
         /\ walk'[c] = w
         /\ \A d \in CPUs \ {c} : walk'[d] = walk[d]
  BY DEF TypeOK

(* The walk each step of the loop over the rows leaves behind. *)
LEMMA StepWalk ==
  ASSUME TypeOK, WalkOK, NEW c \in CPUs, Step(c)
  PROVE  /\ walk' = [walk EXCEPT ![c] = walk'[c]]
         /\ walk'[c] \in Walk
         /\ walk'[c].at # "idle" /\ walk[c].at # "idle"
         /\ walk'[c].flow = walk[c].flow
         /\ walk'[c].row \in 1..Depth
<1> DEFINE w == walk[c]
<1>0. /\ Depth \in Nat \ {0} /\ MaxIdx \in Nat /\ w \in Walk
      /\ walk \in [CPUs -> Walk]
  BY SketchAssumption DEF TypeOK
<1>1. ASSUME w.at # "idle" PROVE w.row \in 1..Depth /\ Col(c) \in Cols
  BY <1>1, ColInRange
<1>2. CASE LoadIdx(c)
  <2> DEFINE last == last_decay_idx[w.row][Col(c)]
             e == IF w.idx > last THEN w.idx - last ELSE 0
             v == [w EXCEPT !.at = "count", !.elapsed = e]
  <2>1. last \in 0..MaxIdx /\ w.idx \in 0..MaxIdx
    BY <1>0, <1>1, <1>2 DEF LoadIdx, TypeOK, Cell, Walk
  <2>2. e \in 0..MaxIdx
    BY <1>0, <2>1
  <2>3. walk' = [walk EXCEPT ![c] = v] /\ w.at = "age"
    BY <1>2 DEF LoadIdx
  <2> HIDE DEF e, last
  <2>4. v \in Walk /\ v.at = "count" /\ v.flow = w.flow /\ v.row = w.row
    BY <1>0, <2>2 DEF Walk
  <2> QED
    BY <1>0, <1>1, <2>3, <2>4
<1>3. CASE LoadBytes(c)
  <2> DEFINE n == (Faded(bytes[w.row][Col(c)], w.elapsed) + w.len) % CellWord
             v == [w EXCEPT !.at = "store", !.next = n]
  <2>1. n \in 0..AllOnes
    BY <1>3, NextValue
  <2>2. walk' = [walk EXCEPT ![c] = v] /\ w.at = "count"
    BY <1>3 DEF LoadBytes
  <2> HIDE DEF n
  <2>3. v \in Walk /\ v.at = "store" /\ v.flow = w.flow /\ v.row = w.row
    BY <1>0, <2>1 DEF Walk
  <2> QED
    BY <1>0, <1>1, <2>2, <2>3
<1>4. CASE StoreBytes(c)
  <2> DEFINE v == [w EXCEPT !.at = "stamp"]
  <2>1. walk' = [walk EXCEPT ![c] = v] /\ w.at = "store"
    BY <1>4 DEF StoreBytes
  <2>2. v \in Walk /\ v.at = "stamp" /\ v.flow = w.flow /\ v.row = w.row
    BY <1>0 DEF Walk
  <2> QED
    BY <1>0, <1>1, <2>1, <2>2
<1>5. CASE StoreIdx(c)
  <2> DEFINE m == Lesser(w.next, w.mn)
             a == IF w.row < Depth THEN "age" ELSE "done"
             r == IF w.row < Depth THEN w.row + 1 ELSE w.row
             v == [w EXCEPT !.mn = m, !.at = a, !.row = r]
  <2>1. walk' = [walk EXCEPT ![c] = v] /\ w.at = "stamp"
    BY <1>5 DEF StoreIdx, NextRow
  <2>2. m \in 0..AllOnes
    BY <1>0 DEF Walk, Lesser
  <2>3. r \in 1..Depth
    BY <1>0, <1>1, <2>1
  <2>4. a \in {"age", "done"}
    OBVIOUS
  <2> HIDE DEF m, a, r
  <2>5. v \in Walk /\ v.at = a /\ v.flow = w.flow /\ v.row = r
    <3>1. /\ v.at = a /\ v.flow = w.flow /\ v.row = r /\ v.mn = m
          /\ v = [w EXCEPT !.mn = m, !.at = a, !.row = r]
      BY <1>0 DEF Walk
    <3>2. r \in 0..Depth
      BY <1>0, <2>3
    <3> HIDE DEF v, w
    <3>3. v \in Walk
      BY <1>0, <2>2, <2>4, <3>1, <3>2 DEF Walk
    <3> QED
      BY <3>1, <3>3
  <2> QED
    BY <1>0, <2>1, <2>3, <2>4, <2>5
<1> QED
  BY <1>2, <1>3, <1>4, <1>5 DEF Step

LEMMA TypeStep ==
  ASSUME TypeOK, WalkOK, [Next]_vars
  PROVE  TypeOK' /\ WalkOK'
<1>0. /\ CellWord \in Nat \ {0} /\ AllOnes = CellWord - 1 /\ AllOnes \in Nat
      /\ Depth \in Nat \ {0} /\ MaxIdx \in Nat /\ MaxPackets \in Nat
      /\ Lens \subseteq Nat
  BY WordPositive, SketchAssumption DEF AllOnes
<1>1. CASE Boundary
  <2>1. own' \in [Flows -> Nat]
    BY <1>1 DEF TypeOK, Boundary
  <2>2. WalkOK'
    BY <1>1 DEF WalkOK, Boundary
  <2> QED
    BY <1>0, <1>1, <2>1, <2>2 DEF TypeOK, Boundary, cells
<1>2. ASSUME NEW c \in CPUs, NEW f \in Flows, NEW n \in Lens, NEW i \in Readings,
             Begin(c, f, n, i)
      PROVE  TypeOK' /\ WalkOK'
  <2> DEFINE v == [Idle EXCEPT !.at = "age", !.flow = f, !.len = n,
                               !.idx = i, !.row = 1]
  <2>1. /\ i \in 0..MaxIdx /\ AllOnes \in 0..AllOnes /\ 0 \in 0..AllOnes
        /\ 0 \in 0..MaxIdx /\ 1 \in 1..Depth /\ 1 \in 0..Depth
        /\ 0 \in 0..Depth
    BY <1>0 DEF Readings
  <2>2. walk' = [walk EXCEPT ![c] = v]
    BY <1>2 DEF Begin
  <2>7. Idle \in Walk
    BY <2>1 DEF Idle, Walk
  <2>3. own' \in [Flows -> Nat]
    BY <1>0, <1>2 DEF TypeOK, Begin
  <2>4. counted' \in 0..MaxPackets
    BY <1>0, <1>2 DEF TypeOK, Begin
  <2>5. v \in Walk /\ v.flow \in Flows /\ v.row \in 1..Depth
    BY <2>1, <2>7 DEF Walk
  <2> HIDE DEF v
  <2>6. walk' \in [CPUs -> Walk] /\ WalkOK'
    BY <2>2, <2>5, WalkUpdate DEF WalkOK
  <2> QED
    BY <1>2, <2>3, <2>4, <2>6 DEF TypeOK, Begin, cells
<1>3. ASSUME NEW c \in CPUs, Step(c) PROVE TypeOK' /\ WalkOK'
  <2> DEFINE w == walk[c]
             v == walk'[c]
  <2>1. /\ walk' = [walk EXCEPT ![c] = v] /\ v \in Walk
        /\ v.flow = w.flow /\ v.row \in 1..Depth /\ w.at # "idle"
    BY <1>3, StepWalk
  <2>2. w \in Walk /\ w.row \in 1..Depth /\ w.flow \in Flows /\ Col(c) \in Cols
    BY <2>1, ColInRange DEF TypeOK
  <2>3. walk' \in [CPUs -> Walk] /\ WalkOK'
    BY <2>1, <2>2, WalkUpdate DEF WalkOK
  <2>4. w.next \in 0..AllOnes /\ w.len \in Nat /\ w.idx \in 0..MaxIdx
    BY <2>2, WalkFields
  <2>5. bytes' \in Cell(0..AllOnes)
    <3>1. \/ bytes' = bytes
          \/ bytes' = [bytes EXCEPT ![w.row][Col(c)] = w.next]
      BY <1>3 DEF Step, LoadIdx, LoadBytes, StoreBytes, StoreIdx, cells
    <3>2. bytes \in Cell(0..AllOnes)
      BY DEF TypeOK
    <3>3. [bytes EXCEPT ![w.row][Col(c)] = w.next] \in Cell(0..AllOnes)
      BY <2>2, <2>4, <3>2, CellUpdate, Zenon
    <3> QED
      BY <3>1, <3>2, <3>3
  <2>6. last_decay_idx' \in Cell(0..MaxIdx)
    <3>1. \/ last_decay_idx' = last_decay_idx
          \/ last_decay_idx' = [last_decay_idx EXCEPT ![w.row][Col(c)] = w.idx]
      BY <1>3 DEF Step, LoadIdx, LoadBytes, StoreBytes, StoreIdx, cells
    <3>2. last_decay_idx \in Cell(0..MaxIdx)
      BY DEF TypeOK
    <3>3. [last_decay_idx EXCEPT ![w.row][Col(c)] = w.idx] \in Cell(0..MaxIdx)
      BY <2>2, <2>4, <3>2, CellUpdate, Zenon
    <3> QED
      BY <3>1, <3>2, <3>3
  <2>7. sent' \in Cell(Nat)
    <3> DEFINE x == sent[w.row][Col(c)] + w.len
    <3>1. sent' = sent \/ sent' = [sent EXCEPT ![w.row][Col(c)] = x]
      BY <1>3 DEF Step, LoadIdx, LoadBytes, StoreBytes, StoreIdx, cells
    <3>2. sent \in Cell(Nat)
      BY DEF TypeOK
    <3>3. sent[w.row][Col(c)] \in Nat
      BY <2>2, <3>2 DEF Cell
    <3>4. x \in Nat
      BY <2>4, <3>3
    <3> HIDE DEF x
    <3> QED
      BY <2>2, <3>1, <3>2, <3>4, CellUpdate
  <2>8. UNCHANGED <<now_idx, counted, own>>
    BY <1>3 DEF Step, LoadIdx, LoadBytes, StoreBytes, StoreIdx
  <2> QED
    BY <2>3, <2>5, <2>6, <2>7, <2>8 DEF TypeOK
<1>4. ASSUME NEW c \in CPUs, Take(c) PROVE TypeOK' /\ WalkOK'
  <2>1. AllOnes \in 0..AllOnes /\ 0 \in 0..AllOnes /\ 0 \in 0..MaxIdx /\ 0 \in 0..Depth
    BY <1>0
  <2>2. Idle \in Walk /\ Idle.at = "idle"
    BY <2>1 DEF Idle, Walk
  <2>3. walk' = [walk EXCEPT ![c] = Idle]
    BY <1>4 DEF Take
  <2>4. walk' \in [CPUs -> Walk] /\ WalkOK'
    BY <2>2, <2>3, WalkUpdate DEF WalkOK
  <2> QED
    BY <1>4, <2>4 DEF TypeOK, Take, cells
<1>5. CASE UNCHANGED vars
  BY <1>5 DEF TypeOK, WalkOK, vars, cells
<1> QED
  BY <1>1, <1>2, <1>3, <1>4, <1>5 DEF Next

----------------------------------------------------------------------------
(* The evidence behind a count.                                            *)

(* What NeverOvercounts and EvidenceSoFar say of one CPU. *)
Backed(c) ==
  /\ walk[c].at \in {"store", "stamp"} =>
       walk[c].next <= sent[walk[c].row][Col(c)]
  /\ \A r \in Visited(c) : walk[c].mn <= sent[r][Hash[walk[c].flow][r]]

CellsBacked == \A r \in 1..Depth, k \in Cols : bytes[r][k] <= sent[r][k]

LEMMA BackedIsEvidence ==
  NeverOvercounts /\ EvidenceSoFar <=> CellsBacked /\ \A c \in CPUs : Backed(c)
  BY DEF NeverOvercounts, EvidenceSoFar, CellsBacked, Backed

(* A CPU whose walk does not change keeps its backing: sent only grows. *)
LEMMA OthersStayBacked ==
  ASSUME TypeOK, WalkOK, TypeOK', NEW d \in CPUs, Backed(d), walk'[d] = walk[d],
         \A r \in 1..Depth, k \in Cols : sent[r][k] <= sent'[r][k]
  PROVE  Backed(d)'
<1> DEFINE w == walk[d]
<1>0. /\ w \in Walk /\ w.next \in Nat /\ w.mn \in Nat
      /\ \A r \in 1..Depth, k \in Cols : sent[r][k] \in Nat /\ sent'[r][k] \in Nat
  <2>1. w \in Walk
    BY DEF TypeOK
  <2>2. \A r \in 1..Depth, k \in Cols : sent[r][k] \in Nat
    BY CellRead
  <2>3. \A r \in 1..Depth, k \in Cols : sent'[r][k] \in Nat
    BY DEF TypeOK, Cell
  <2> QED
    BY <2>1, <2>2, <2>3, RegisterRead
<1>1. ASSUME w.at \in {"store", "stamp"}
      PROVE  w.next <= sent'[w.row][Hash[w.flow][w.row]]
  <2>1. w.row \in 1..Depth /\ Col(d) \in Cols /\ Col(d) = Hash[w.flow][w.row]
    BY <1>1, ColInRange DEF Col
  <2>2. w.next <= sent[w.row][Col(d)]
    BY <1>1 DEF Backed
  <2> HIDE DEF w
  <2>3. /\ sent[w.row][Col(d)] <= sent'[w.row][Col(d)]
        /\ sent[w.row][Col(d)] \in Nat /\ sent'[w.row][Col(d)] \in Nat
    BY <1>0, <2>1
  <2>4. w.next <= sent'[w.row][Col(d)]
    BY <1>0, <2>2, <2>3
  <2> QED
    BY <2>1, <2>4
<1>2. ASSUME NEW r \in Visited(d)
      PROVE  w.mn <= sent'[r][Hash[w.flow][r]]
  <2>1. r \in 1..Depth /\ w.at # "idle"
    BY DEF Visited
  <2>2. Hash[w.flow][r] \in Cols
    BY <2>1, ColInRange, SketchAssumption
  <2>3. w.mn <= sent[r][Hash[w.flow][r]]
    BY DEF Backed
  <2> DEFINE k == Hash[w.flow][r]
  <2> HIDE DEF k, w
  <2>4. /\ sent[r][k] <= sent'[r][k] /\ k \in Cols
        /\ sent[r][k] \in Nat /\ sent'[r][k] \in Nat
    BY <1>0, <2>1, <2>2 DEF k
  <2>5. w.mn <= sent[r][k]
    BY <2>3 DEF k
  <2>6. w.mn <= sent'[r][k]
    BY <1>0, <2>4, <2>5
  <2> QED
    BY <2>6 DEF k
<1>3. Visited(d)' = Visited(d) /\ Col(d)' = Hash[w.flow][w.row]
  BY DEF Visited, Col
<1> QED
  BY <1>1, <1>2, <1>3 DEF Backed

(* The loads and stores of one CPU keep every counter and every register   *)
(* backed by packets that came.                                            *)
LEMMA StepBacked ==
  ASSUME SketchInv, TypeOK', NEW c \in CPUs, Step(c)
  PROVE  /\ CellsBacked' /\ Backed(c)'
         /\ \A r \in 1..Depth, k \in Cols : sent[r][k] <= sent'[r][k]
<1> DEFINE w == walk[c]
           v == walk'[c]
           k == Col(c)
<1>0. TypeOK /\ WalkOK /\ CellsBacked /\ Backed(c)
  BY BackedIsEvidence DEF SketchInv
<1>1. /\ w \in Walk /\ v \in Walk /\ w.at # "idle" /\ v.flow = w.flow
      /\ walk \in [CPUs -> Walk]
  BY <1>0, StepWalk DEF TypeOK
<1>2. /\ w.row \in 1..Depth /\ w.flow \in Flows /\ k \in Cols
      /\ k = Hash[w.flow][w.row]
      /\ \A r \in 1..Depth : Hash[w.flow][r] \in Cols
  BY <1>0, <1>1, ColInRange, SketchAssumption DEF Col
<1>3. /\ bytes \in Cell(0..AllOnes) /\ sent \in Cell(Nat)
      /\ \A i \in 1..Depth, j \in Cols : bytes[i][j] \in Nat /\ sent[i][j] \in Nat
      /\ w.next \in Nat /\ w.mn \in Nat /\ w.len \in Nat /\ Depth \in Nat
  <2>1. bytes \in Cell(0..AllOnes) /\ sent \in Cell(Nat) /\ Depth \in Nat
    BY <1>0, SketchAssumption DEF TypeOK
  <2> QED
    BY <1>0, <1>1, <2>1, CellRead, RegisterRead
<1>4. CASE LoadIdx(c)
  <2>1. /\ UNCHANGED <<bytes, sent>>
        /\ v.at = "count" /\ v.row = w.row /\ v.mn = w.mn /\ w.at = "age"
    BY <1>1, <1>4 DEF LoadIdx, cells, Walk
  <2>2. Visited(c)' = Visited(c)
    BY <1>1, <2>1 DEF Visited
  <2>3. Backed(c)'
    BY <1>0, <1>1, <2>1, <2>2 DEF Backed
  <2> QED
    BY <1>0, <1>3, <2>1, <2>3 DEF CellsBacked
<1>5. CASE LoadBytes(c)
  <2> DEFINE x == sent[w.row][k] + w.len
  <2>1. /\ bytes' = bytes
        /\ sent' = [sent EXCEPT ![w.row][k] = x]
        /\ v.at = "store" /\ v.row = w.row /\ v.mn = w.mn /\ w.at = "count"
        /\ v.next = (Faded(bytes[w.row][k], w.elapsed) + w.len) % CellWord
    BY <1>1, <1>5 DEF LoadBytes, cells, Walk
  <2>2. v.next \in 0..AllOnes /\ v.next <= bytes[w.row][k] + w.len
    BY <1>0, <1>5, <2>1, NextValue
  <2>3. bytes[w.row][k] <= sent[w.row][k] /\ sent[w.row][k] \in Nat
    BY <1>0, <1>2, <1>3 DEF CellsBacked
  <2>4. x \in Nat /\ sent[w.row][k] <= x
    BY <1>3, <2>3
  <2>5. v.next <= x
    <3>1. v.next \in Nat /\ bytes[w.row][k] \in Nat
      BY <1>2, <1>3, <2>2, WordPositive DEF AllOnes
    <3> DEFINE b == bytes[w.row][k]
               s == sent[w.row][k]
    <3>2. v.next <= b + w.len /\ b <= s /\ s \in Nat /\ b \in Nat /\ v.next \in Nat
      BY <2>2, <2>3, <3>1
    <3> HIDE DEF b, s, v, w
    <3>3. v.next <= s + w.len
      BY <1>3, <3>2
    <3> QED
      BY <3>3 DEF s
  <2> HIDE DEF x
  <2>6. \A i \in 1..Depth, j \in Cols :
          sent'[i][j] = IF i = w.row /\ j = k THEN x ELSE sent[i][j]
    BY <1>2, <1>3, <2>1, <2>4 DEF Cell
  <2> HIDE DEF k
  <2>7. \A i \in 1..Depth, j \in Cols : sent[i][j] <= sent'[i][j]
    BY <1>3, <2>4, <2>6
  <2>8. CellsBacked'
    <3> SUFFICES ASSUME NEW i \in 1..Depth, NEW j \in Cols
                 PROVE  bytes'[i][j] <= sent'[i][j]
      BY DEF CellsBacked
    <3>1. /\ bytes'[i][j] = bytes[i][j] /\ bytes[i][j] <= sent[i][j]
          /\ bytes[i][j] \in Nat /\ sent[i][j] \in Nat
          /\ sent[i][j] <= sent'[i][j]
      BY <1>0, <1>3, <2>1, <2>7 DEF CellsBacked
    <3>2. sent'[i][j] \in Nat
      BY DEF TypeOK, Cell
    <3> QED
      BY <3>1, <3>2
  <2>9. Backed(c)'
    <3>1. Visited(c)' = Visited(c)
      BY <2>1 DEF Visited
    <3>2. ASSUME NEW r \in Visited(c) PROVE v.mn <= sent'[r][Hash[v.flow][r]]
      <4> DEFINE h == Hash[w.flow][r]
      <4>1. r \in 1..Depth /\ h \in Cols /\ w.mn <= sent[r][h]
        BY <1>0, <1>2 DEF Visited, Backed
      <4>2. /\ sent[r][h] \in Nat /\ sent'[r][h] \in Nat
            /\ sent[r][h] <= sent'[r][h]
        BY <1>3, <2>7, <4>1 DEF TypeOK, Cell
      <4> HIDE DEF h, w
      <4>3. w.mn <= sent'[r][h]
        BY <1>3, <4>1, <4>2
      <4> QED
        BY <1>1, <2>1, <4>3 DEF h
    <3>3. v.next <= sent'[v.row][Col(c)']
      <4>1. Col(c)' = k
        BY <1>1, <1>2, <2>1 DEF Col
      <4>2. sent'[w.row][k] = x
        BY <1>2, <2>6
      <4> QED
        BY <2>1, <2>5, <4>1, <4>2
    <3> QED
      BY <3>1, <3>2, <3>3 DEF Backed
  <2> QED
    BY <2>7, <2>8, <2>9
<1>6. CASE StoreBytes(c)
  <2>1. /\ sent' = sent
        /\ bytes' = [bytes EXCEPT ![w.row][k] = w.next]
        /\ w.at = "store" /\ v.at = "stamp"
        /\ v.row = w.row /\ v.mn = w.mn /\ v.next = w.next
    BY <1>1, <1>6 DEF StoreBytes, Walk
  <2>2. w.next <= sent[w.row][k]
    BY <1>0, <2>1 DEF Backed
  <2>3. w.next \in 0..AllOnes
    BY <1>1, WalkFields
  <2>4. \A i \in 1..Depth, j \in Cols :
          bytes'[i][j] = IF i = w.row /\ j = k THEN w.next ELSE bytes[i][j]
    BY <1>2, <1>3, <2>1, <2>3 DEF Cell
  <2>5. CellsBacked'
    BY <1>0, <2>1, <2>2, <2>4 DEF CellsBacked
  <2>6. Visited(c)' = Visited(c)
    BY <2>1 DEF Visited
  <2>7. Col(c)' = k
    BY <1>1, <1>2, <2>1 DEF Col
  <2>8. Backed(c)'
    BY <1>0, <1>1, <2>1, <2>2, <2>6, <2>7 DEF Backed
  <2> QED
    BY <1>3, <2>1, <2>5, <2>8
<1>7. CASE StoreIdx(c)
  <2>1. /\ UNCHANGED <<bytes, sent>>
        /\ w.at = "stamp" /\ v.at = IF w.row < Depth THEN "age" ELSE "done"
        /\ v.row = IF w.row < Depth THEN w.row + 1 ELSE w.row
        /\ v.mn = Lesser(w.next, w.mn)
    BY <1>1, <1>7 DEF StoreIdx, NextRow, Walk
  <2>2. w.next <= sent[w.row][k]
    BY <1>0, <2>1 DEF Backed
  <2>3. Visited(c)' \subseteq Visited(c) \union {w.row}
    BY <1>2, <1>3, <2>1 DEF Visited
  <2>4. v.mn \in Nat /\ v.mn <= w.next /\ v.mn <= w.mn
    BY <1>3, <2>1 DEF Lesser
  <2>5. ASSUME NEW r \in Visited(c)' PROVE v.mn <= sent'[r][Hash[v.flow][r]]
    <3> DEFINE h == Hash[w.flow][r]
    <3>1. r \in 1..Depth /\ h \in Cols
      BY <1>2 DEF Visited
    <3>2. sent[r][h] \in Nat
      BY <1>3, <3>1
    <3>3. w.mn <= sent[r][h] \/ w.next <= sent[r][h]
      BY <1>0, <1>2, <2>2, <2>3 DEF Backed
    <3> HIDE DEF h, w, v
    <3>4. v.mn <= sent[r][h]
      BY <1>3, <2>4, <3>2, <3>3
    <3> QED
      BY <1>1, <2>1, <3>4 DEF h
  <2>6. Backed(c)'
    BY <2>1, <2>5 DEF Backed
  <2> QED
    BY <1>0, <1>3, <2>1, <2>6 DEF CellsBacked
<1> QED
  BY <1>4, <1>5, <1>6, <1>7 DEF Step

LEMMA NextSketchInv == SketchInv /\ [Next]_vars => SketchInv'
<1> SUFFICES ASSUME SketchInv, [Next]_vars PROVE SketchInv'
  OBVIOUS
<1>1. TypeOK /\ WalkOK /\ CellsBacked /\ \A c \in CPUs : Backed(c)
  BY BackedIsEvidence DEF SketchInv
<1>2. TypeOK' /\ WalkOK'
  BY <1>1, TypeStep
<1>3. ASSUME UNCHANGED <<bytes, sent, walk>>
      PROVE  CellsBacked' /\ \A c \in CPUs : Backed(c)'
  BY <1>1, <1>3 DEF CellsBacked, Backed, Visited, Col
<1>4. ASSUME NEW c \in CPUs, Step(c)
      PROVE  CellsBacked' /\ \A d \in CPUs : Backed(d)'
  <2>1. /\ CellsBacked' /\ Backed(c)'
        /\ \A r \in 1..Depth, k \in Cols : sent[r][k] <= sent'[r][k]
    BY <1>2, <1>4, StepBacked
  <2>2. ASSUME NEW d \in CPUs \ {c} PROVE Backed(d)'
    <3>1. walk'[d] = walk[d]
      BY <1>1, <1>4, StepWalk, WalkUpdate
    <3> QED
      BY <1>1, <1>2, <2>1, <3>1, OthersStayBacked
  <2> QED
    BY <2>1, <2>2
<1>5. ASSUME NEW c \in CPUs, NEW w \in Walk, walk' = [walk EXCEPT ![c] = w],
             w.at = "idle" \/ (w.at = "age" /\ w.row = 1),
             UNCHANGED <<bytes, sent>>
      PROVE  CellsBacked' /\ \A d \in CPUs : Backed(d)'
  <2>1. walk'[c] = w /\ \A d \in CPUs \ {c} : walk'[d] = walk[d]
    BY <1>1, <1>5, WalkUpdate
  <2>2. Visited(c)' = {}
    BY <1>5, <2>1 DEF Visited
  <2>3. Backed(c)'
    BY <1>5, <2>1, <2>2 DEF Backed
  <2>4. \A r \in 1..Depth, k \in Cols : sent[r][k] <= sent'[r][k]
    BY <1>1, <1>5, CellRead
  <2>5. ASSUME NEW d \in CPUs \ {c} PROVE Backed(d)'
    BY <1>1, <1>2, <2>1, <2>4, OthersStayBacked
  <2> QED
    BY <1>1, <1>5, <2>3, <2>5 DEF CellsBacked
<1>6. ASSUME NEW c \in CPUs, NEW f \in Flows, NEW n \in Lens, NEW i \in Readings,
             Begin(c, f, n, i)
      PROVE  CellsBacked' /\ \A d \in CPUs : Backed(d)'
  <2> DEFINE w == walk'[c]
  <2>1. /\ walk' = [walk EXCEPT ![c] = w] /\ w.at = "age" /\ w.row = 1
        /\ UNCHANGED <<bytes, sent>>
    BY <1>1, <1>6 DEF Begin, Idle, cells, TypeOK
  <2>2. w \in Walk
    BY <1>2 DEF TypeOK
  <2> HIDE DEF w
  <2> QED
    BY <1>5, <2>1, <2>2
<1>7. ASSUME NEW c \in CPUs, Take(c)
      PROVE  CellsBacked' /\ \A d \in CPUs : Backed(d)'
  <2> DEFINE w == walk'[c]
  <2>1. /\ walk' = [walk EXCEPT ![c] = w] /\ w.at = "idle"
        /\ UNCHANGED <<bytes, sent>>
    BY <1>1, <1>7 DEF Take, Idle, cells, TypeOK
  <2>2. w \in Walk
    BY <1>2 DEF TypeOK
  <2> HIDE DEF w
  <2> QED
    BY <1>5, <2>1, <2>2
<1>8. ASSUME Boundary \/ UNCHANGED vars PROVE UNCHANGED <<bytes, sent, walk>>
  BY <1>8 DEF Boundary, vars, cells
<1>9. CellsBacked' /\ \A c \in CPUs : Backed(c)'
  BY <1>3, <1>4, <1>6, <1>7, <1>8 DEF Next
<1>10. NeverOvercounts' /\ EvidenceSoFar'
  BY <1>9 DEF NeverOvercounts, EvidenceSoFar, CellsBacked, Backed
<1> QED
  BY <1>2, <1>10 DEF SketchInv

----------------------------------------------------------------------------
(* Shifts of a counter that fits its cell.                                 *)

LEMMA DivGalois ==
  ASSUME NEW x \in Nat, NEW a \in Nat, NEW b \in Nat \ {0}
  PROVE  x <= a \div b <=> x * b <= a
<1> DEFINE q == a \div b
<1>1. q \in Nat /\ q * b <= a /\ a < (q + 1) * b
  OBVIOUS
<1> HIDE DEF q
<1>2. ASSUME x <= q PROVE x * b <= a
  <2>1. x * b <= q * b
    BY <1>1, <1>2
  <2>2. x * b \in Nat /\ q * b \in Nat
    BY <1>1
  <2> QED
    BY <1>1, <2>1, <2>2
<1>3. ASSUME ~(x <= q) PROVE ~(x * b <= a)
  <2>1. (q + 1) * b <= x * b
    <3>1. q + 1 \in Nat /\ q + 1 <= x
      BY <1>1, <1>3
    <3>2. \A i, j, k \in Nat : i <= j => i * k <= j * k
      OBVIOUS
    <3> QED
      BY <3>1, <3>2
  <2>2. x * b \in Nat /\ (q + 1) * b \in Nat
    BY <1>1
  <2> QED
    BY <1>1, <2>1, <2>2
<1> QED
  BY <1>2, <1>3 DEF q

LEMMA DivNat ==
  ASSUME NEW a \in Nat, NEW b \in Nat \ {0}
  PROVE  a \div b \in Nat
  OBVIOUS

LEMMA ProductNat == \A x, y \in Nat : x * y \in Nat
  OBVIOUS

LEMMA ProductPositive == \A x, y \in Nat \ {0} : x * y \in Nat \ {0}
  OBVIOUS

(* To shift twice is to shift by the sum. *)
LEMMA DivDiv ==
  ASSUME NEW a \in Nat, NEW b \in Nat \ {0}, NEW c \in Nat \ {0}
  PROVE  (a \div b) \div c = a \div (b * c)
<1> DEFINE y == (a \div b) \div c
           z == a \div (b * c)
<1>1. b * c \in Nat \ {0} /\ a \div b \in Nat
  BY ProductPositive, DivNat
<1>2. y \in Nat /\ z \in Nat
  BY <1>1, DivNat
<1>3. \A x \in Nat : x <= y <=> x <= z
  <2> SUFFICES ASSUME NEW x \in Nat PROVE x <= y <=> x <= z
    OBVIOUS
  <2>1. x * c \in Nat
    BY ProductNat
  <2>2. x <= y <=> x * c <= a \div b
    BY <1>1, DivGalois
  <2>3. x * c <= a \div b <=> (x * c) * b <= a
    BY <2>1, DivGalois
  <2>4. x <= z <=> x * (b * c) <= a
    BY <1>1, DivGalois
  <2>5. (x * c) * b = x * (b * c)
    OBVIOUS
  <2> QED
    BY <2>2, <2>3, <2>4, <2>5
<1> HIDE DEF y, z
<1>4. y <= z /\ z <= y
  BY <1>2, <1>3
<1>5. y = z
  BY <1>2, <1>4
<1> QED
  BY <1>5 DEF y, z

(* A shift of a sum is the sum of the shifts, or one more. *)
LEMMA DivSum ==
  ASSUME NEW a \in Nat, NEW n \in Nat, NEW d \in Nat \ {0}
  PROVE  (a + n) \div d - (a \div d + n \div d) \in {0, 1}
<1> DEFINE p == a \div d
           q == n \div d
           s == (a + n) \div d
<1>1. p \in Nat /\ p * d <= a /\ a < (p + 1) * d
  OBVIOUS
<1>2. q \in Nat /\ q * d <= n /\ n < (q + 1) * d
  OBVIOUS
<1>3. s \in Nat /\ s * d <= a + n
  OBVIOUS
<1>4. p + q <= s <=> (p + q) * d <= a + n
  <2>1. p + q \in Nat /\ a + n \in Nat
    BY <1>1, <1>2
  <2> QED
    BY <2>1, DivGalois
<1>5. p + q + 2 <= s <=> (p + q + 2) * d <= a + n
  <2>1. p + q + 2 \in Nat /\ a + n \in Nat
    BY <1>1, <1>2
  <2> QED
    BY <2>1, DivGalois
<1> HIDE DEF p, q, s
<1>6. (p + q) * d = p * d + q * d /\ p * d \in Nat /\ q * d \in Nat
  BY <1>1, <1>2
<1>7. (p + q + 2) * d = (p + 1) * d + (q + 1) * d /\ (p + 1) * d \in Nat /\ (q + 1) * d \in Nat
  BY <1>1, <1>2
<1>8. p + q <= s /\ ~(p + q + 2 <= s)
  BY <1>1, <1>2, <1>4, <1>5, <1>6, <1>7
<1>9. s - (p + q) \in {0, 1}
  BY <1>1, <1>2, <1>3, <1>8
<1> QED
  BY <1>9 DEF p, q, s

(* A shift of 64 or more leaves nothing of a counter, as it is written.    *)
LEMMA FadedIsShift ==
  ASSUME NEW b \in 0..AllOnes, NEW e \in Nat
  PROVE  Faded(b, e) = b \div Pow2[e]
<1>0. /\ CellBits \in Nat /\ CellWord = Pow2[CellBits] /\ CellWord \in Nat \ {0}
      /\ b \in Nat /\ b < CellWord
  BY SketchAssumption, WordPositive DEF CellWord, AllOnes
<1>1. CASE e < CellBits
  BY <1>0, <1>1 DEF Faded
<1>2. CASE e >= CellBits
  <2>1. e - CellBits \in Nat /\ CellBits + (e - CellBits) = e
    BY <1>0, <1>2
  <2>2. Pow2[e] = CellWord * Pow2[e - CellBits] /\ Pow2[e - CellBits] \in Nat \ {0}
    BY <1>0, <2>1, Pow2Add, Pow2Positive
  <2>3. \A x \in Nat, y \in Nat \ {0} : x <= x * y
    OBVIOUS
  <2>4. b < Pow2[e] /\ Pow2[e] \in Nat \ {0}
    <3>1. CellWord <= Pow2[e]
      BY <1>0, <2>2, <2>3
    <3> QED
      BY <1>0, <3>1, Pow2Positive
  <2>5. \A x, y \in Nat : x < y => x \div y = 0
    OBVIOUS
  <2>6. b \div Pow2[e] = 0
    BY <1>0, <2>4, <2>5
  <2> QED
    BY <1>2, <2>6 DEF Faded
<1> QED
  BY <1>0, <1>1, <1>2

----------------------------------------------------------------------------
(* One CPU, with one clock: nothing is lost, and aging is exact.           *)

OneClock(c) == CPUs = {c} /\ IdxLag = 0

(* No counter overflows: m bounds a packet.                                *)
CountsFit(m) ==
  /\ m \in Nat
  /\ \A n \in Lens : n <= m
  /\ m * MaxPackets < CellWord

(* The packet of CPU c is not in the count of row r yet, nor in its cell.  *)
Unsent(c, r) ==
  /\ walk[c].at # "idle"
  /\ r > walk[c].row \/ (r = walk[c].row /\ walk[c].at \in {"age", "count"})

Pending(c, r) ==
  /\ walk[c].at # "idle"
  /\ r > walk[c].row \/ (r = walk[c].row /\ walk[c].at \in {"age", "count", "store"})

(* The intervals a packet finds a cell behind. *)
Age(c, r, k) == walk[c].idx - last_decay_idx[r][k]

(* No cell is ahead of the packet in hand, and the registers say what the  *)
(* cell says.                                                              *)
InStep(c) ==
  /\ walk[c].at # "idle" =>
       /\ walk[c].len \in Lens /\ walk[c].idx <= now_idx
       /\ \A r \in 1..Depth, k \in Cols : last_decay_idx[r][k] <= walk[c].idx
  /\ \A r \in 1..Depth, k \in Cols : last_decay_idx[r][k] <= now_idx
  /\ walk[c].at \in {"count", "store", "stamp"} =>
       walk[c].elapsed = Age(c, walk[c].row, Col(c))
  /\ walk[c].at = "store" =>
       walk[c].next = Faded(bytes[walk[c].row][Col(c)], walk[c].elapsed) + walk[c].len
  /\ walk[c].at = "stamp" =>
       walk[c].next = bytes[walk[c].row][Col(c)]
  /\ walk[c].at = "done" => walk[c].row = Depth

(* What bounds a packet bounds the counters. *)
Bounded(c, m) ==
  /\ \A r \in 1..Depth, k \in Cols :
       sent[r][k] + (IF Unsent(c, r) THEN walk[c].len ELSE 0) <= m * counted
  /\ \A f \in Flows : own[f] <= m * counted

(* A flow's own bytes, put back to the interval the cell is aged to, are   *)
(* in the cell; or will be once the packet in hand is.                     *)
CoversCell(c, f, r) ==
  LET k == Hash[f][r]
  IN  IF Pending(c, r) /\ f = walk[c].flow
        THEN own[f] * Pow2[now_idx - walk[c].idx]
               <= Faded(bytes[r][k], Age(c, r, k)) + walk[c].len
        ELSE own[f] * Pow2[now_idx - AgedTo(r, k)] <= bytes[r][k]

Covers(c) ==
  /\ \A f \in Flows, r \in 1..Depth : CoversCell(c, f, r)
  /\ walk[c].at # "idle" =>
       own[walk[c].flow] * Pow2[now_idx - walk[c].idx] <= walk[c].mn

(* The steps of a walk, field by field. *)
Goes(c, from, to) ==
  /\ walk[c].at = from /\ walk'[c].at = to
  /\ walk'[c].flow = walk[c].flow /\ walk'[c].len = walk[c].len /\ walk'[c].idx = walk[c].idx
  /\ UNCHANGED <<now_idx, own, counted>>

LEMMA WalkIs ==
  ASSUME TypeOK, WalkOK, NEW c \in CPUs
  PROVE  /\ walk \in [CPUs -> Walk] /\ walk[c] \in Walk
         /\ walk[c].idx \in Nat /\ walk[c].elapsed \in Nat /\ walk[c].len \in Nat
         /\ walk[c].next \in Nat /\ walk[c].mn \in Nat /\ walk[c].row \in Nat
         /\ walk[c].at \in {"idle", "age", "count", "store", "stamp", "done"}
         /\ walk[c].at # "idle" =>
              /\ walk[c].row \in 1..Depth /\ walk[c].flow \in Flows
              /\ Col(c) = Hash[walk[c].flow][walk[c].row] /\ Col(c) \in Cols
<1>1. walk \in [CPUs -> Walk] /\ walk[c] \in Walk /\ MaxIdx \in Nat /\ Depth \in Nat
  BY SketchAssumption DEF TypeOK
<1>2. /\ walk[c].idx \in 0..MaxIdx /\ walk[c].row \in 0..Depth
      /\ walk[c].at \in {"idle", "age", "count", "store", "stamp", "done"}
  BY <1>1 DEF Walk
<1> QED
  BY <1>1, <1>2, WalkFields, RegisterRead, ColInRange DEF Col

LEMMA LoadIdxDoes ==
  ASSUME TypeOK, WalkOK, NEW c \in CPUs, LoadIdx(c)
  PROVE  /\ Goes(c, "age", "count")
         /\ walk'[c].row = walk[c].row /\ walk'[c].mn = walk[c].mn
         /\ walk'[c].elapsed =
              LET last == last_decay_idx[walk[c].row][Col(c)]
              IN  IF walk[c].idx > last THEN walk[c].idx - last ELSE 0
         /\ UNCHANGED <<cells, sent>>
<1>1. walk \in [CPUs -> Walk] /\ walk[c] \in Walk
  BY WalkIs
<1> QED
  BY <1>1 DEF LoadIdx, Goes, Walk

LEMMA LoadBytesDoes ==
  ASSUME TypeOK, WalkOK, NEW c \in CPUs, LoadBytes(c)
  PROVE  /\ Goes(c, "count", "store")
         /\ walk'[c].row = walk[c].row /\ walk'[c].mn = walk[c].mn
         /\ walk'[c].elapsed = walk[c].elapsed
         /\ walk'[c].next = (Faded(bytes[walk[c].row][Col(c)], walk[c].elapsed)
                               + walk[c].len) % CellWord
         /\ \A r \in 1..Depth, k \in Cols :
              sent'[r][k] = IF r = walk[c].row /\ k = Col(c)
                              THEN sent[r][k] + walk[c].len ELSE sent[r][k]
         /\ UNCHANGED cells
<1>1. walk \in [CPUs -> Walk] /\ walk[c] \in Walk /\ sent \in Cell(Nat)
  BY WalkIs DEF TypeOK
<1> QED
  BY <1>1 DEF LoadBytes, Goes, Walk, Cell

LEMMA StoreBytesDoes ==
  ASSUME TypeOK, WalkOK, NEW c \in CPUs, StoreBytes(c)
  PROVE  /\ Goes(c, "store", "stamp")
         /\ walk'[c].row = walk[c].row /\ walk'[c].mn = walk[c].mn
         /\ walk'[c].elapsed = walk[c].elapsed /\ walk'[c].next = walk[c].next
         /\ \A r \in 1..Depth, k \in Cols :
              bytes'[r][k] = IF r = walk[c].row /\ k = Col(c)
                               THEN walk[c].next ELSE bytes[r][k]
         /\ UNCHANGED <<last_decay_idx, sent>>
<1>1. walk \in [CPUs -> Walk] /\ walk[c] \in Walk /\ bytes \in Cell(0..AllOnes)
  BY WalkIs DEF TypeOK
<1> QED
  BY <1>1 DEF StoreBytes, Goes, Walk, Cell

LEMMA StoreIdxDoes ==
  ASSUME TypeOK, WalkOK, NEW c \in CPUs, StoreIdx(c)
  PROVE  /\ \/ walk[c].row < Depth /\ Goes(c, "stamp", "age") /\ walk'[c].row = walk[c].row + 1
            \/ walk[c].row = Depth /\ Goes(c, "stamp", "done") /\ walk'[c].row = walk[c].row
         /\ walk'[c].mn = Lesser(walk[c].next, walk[c].mn)
         /\ \A r \in 1..Depth, k \in Cols :
              last_decay_idx'[r][k] = IF r = walk[c].row /\ k = Col(c) /\ walk[c].elapsed > 0
                                        THEN walk[c].idx ELSE last_decay_idx[r][k]
         /\ UNCHANGED <<bytes, sent>>
<1>1. walk \in [CPUs -> Walk] /\ walk[c] \in Walk /\ last_decay_idx \in Cell(0..MaxIdx)
  BY WalkIs DEF TypeOK
<1>2. walk[c].at = "stamp"
  BY DEF StoreIdx
<1>3. walk[c].row \in 1..Depth /\ Depth \in Nat
  BY <1>2, WalkIs, SketchAssumption
<1>4. walk'[c] = NextRow(walk[c])
  BY <1>1 DEF StoreIdx
<1>5. \A r \in 1..Depth, k \in Cols :
        last_decay_idx'[r][k] = IF r = walk[c].row /\ k = Col(c) /\ walk[c].elapsed > 0
                                  THEN walk[c].idx ELSE last_decay_idx[r][k]
  BY <1>1 DEF StoreIdx, Cell
<1>6. \/ walk[c].row < Depth /\ Goes(c, "stamp", "age") /\ walk'[c].row = walk[c].row + 1
      \/ walk[c].row = Depth /\ Goes(c, "stamp", "done") /\ walk'[c].row = walk[c].row
  BY <1>1, <1>2, <1>3, <1>4 DEF StoreIdx, Goes, NextRow, Walk
<1>7. walk'[c].mn = Lesser(walk[c].next, walk[c].mn)
  BY <1>1, <1>4 DEF NextRow, Walk
<1> QED
  BY <1>5, <1>6, <1>7 DEF StoreIdx

LEMMA TakeDoes ==
  ASSUME TypeOK, WalkOK, NEW c \in CPUs, Take(c)
  PROVE  /\ walk[c].at = "done" /\ walk'[c].at = "idle"
         /\ UNCHANGED <<cells, sent, now_idx, own, counted>>
<1>1. walk \in [CPUs -> Walk] /\ walk[c] \in Walk
  BY WalkIs
<1> QED
  BY <1>1 DEF Take, Idle

LEMMA BeginDoes ==
  ASSUME TypeOK, WalkOK, NEW c \in CPUs, OneClock(c),
         NEW f \in Flows, NEW n \in Lens, NEW i \in Readings, Begin(c, f, n, i)
  PROVE  /\ walk[c].at = "idle" /\ walk'[c].at = "age" /\ walk'[c].flow = f
         /\ walk'[c].len = n /\ walk'[c].idx = now_idx /\ walk'[c].row = 1
         /\ walk'[c].mn = AllOnes
         /\ counted' = counted + 1 /\ counted < MaxPackets
         /\ \A g \in Flows : own'[g] = IF g = f THEN own[g] + n ELSE own[g]
         /\ UNCHANGED <<cells, sent, now_idx>>
<1>1. walk \in [CPUs -> Walk] /\ walk[c] \in Walk /\ own \in [Flows -> Nat]
  BY WalkIs DEF TypeOK
<1>2. i = now_idx
  <2>1. now_idx \in 0..MaxIdx /\ MaxIdx \in Nat
    BY SketchAssumption DEF TypeOK
  <2> QED
    BY <2>1 DEF Readings, OneClock
<1> QED
  BY <1>1, <1>2 DEF Begin, Idle

(* Between the two stores a cell counts as aged to the interval in hand. *)
LEMMA AgedToIs ==
  \A c \in CPUs : TypeOK /\ WalkOK /\ OneClock(c) /\ InStep(c) =>
    \A r \in 1..Depth, k \in Cols :
      AgedTo(r, k) = IF walk[c].at = "stamp" /\ walk[c].row = r /\ Col(c) = k
                       THEN walk[c].idx ELSE last_decay_idx[r][k]
<1> SUFFICES ASSUME NEW c \in CPUs, TypeOK, WalkOK, OneClock(c), InStep(c),
                    NEW r \in 1..Depth, NEW k \in Cols
             PROVE  AgedTo(r, k) = IF walk[c].at = "stamp" /\ walk[c].row = r /\ Col(c) = k
                                     THEN walk[c].idx ELSE last_decay_idx[r][k]
  OBVIOUS
<1> DEFINE writing == {d \in CPUs : /\ walk[d].at = "stamp"
                                    /\ walk[d].elapsed > 0
                                    /\ walk[d].row = r
                                    /\ Col(d) = k}
<1>1. AgedTo(r, k) = IF writing = {} THEN last_decay_idx[r][k]
                     ELSE walk[CHOOSE d \in writing : TRUE].idx
  BY DEF AgedTo
<1>2. \A d \in CPUs : d = c
  BY DEF OneClock
<1>3. writing # {} => (CHOOSE d \in writing : TRUE) = c
  BY <1>2
<1>4. CASE walk[c].at = "stamp" /\ walk[c].row = r /\ Col(c) = k
  <2>1. walk[c].elapsed = walk[c].idx - last_decay_idx[r][k]
    BY <1>4 DEF InStep, Age
  <2>2. walk[c].idx \in Nat /\ last_decay_idx[r][k] \in 0..MaxIdx /\ MaxIdx \in Nat
    <3>1. walk[c].idx \in Nat
      BY WalkIs
    <3>2. last_decay_idx \in Cell(0..MaxIdx)
      BY DEF TypeOK
    <3> QED
      BY <3>1, <3>2, SketchAssumption DEF Cell
  <2>3. CASE walk[c].elapsed > 0
    <3>1. c \in writing
      BY <1>4, <2>3
    <3> QED
      BY <1>1, <1>3, <1>4, <3>1
  <2>4. CASE ~(walk[c].elapsed > 0)
    <3>1. writing = {}
      BY <1>2, <2>4
    <3>2. walk[c].idx = last_decay_idx[r][k]
      <4>1. last_decay_idx[r][k] <= walk[c].idx
        BY <1>4 DEF InStep
      <4> QED
        BY <2>1, <2>2, <2>4, <4>1
    <3> QED
      BY <1>1, <1>4, <3>1, <3>2
  <2> QED
    BY <2>3, <2>4
<1>5. CASE ~(walk[c].at = "stamp" /\ walk[c].row = r /\ Col(c) = k)
  <2>1. writing = {}
    BY <1>2, <1>5
  <2> QED
    BY <1>1, <1>5, <2>1
<1> QED
  BY <1>4, <1>5

LEMMA AgedToNext ==
  (\A c \in CPUs : TypeOK /\ WalkOK /\ OneClock(c) /\ InStep(c) =>
    \A r \in 1..Depth, k \in Cols :
      AgedTo(r, k) = IF walk[c].at = "stamp" /\ walk[c].row = r /\ Col(c) = k
                       THEN walk[c].idx ELSE last_decay_idx[r][k])'
BY AgedToIs, PTL

LEMMA CellsAre ==
  ASSUME TypeOK
  PROVE  /\ \A r \in 1..Depth, k \in Cols :
              /\ bytes[r][k] \in 0..AllOnes /\ bytes[r][k] \in Nat
              /\ last_decay_idx[r][k] \in Nat /\ sent[r][k] \in Nat
         /\ \A f \in Flows : own[f] \in Nat
         /\ now_idx \in Nat /\ counted \in Nat /\ counted <= MaxPackets /\ MaxPackets \in Nat
         /\ AllOnes \in Nat /\ CellWord = AllOnes + 1 /\ Depth \in Nat /\ Lens \subseteq Nat
<1>1. AllOnes \in Nat /\ CellWord = AllOnes + 1 /\ MaxIdx \in Nat /\ MaxPackets \in Nat
  BY WordPositive, SketchAssumption DEF AllOnes
<1>2. \A r \in 1..Depth, k \in Cols :
        bytes[r][k] \in 0..AllOnes /\ last_decay_idx[r][k] \in 0..MaxIdx /\ sent[r][k] \in Nat
  BY DEF TypeOK, Cell
<1> QED
  BY <1>1, <1>2, SketchAssumption DEF TypeOK

LEMMA HashIs == \A f \in Flows, r \in 1..Depth : Hash[f][r] \in Cols
  BY SketchAssumption

(* What counts as unsent fits beside what was sent: the counter it makes   *)
(* does not wrap.                                                          *)
LEMMA NextFits ==
  ASSUME TypeOK, WalkOK, NEW c \in CPUs, InStep(c), NeverOvercounts,
         NEW m, CountsFit(m), Bounded(c, m), walk[c].at = "count"
  PROVE  LET n == Faded(bytes[walk[c].row][Col(c)], walk[c].elapsed) + walk[c].len
         IN  n \in Nat /\ n % CellWord = n
<1> DEFINE r == walk[c].row
           k == Col(c)
           f == Faded(bytes[r][k], walk[c].elapsed)
           n == f + walk[c].len
<1>1. /\ r \in 1..Depth /\ k \in Cols /\ walk[c].elapsed \in Nat /\ walk[c].len \in Nat
  BY WalkIs
<1>2. bytes[r][k] \in Nat /\ sent[r][k] \in Nat /\ bytes[r][k] <= sent[r][k]
  BY <1>1, CellsAre DEF NeverOvercounts
<1>3. f \in Nat /\ f <= bytes[r][k]
  BY <1>1, <1>2, FadedLeq
<1>4. sent[r][k] + walk[c].len <= m * counted
  <2>1. Unsent(c, r)
    BY DEF Unsent
  <2> QED
    BY <1>1, <2>1 DEF Bounded
<1>5. m * counted \in Nat /\ m * counted <= m * MaxPackets /\ m * MaxPackets < CellWord
      /\ m * MaxPackets \in Nat
  <2>1. m \in Nat /\ counted \in Nat /\ counted <= MaxPackets /\ MaxPackets \in Nat
    BY CellsAre DEF CountsFit
  <2>2. \A x, y, z \in Nat : x <= y => z * x <= z * y
    OBVIOUS
  <2> QED
    BY <2>1, <2>2, ProductNat DEF CountsFit
<1> HIDE DEF f
<1>6. n \in Nat /\ n < CellWord
  BY <1>1, <1>2, <1>3, <1>4, <1>5, WordPositive
<1> HIDE DEF n
<1>7. n % CellWord = n
  BY <1>6, WordPositive
<1> QED
  BY <1>6, <1>7 DEF n, f

LEMMA InStepKeeps ==
  ASSUME TypeOK, WalkOK, NEW c \in CPUs, OneClock(c), InStep(c), NeverOvercounts,
         NEW m, CountsFit(m), Bounded(c, m), [Next]_vars
  PROVE  InStep(c)'
<1>0. \A r \in 1..Depth, k \in Cols : last_decay_idx[r][k] \in Nat /\ last_decay_idx[r][k] <= now_idx
  BY CellsAre DEF InStep
<1>c. now_idx \in Nat
  BY CellsAre
<1>1. CASE Boundary
  <2>1. UNCHANGED <<cells, walk>> /\ now_idx' = now_idx + 1
    BY <1>1 DEF Boundary
  <2>2. walk[c].idx \in Nat
    BY WalkIs
  <2> QED
    BY <1>0, <1>c, <2>1, <2>2 DEF InStep, Age, Col, cells, Faded
<1>2. ASSUME NEW f \in Flows, NEW n \in Lens, NEW i \in Readings, Begin(c, f, n, i)
      PROVE  InStep(c)'
  <2>1. /\ walk'[c].at = "age" /\ walk'[c].len = n /\ walk'[c].idx = now_idx
        /\ UNCHANGED <<cells, now_idx>>
    BY <1>2, BeginDoes
  <2> QED
    BY <1>0, <1>c, <2>1 DEF InStep, cells
<1>3. CASE LoadIdx(c)
  <2>1. /\ Goes(c, "age", "count") /\ walk'[c].row = walk[c].row /\ UNCHANGED cells
        /\ walk'[c].elapsed =
             LET last == last_decay_idx[walk[c].row][Col(c)]
             IN  IF walk[c].idx > last THEN walk[c].idx - last ELSE 0
    BY <1>3, LoadIdxDoes
  <2>2. /\ walk[c].row \in 1..Depth /\ Col(c) \in Cols /\ Col(c)' = Col(c)
        /\ walk[c].idx \in Nat
    BY <2>1, WalkIs DEF Goes, Col
  <2>3. walk'[c].elapsed = Age(c, walk[c].row, Col(c))
    BY <1>0, <2>1, <2>2 DEF InStep, Goes, Age
  <2> QED
    BY <2>1, <2>2, <2>3 DEF InStep, Goes, Age, cells
<1>4. CASE LoadBytes(c)
  <2>1. /\ Goes(c, "count", "store") /\ walk'[c].row = walk[c].row /\ UNCHANGED cells
        /\ walk'[c].elapsed = walk[c].elapsed
        /\ walk'[c].next = Faded(bytes[walk[c].row][Col(c)], walk[c].elapsed) + walk[c].len
    BY <1>4, LoadBytesDoes, NextFits DEF Goes
  <2>2. Col(c)' = Col(c)
    BY <2>1 DEF Goes, Col
  <2> QED
    BY <2>1, <2>2 DEF InStep, Goes, Age, cells, Faded
<1>5. CASE StoreBytes(c)
  <2>1. /\ Goes(c, "store", "stamp") /\ walk'[c].row = walk[c].row
        /\ walk'[c].elapsed = walk[c].elapsed /\ walk'[c].next = walk[c].next
        /\ \A r \in 1..Depth, k \in Cols :
              bytes'[r][k] = IF r = walk[c].row /\ k = Col(c)
                               THEN walk[c].next ELSE bytes[r][k]
        /\ UNCHANGED last_decay_idx
    BY <1>5, StoreBytesDoes
  <2>2. walk[c].row \in 1..Depth /\ Col(c) \in Cols /\ Col(c)' = Col(c)
    BY <2>1, WalkIs DEF Goes, Col
  <2> QED
    BY <2>1, <2>2 DEF InStep, Goes, Age
<1>6. CASE StoreIdx(c)
  <2>1. /\ \/ Goes(c, "stamp", "age")
           \/ Goes(c, "stamp", "done") /\ walk'[c].row = Depth
        /\ \A r \in 1..Depth, k \in Cols :
              last_decay_idx'[r][k] = IF r = walk[c].row /\ k = Col(c) /\ walk[c].elapsed > 0
                                        THEN walk[c].idx ELSE last_decay_idx[r][k]
    BY <1>6, StoreIdxDoes
  <2>2. walk[c].idx \in Nat /\ walk[c].idx <= now_idx
    BY <2>1, WalkIs DEF Goes, InStep
  <2>3. \A r \in 1..Depth, k \in Cols :
          last_decay_idx'[r][k] <= walk[c].idx /\ last_decay_idx'[r][k] <= now_idx
    BY <1>0, <2>1, <2>2 DEF InStep, Goes
  <2> QED
    BY <2>1, <2>3 DEF InStep, Goes
<1>7. CASE Take(c)
  <2>1. walk'[c].at = "idle" /\ UNCHANGED <<cells, now_idx>>
    BY <1>7, TakeDoes
  <2> QED
    BY <1>0, <2>1 DEF InStep, cells
<1>8. CASE UNCHANGED vars
  BY <1>8 DEF InStep, Age, Col, Faded, vars, cells
<1> QED
  BY <1>1, <1>2, <1>3, <1>4, <1>5, <1>6, <1>7, <1>8 DEF Next, Step, OneClock

LEMMA BoundedKeeps ==
  ASSUME TypeOK, WalkOK, NEW c \in CPUs, OneClock(c), InStep(c),
         NEW m, CountsFit(m), Bounded(c, m), [Next]_vars
  PROVE  Bounded(c, m)'
<1>0. /\ m \in Nat /\ counted \in Nat /\ walk[c].len \in Nat
      /\ \A r \in 1..Depth, k \in Cols : sent[r][k] \in Nat
      /\ \A f \in Flows : own[f] \in Nat
      /\ m * counted \in Nat
  <2>1. m \in Nat /\ counted \in Nat
    BY CellsAre DEF CountsFit
  <2> QED
    BY <2>1, CellsAre, WalkIs, ProductNat DEF CountsFit
<1>a. \A r \in 1..Depth, k \in Cols : sent[r][k] <= m * counted
  <2> SUFFICES ASSUME NEW r \in 1..Depth, NEW k \in Cols PROVE sent[r][k] <= m * counted
    OBVIOUS
  <2>1. sent[r][k] + (IF Unsent(c, r) THEN walk[c].len ELSE 0) <= m * counted
    BY DEF Bounded
  <2> QED
    BY <1>0, <2>1
<1>1. CASE Boundary
  <2>1. /\ UNCHANGED <<walk, sent, counted>>
        /\ \A f \in Flows : own'[f] = own[f] \div 2
    BY <1>1 DEF Boundary
  <2>2. \A x \in Nat : x \div 2 \in Nat /\ x \div 2 <= x
    OBVIOUS
  <2>3. \A f \in Flows : own'[f] <= m * counted
    BY <1>0, <2>1, <2>2 DEF Bounded
  <2> QED
    BY <2>1, <2>3 DEF Bounded, Unsent
<1>2. ASSUME NEW f \in Flows, NEW n \in Lens, NEW i \in Readings, Begin(c, f, n, i)
      PROVE  Bounded(c, m)'
  <2>1. /\ walk[c].at = "idle" /\ walk'[c].at = "age" /\ walk'[c].len = n
        /\ counted' = counted + 1
        /\ \A g \in Flows : own'[g] = IF g = f THEN own[g] + n ELSE own[g]
        /\ UNCHANGED sent
    BY <1>2, BeginDoes
  <2>2. n \in Nat /\ n <= m /\ m * counted' = m * counted + m
    <3>1. \A x, y \in Nat : x * (y + 1) = x * y + x
      OBVIOUS
    <3> QED
      BY <1>0, <2>1, <3>1, CellsAre DEF CountsFit
  <2>3. \A g \in Flows : own'[g] <= m * counted'
    <3> SUFFICES ASSUME NEW g \in Flows PROVE own'[g] <= m * counted + m
      BY <2>2
    <3>1. own[g] <= m * counted /\ own[g] \in Nat
      BY <1>0 DEF Bounded
    <3>2. own'[g] \in {own[g], own[g] + n}
      BY <2>1
    <3> QED
      BY <1>0, <2>2, <3>1, <3>2
  <2>4. \A r \in 1..Depth, k \in Cols :
          sent'[r][k] + (IF Unsent(c, r)' THEN walk'[c].len ELSE 0) <= m * counted'
    BY <1>0, <1>a, <2>1, <2>2
  <2> QED
    BY <2>3, <2>4 DEF Bounded
<1>3. ASSUME \A r \in 1..Depth : Unsent(c, r)' => Unsent(c, r),
             walk'[c].at # "idle" => walk'[c].len = walk[c].len,
             UNCHANGED <<sent, own, counted>>
      PROVE  Bounded(c, m)'
  <2>1. \A r \in 1..Depth, k \in Cols :
          sent'[r][k] + (IF Unsent(c, r)' THEN walk'[c].len ELSE 0) <= m * counted'
    <3> SUFFICES ASSUME NEW r \in 1..Depth, NEW k \in Cols
                 PROVE  sent[r][k] + (IF Unsent(c, r)' THEN walk'[c].len ELSE 0) <= m * counted
      BY <1>3
    <3>1. CASE Unsent(c, r)'
      <4>1. Unsent(c, r) /\ walk'[c].len = walk[c].len
        BY <1>3, <3>1 DEF Unsent
      <4> QED
        BY <3>1, <4>1 DEF Bounded
    <3>2. CASE ~Unsent(c, r)'
      BY <1>0, <1>a, <3>2
    <3> QED
      BY <3>1, <3>2
  <2> QED
    BY <1>3, <2>1 DEF Bounded
<1>4. CASE LoadIdx(c)
  <2>1. /\ Goes(c, "age", "count") /\ walk'[c].row = walk[c].row /\ UNCHANGED sent
    BY <1>4, LoadIdxDoes
  <2> QED
    BY <1>3, <2>1 DEF Goes, Unsent
<1>5. CASE LoadBytes(c)
  <2>1. /\ Goes(c, "count", "store") /\ walk'[c].row = walk[c].row
        /\ \A r \in 1..Depth, k \in Cols :
              sent'[r][k] = IF r = walk[c].row /\ k = Col(c)
                              THEN sent[r][k] + walk[c].len ELSE sent[r][k]
    BY <1>5, LoadBytesDoes
  <2>2. ASSUME NEW r \in 1..Depth, NEW k \in Cols
        PROVE  sent'[r][k] + (IF Unsent(c, r)' THEN walk'[c].len ELSE 0) <= m * counted
    <3>1. sent[r][k] + (IF Unsent(c, r) THEN walk[c].len ELSE 0) <= m * counted
      BY DEF Bounded
    <3>2. walk[c].row \in 1..Depth
      BY <2>1, WalkIs DEF Goes
    <3>3. CASE r = walk[c].row
      <4>1. Unsent(c, r) /\ ~Unsent(c, r)'
        BY <2>1, <3>2, <3>3 DEF Unsent, Goes
      <4> QED
        BY <1>0, <2>1, <3>1, <4>1
    <3>4. CASE r # walk[c].row
      <4>1. Unsent(c, r)' <=> Unsent(c, r)
        BY <2>1, <3>2, <3>4 DEF Unsent, Goes
      <4> QED
        BY <1>0, <2>1, <3>1, <3>4, <4>1 DEF Goes
    <3> QED
      BY <3>3, <3>4
  <2> QED
    BY <2>1, <2>2 DEF Bounded, Goes
<1>6. CASE StoreBytes(c)
  <2>1. Goes(c, "store", "stamp") /\ walk'[c].row = walk[c].row /\ UNCHANGED sent
    BY <1>6, StoreBytesDoes
  <2> QED
    BY <1>3, <2>1 DEF Goes, Unsent
<1>7. CASE StoreIdx(c)
  <2>1. /\ \/ Goes(c, "stamp", "age") /\ walk'[c].row = walk[c].row + 1
           \/ Goes(c, "stamp", "done") /\ walk'[c].row = walk[c].row
        /\ UNCHANGED sent /\ walk[c].row \in 1..Depth
    BY <1>7, StoreIdxDoes, WalkIs DEF Goes
  <2>2. \A r \in 1..Depth : Unsent(c, r)' => Unsent(c, r)
    BY <2>1 DEF Goes, Unsent
  <2> QED
    BY <1>3, <2>1, <2>2 DEF Goes
<1>8. CASE Take(c)
  <2>1. walk'[c].at = "idle" /\ UNCHANGED <<sent, own, counted>>
    BY <1>8, TakeDoes
  <2> QED
    BY <1>3, <2>1 DEF Unsent
<1>9. CASE UNCHANGED vars
  BY <1>9 DEF Bounded, Unsent, vars
<1> QED
  BY <1>1, <1>2, <1>4, <1>5, <1>6, <1>7, <1>8, <1>9 DEF Next, Step, OneClock

(* Halving a count and going one interval further back. *)
LEMMA HalvedCovers ==
  ASSUME NEW o \in Nat, NEW v \in Nat, NEW now \in Nat, NEW x \in Nat, x <= now,
         o * Pow2[now - x] <= v
  PROVE  (o \div 2) * Pow2[(now + 1) - x] <= v
<1> DEFINE h == o \div 2
           p == Pow2[now - x]
<1>1. h \in Nat /\ h * 2 <= o
  OBVIOUS
<1>2. now - x \in Nat /\ (now + 1) - x = (now - x) + 1
  OBVIOUS
<1>3. p \in Nat /\ Pow2[(now + 1) - x] = 2 * p
  BY <1>2, Pow2Is
<1>4. o * p <= v
  OBVIOUS
<1> HIDE DEF h, p
<1>5. h * (2 * p) = (h * 2) * p /\ h * 2 \in Nat
  BY <1>1, <1>3
<1>6. \A i, j, k \in Nat : i <= j => i * k <= j * k
  OBVIOUS
<1>7. (h * 2) * p <= o * p /\ (h * 2) * p \in Nat /\ o * p \in Nat
  BY <1>1, <1>3, <1>5, <1>6, ProductNat
<1>8. h * (2 * p) <= v
  BY <1>4, <1>5, <1>7
<1> QED
  BY <1>3, <1>8 DEF h, p

(* Bytes put back to the interval of a cell, brought forward to a later    *)
(* one, are in what is left of the cell.                                   *)
LEMMA BroughtForward ==
  ASSUME NEW o \in Nat, NEW b \in 0..AllOnes, NEW now \in Nat, NEW x \in Nat, NEW y \in Nat,
         y <= x, x <= now, o * Pow2[now - y] <= b
  PROVE  o * Pow2[now - x] <= Faded(b, x - y)
<1>1. now - x \in Nat /\ x - y \in Nat /\ (now - x) + (x - y) = now - y
  OBVIOUS
<1>2. /\ Pow2[now - x] \in Nat /\ Pow2[x - y] \in Nat \ {0}
      /\ Pow2[now - y] = Pow2[now - x] * Pow2[x - y]
  BY <1>1, Pow2Add, Pow2Positive
<1> DEFINE p == Pow2[now - x]
           q == Pow2[x - y]
<1>3. p \in Nat /\ q \in Nat \ {0} /\ o * (p * q) <= b /\ b \in Nat
  BY <1>2, WordPositive DEF AllOnes
<1>4. Faded(b, x - y) = b \div q
  BY <1>1, FadedIsShift
<1> HIDE DEF p, q
<1>5. (o * p) * q = o * (p * q) /\ o * p \in Nat
  BY <1>3
<1>6. o * p <= b \div q
  BY <1>3, <1>5, DivGalois
<1> QED
  BY <1>4, <1>6 DEF p

(* A cell that the step has not touched. *)
LEMMA StaysCovered ==
  ASSUME NEW c \in CPUs, NEW f \in Flows, NEW r \in 1..Depth, CoversCell(c, f, r),
         Pending(c, r)' <=> Pending(c, r),
         bytes'[r][Hash[f][r]] = bytes[r][Hash[f][r]],
         Pending(c, r) => /\ last_decay_idx'[r][Hash[f][r]] = last_decay_idx[r][Hash[f][r]]
                          /\ walk'[c].flow = walk[c].flow /\ walk'[c].len = walk[c].len
                          /\ walk'[c].idx = walk[c].idx,
         AgedTo(r, Hash[f][r])' = AgedTo(r, Hash[f][r]),
         own'[f] = own[f], now_idx' = now_idx
  PROVE  CoversCell(c, f, r)'
<1>1. CASE Pending(c, r)
  BY <1>1 DEF CoversCell, Age, Faded
<1>2. CASE ~Pending(c, r)
  BY <1>2 DEF CoversCell
<1> QED
  BY <1>1, <1>2

(* A cell leaves a packet's hands stamped with the packet's interval. *)
LEMMA StampIsIdx ==
  ASSUME TypeOK, WalkOK, NEW c \in CPUs, InStep(c), StoreIdx(c)
  PROVE  last_decay_idx'[walk[c].row][Col(c)] = walk[c].idx
<1> DEFINE r0 == walk[c].row
           k0 == Col(c)
<1>1. walk[c].at = "stamp" /\ r0 \in 1..Depth /\ k0 \in Cols
  BY WalkIs DEF StoreIdx
<1>2. walk[c].elapsed = walk[c].idx - last_decay_idx[r0][k0] /\ walk[c].elapsed \in Nat
  BY <1>1, WalkIs DEF InStep, Age
<1>3. last_decay_idx'[r0][k0] = IF walk[c].elapsed > 0
                                  THEN walk[c].idx ELSE last_decay_idx[r0][k0]
  BY <1>1, StoreIdxDoes
<1>4. walk[c].idx \in Nat /\ last_decay_idx[r0][k0] \in Nat
  BY <1>1, CellsAre, WalkIs
<1>5. CASE walk[c].elapsed > 0
  BY <1>3, <1>5
<1>6. CASE ~(walk[c].elapsed > 0)
  <2>1. walk[c].idx = last_decay_idx[r0][k0]
    BY <1>2, <1>4, <1>6
  <2> QED
    BY <1>3, <1>6, <2>1
<1> QED
  BY <1>5, <1>6

LEMMA CoversKeeps ==
  ASSUME TypeOK, WalkOK, TypeOK', WalkOK', NEW c \in CPUs, OneClock(c),
         InStep(c), InStep(c)', NEW m, CountsFit(m), Bounded(c, m)', Covers(c),
         [Next]_vars
  PROVE  Covers(c)'
<1>a. \A r \in 1..Depth, k \in Cols :
        AgedTo(r, k) = IF walk[c].at = "stamp" /\ walk[c].row = r /\ Col(c) = k
                         THEN walk[c].idx ELSE last_decay_idx[r][k]
  BY AgedToIs
<1>b. \A r \in 1..Depth, k \in Cols :
        AgedTo(r, k)' = IF walk'[c].at = "stamp" /\ walk'[c].row = r /\ Col(c)' = k
                          THEN walk'[c].idx ELSE last_decay_idx'[r][k]
  BY AgedToNext DEF OneClock
<1>c. \A f \in Flows, r \in 1..Depth : CoversCell(c, f, r) /\ Hash[f][r] \in Cols
  BY HashIs DEF Covers
<1>d. /\ \A r \in 1..Depth, k \in Cols :
           /\ bytes[r][k] \in 0..AllOnes /\ bytes[r][k] \in Nat
           /\ last_decay_idx[r][k] \in Nat /\ last_decay_idx[r][k] <= now_idx
      /\ \A f \in Flows : own[f] \in Nat
      /\ now_idx \in Nat /\ AllOnes \in Nat /\ Depth \in Nat
      /\ walk[c].idx \in Nat /\ walk[c].len \in Nat /\ walk[c].mn \in Nat /\ walk[c].next \in Nat
  BY CellsAre, WalkIs DEF InStep
<1>1. CASE Boundary
  <2>1. /\ UNCHANGED <<cells, walk>> /\ now_idx' = now_idx + 1
        /\ \A f \in Flows : own'[f] = own[f] \div 2
    BY <1>1 DEF Boundary
  <2>2. \A r \in 1..Depth : Pending(c, r)' <=> Pending(c, r)
    BY <2>1 DEF Pending
  <2>3. ASSUME NEW f \in Flows, NEW r \in 1..Depth PROVE CoversCell(c, f, r)'
    <3> DEFINE k == Hash[f][r]
    <3>1. CASE Pending(c, r) /\ f = walk[c].flow
      <4> DEFINE v == Faded(bytes[r][k], Age(c, r, k)) + walk[c].len
      <4>1. own[f] * Pow2[now_idx - walk[c].idx] <= v
        BY <1>c, <3>1 DEF CoversCell
      <4>2. walk[c].idx <= now_idx /\ last_decay_idx[r][k] <= walk[c].idx
        BY <1>c, <3>1 DEF Pending, InStep
      <4>3. Age(c, r, k) \in Nat
        BY <1>c, <1>d, <4>2 DEF Age
      <4>4. v \in Nat
        <5>1. bytes[r][k] \in Nat /\ walk[c].len \in Nat
          BY <1>c, <1>d
        <5> DEFINE faded == Faded(bytes[r][k], Age(c, r, k))
        <5>2. faded \in Nat
          BY <4>3, <5>1, FadedLeq
        <5> HIDE DEF faded
        <5>3. faded + walk[c].len \in Nat
          BY <5>1, <5>2
        <5> QED
          BY <5>3 DEF faded
      <4>5. Faded(bytes[r][k], Age(c, r, k))' = Faded(bytes[r][k], Age(c, r, k))
        BY <2>1 DEF Faded, Age, cells
      <4> HIDE DEF v
      <4>6. (own[f] \div 2) * Pow2[(now_idx + 1) - walk[c].idx] <= v
        BY <1>d, <4>1, <4>2, <4>4, HalvedCovers
      <4> QED
        BY <2>1, <2>2, <3>1, <4>5, <4>6 DEF CoversCell, v
    <3>2. CASE ~(Pending(c, r) /\ f = walk[c].flow)
      <4>1. own[f] * Pow2[now_idx - AgedTo(r, k)] <= bytes[r][k]
        BY <1>c, <3>2 DEF CoversCell
      <4>2. AgedTo(r, k) \in Nat /\ AgedTo(r, k) <= now_idx
        BY <1>a, <1>c, <1>d DEF InStep
      <4>3. AgedTo(r, k)' = AgedTo(r, k)
        BY <2>1 DEF AgedTo, Col, cells
      <4>4. (own[f] \div 2) * Pow2[(now_idx + 1) - AgedTo(r, k)] <= bytes[r][k]
        BY <1>c, <1>d, <4>1, <4>2, HalvedCovers
      <4> QED
        BY <2>1, <2>2, <3>2, <4>3, <4>4 DEF CoversCell, cells
    <3> QED
      BY <3>1, <3>2
  <2>4. walk[c].at # "idle" =>
          own'[walk[c].flow] * Pow2[now_idx' - walk[c].idx] <= walk[c].mn
    <3> SUFFICES ASSUME walk[c].at # "idle"
                 PROVE  own'[walk[c].flow] * Pow2[now_idx' - walk[c].idx] <= walk[c].mn
      OBVIOUS
    <3>1. walk[c].flow \in Flows /\ walk[c].idx <= now_idx
      BY WalkIs DEF InStep
    <3>2. own[walk[c].flow] * Pow2[now_idx - walk[c].idx] <= walk[c].mn
      BY DEF Covers
    <3> QED
      BY <1>d, <2>1, <3>1, <3>2, HalvedCovers
  <2> QED
    BY <2>1, <2>3, <2>4 DEF Covers
<1>2. ASSUME NEW g \in Flows, NEW n \in Lens, NEW i \in Readings, Begin(c, g, n, i)
      PROVE  Covers(c)'
  <2>1. /\ walk[c].at = "idle" /\ walk'[c].at = "age" /\ walk'[c].flow = g
        /\ walk'[c].len = n /\ walk'[c].idx = now_idx /\ walk'[c].row = 1
        /\ walk'[c].mn = AllOnes
        /\ \A f \in Flows : own'[f] = IF f = g THEN own[f] + n ELSE own[f]
        /\ UNCHANGED <<cells, now_idx>>
    BY <1>2, BeginDoes
  <2>2. \A r \in 1..Depth : ~Pending(c, r) /\ Pending(c, r)'
    BY <1>d, <2>1 DEF Pending
  <2>3. ASSUME NEW f \in Flows, NEW r \in 1..Depth PROVE CoversCell(c, f, r)'
    <3> DEFINE k == Hash[f][r]
    <3>1. own[f] * Pow2[now_idx - last_decay_idx[r][k]] <= bytes[r][k]
      BY <1>a, <1>c, <2>1, <2>2 DEF CoversCell
    <3>2. CASE f = g
      <4>1. own[f] * Pow2[now_idx - now_idx] <= Faded(bytes[r][k], now_idx - last_decay_idx[r][k])
        <5>1. /\ own[f] \in Nat /\ bytes[r][k] \in 0..AllOnes /\ now_idx \in Nat
              /\ last_decay_idx[r][k] \in Nat /\ last_decay_idx[r][k] <= now_idx
              /\ now_idx <= now_idx
          BY <1>c, <1>d
        <5> QED
          BY <3>1, <5>1, BroughtForward
      <4>2. now_idx - now_idx = 0 /\ Pow2[0] = 1
        BY <1>d, Pow2Is
      <4>3. now_idx - last_decay_idx[r][k] \in Nat
        BY <1>c, <1>d
      <4>4. Faded(bytes[r][k], now_idx - last_decay_idx[r][k]) \in Nat
        BY <1>c, <1>d, <4>3, FadedLeq
      <4>5. n \in Nat
        BY CellsAre
      <4>6. own'[f] * Pow2[now_idx - now_idx]
              <= Faded(bytes[r][k], now_idx - last_decay_idx[r][k]) + n
        BY <1>d, <2>1, <3>2, <4>1, <4>2, <4>4, <4>5
      <4> QED
        BY <2>1, <2>2, <3>2, <4>6 DEF CoversCell, Age, Faded, cells
    <3>3. CASE f # g
      BY <1>b, <1>c, <2>1, <3>1, <3>3 DEF CoversCell, cells
    <3> QED
      BY <3>2, <3>3
  <2>4. own'[g] * Pow2[now_idx - now_idx] <= AllOnes
    <3>1. own'[g] <= m * counted' /\ own'[g] \in Nat
      BY CellsAre DEF Bounded, TypeOK
    <3>2. m * counted' <= m * MaxPackets /\ m * counted' \in Nat /\ m * MaxPackets \in Nat
      <4>1. m \in Nat /\ counted' \in Nat /\ counted' <= MaxPackets /\ MaxPackets \in Nat
        BY SketchAssumption DEF CountsFit, TypeOK
      <4>2. \A x, y, z \in Nat : x <= y => z * x <= z * y
        OBVIOUS
      <4> QED
        BY <4>1, <4>2, ProductNat
    <3>3. m * MaxPackets <= AllOnes
      BY <3>2, WordPositive DEF CountsFit, AllOnes
    <3>4. own'[g] <= AllOnes
      BY <1>d, <3>1, <3>2, <3>3
    <3>5. now_idx - now_idx = 0 /\ Pow2[0] = 1
      BY <1>d, Pow2Is
    <3> QED
      BY <3>1, <3>4, <3>5
  <2> QED
    BY <2>1, <2>3, <2>4 DEF Covers
<1>3. ASSUME Goes(c, "age", "count") \/ Goes(c, "count", "store"),
             walk'[c].row = walk[c].row, walk'[c].mn = walk[c].mn, UNCHANGED cells
      PROVE  Covers(c)'
  <2>1. \A r \in 1..Depth : Pending(c, r)' <=> Pending(c, r)
    BY <1>3 DEF Goes, Pending
  <2>2. \A f \in Flows, r \in 1..Depth : AgedTo(r, Hash[f][r])' = AgedTo(r, Hash[f][r])
    BY <1>3, <1>a, <1>b, <1>c DEF Goes, cells
  <2>3. \A f \in Flows, r \in 1..Depth : CoversCell(c, f, r)'
    BY <1>3, <1>c, <2>1, <2>2, StaysCovered DEF Goes, cells
  <2> QED
    BY <1>3, <2>3 DEF Covers, Goes
<1>4. CASE StoreBytes(c)
  <2> DEFINE r0 == walk[c].row
             k0 == Col(c)
  <2>1. /\ Goes(c, "store", "stamp") /\ walk'[c].row = walk[c].row /\ walk'[c].mn = walk[c].mn
        /\ \A r \in 1..Depth, k \in Cols :
             bytes'[r][k] = IF r = r0 /\ k = k0 THEN walk[c].next ELSE bytes[r][k]
        /\ UNCHANGED last_decay_idx
    BY <1>4, StoreBytesDoes
  <2>2. /\ r0 \in 1..Depth /\ k0 \in Cols /\ Col(c)' = k0
        /\ k0 = Hash[walk[c].flow][r0] /\ walk[c].flow \in Flows
    BY <2>1, WalkIs DEF Goes, Col
  <2>3. \A r \in 1..Depth :
          /\ r # r0 => (Pending(c, r)' <=> Pending(c, r))
          /\ r = r0 => Pending(c, r) /\ ~Pending(c, r)'
    BY <2>1, <2>2 DEF Goes, Pending
  <2>4. /\ walk[c].idx <= now_idx /\ last_decay_idx[r0][k0] <= walk[c].idx
        /\ walk[c].next = Faded(bytes[r0][k0], Age(c, r0, k0)) + walk[c].len
    BY <2>1, <2>2 DEF InStep, Goes
  <2>5. ASSUME NEW f \in Flows, NEW r \in 1..Depth PROVE CoversCell(c, f, r)'
    <3> DEFINE k == Hash[f][r]
    <3>1. CASE r # r0
      <4>1. AgedTo(r, k)' = AgedTo(r, k)
        BY <1>a, <1>b, <1>c, <2>1, <3>1 DEF Goes
      <4> QED
        BY <1>c, <2>1, <2>3, <3>1, <4>1, StaysCovered DEF Goes
    <3>2. CASE r = r0 /\ k # k0
      <4>1. f # walk[c].flow
        BY <2>2, <3>2
      <4>2. AgedTo(r, k)' = AgedTo(r, k)
        BY <1>a, <1>b, <1>c, <2>1, <2>2, <3>2 DEF Goes
      <4>3. bytes'[r][k] = bytes[r][k]
        BY <1>c, <2>1, <3>2
      <4>4. own[f] * Pow2[now_idx - AgedTo(r, k)] <= bytes[r][k]
        BY <1>c, <4>1 DEF CoversCell
      <4> QED
        BY <2>1, <2>3, <3>2, <4>1, <4>2, <4>3, <4>4 DEF CoversCell, Goes
    <3>3. CASE r = r0 /\ k = k0
      <4>1. AgedTo(r, k) = last_decay_idx[r0][k0] /\ AgedTo(r, k)' = walk[c].idx
        BY <1>a, <1>b, <1>c, <2>1, <2>2, <3>3 DEF Goes
      <4>2. own[f] * Pow2[now_idx - walk[c].idx] <= walk[c].next
        <5>1. CASE f = walk[c].flow
          BY <1>c, <2>3, <2>4, <3>3, <5>1 DEF CoversCell
        <5>2. CASE f # walk[c].flow
          <6>1. own[f] * Pow2[now_idx - last_decay_idx[r0][k0]] <= bytes[r0][k0]
            BY <1>c, <3>3, <4>1, <5>2 DEF CoversCell
          <6>2. own[f] * Pow2[now_idx - walk[c].idx] <= Faded(bytes[r0][k0], Age(c, r0, k0))
            BY <1>d, <2>2, <2>4, <6>1, BroughtForward DEF Age
          <6>3. Age(c, r0, k0) \in Nat
            BY <1>d, <2>2, <2>4 DEF Age
          <6>4. Faded(bytes[r0][k0], Age(c, r0, k0)) \in Nat
            BY <1>d, <2>2, <6>3, FadedLeq
          <6>5. Pow2[now_idx - walk[c].idx] \in Nat
            <7>1. now_idx - walk[c].idx \in Nat
              BY <1>d, <2>4
            <7> QED
              BY <7>1, Pow2Is
          <6>6. own[f] * Pow2[now_idx - walk[c].idx] \in Nat
            BY <1>d, <6>5, ProductNat
          <6> QED
            BY <1>d, <2>4, <6>2, <6>4, <6>6
        <5> QED
          BY <5>1, <5>2
      <4> QED
        BY <1>c, <2>1, <2>2, <2>3, <3>3, <4>1, <4>2 DEF CoversCell, Goes
    <3> QED
      BY <3>1, <3>2, <3>3
  <2> QED
    BY <2>1, <2>5 DEF Covers, Goes
<1>5. CASE StoreIdx(c)
  <2> DEFINE r0 == walk[c].row
             k0 == Col(c)
  <2>1. /\ \/ r0 < Depth /\ Goes(c, "stamp", "age") /\ walk'[c].row = r0 + 1
           \/ r0 = Depth /\ Goes(c, "stamp", "done") /\ walk'[c].row = r0
        /\ walk'[c].mn = Lesser(walk[c].next, walk[c].mn)
        /\ \A r \in 1..Depth, k \in Cols :
             last_decay_idx'[r][k] = IF r = r0 /\ k = k0 /\ walk[c].elapsed > 0
                                       THEN walk[c].idx ELSE last_decay_idx[r][k]
        /\ UNCHANGED bytes
    BY <1>5, StoreIdxDoes
  <2>2. /\ r0 \in 1..Depth /\ k0 \in Cols /\ walk[c].at = "stamp" /\ walk'[c].at # "stamp"
        /\ k0 = Hash[walk[c].flow][r0] /\ walk[c].flow \in Flows
    BY <2>1, WalkIs DEF Goes
  <2>3. last_decay_idx'[r0][k0] = walk[c].idx
    BY <1>5, StampIsIdx
  <2>4. \A r \in 1..Depth, k \in Cols : AgedTo(r, k)' = AgedTo(r, k)
    BY <1>a, <1>b, <2>1, <2>2, <2>3
  <2>5. \A r \in 1..Depth :
          /\ Pending(c, r)' <=> Pending(c, r)
          /\ Pending(c, r) => r # r0
    BY <1>d, <2>1, <2>2 DEF Goes, Pending
  <2>6. \A f \in Flows, r \in 1..Depth : CoversCell(c, f, r)'
    BY <1>c, <2>1, <2>4, <2>5, StaysCovered DEF Goes
  <2>7. own[walk[c].flow] * Pow2[now_idx - walk[c].idx] <= walk'[c].mn
    <3>1. own[walk[c].flow] * Pow2[now_idx - walk[c].idx] <= walk[c].mn
      BY <2>2 DEF Covers
    <3>2. own[walk[c].flow] * Pow2[now_idx - AgedTo(r0, k0)] <= bytes[r0][k0]
      BY <1>c, <2>2, <2>5 DEF CoversCell
    <3>3. AgedTo(r0, k0) = walk[c].idx /\ walk[c].next = bytes[r0][k0]
      BY <1>a, <2>2 DEF InStep
    <3> QED
      BY <2>1, <3>1, <3>2, <3>3 DEF Lesser
  <2> QED
    BY <2>1, <2>6, <2>7 DEF Covers, Goes
<1>6. CASE Take(c)
  <2>1. walk[c].at = "done" /\ walk'[c].at = "idle" /\ UNCHANGED <<cells, now_idx, own>>
    BY <1>6, TakeDoes
  <2>2. walk[c].row \in 1..Depth /\ walk[c].row = Depth
    BY <1>6, <2>1, WalkIs DEF InStep
  <2>3. \A r \in 1..Depth : ~Pending(c, r) /\ ~Pending(c, r)'
    BY <1>d, <2>1, <2>2 DEF Pending
  <2>4. \A r \in 1..Depth, k \in Cols : AgedTo(r, k)' = AgedTo(r, k)
    BY <1>a, <1>b, <2>1 DEF cells
  <2>5. \A f \in Flows, r \in 1..Depth : CoversCell(c, f, r)'
    BY <1>c, <2>1, <2>3, <2>4, StaysCovered DEF cells
  <2> QED
    BY <2>1, <2>5 DEF Covers
<1>7. CASE UNCHANGED vars
  <2>1. UNCHANGED <<bytes, last_decay_idx, walk, own, now_idx>>
    BY <1>7 DEF vars, cells
  <2>2. \A r \in 1..Depth : Pending(c, r)' <=> Pending(c, r)
    BY <2>1 DEF Pending
  <2>3. \A r \in 1..Depth, k \in Cols : AgedTo(r, k)' = AgedTo(r, k)
    BY <2>1 DEF AgedTo, Col
  <2>4. \A f \in Flows, r \in 1..Depth : CoversCell(c, f, r)'
    BY <1>c, <2>1, <2>2, <2>3, StaysCovered
  <2> QED
    BY <2>1, <2>4 DEF Covers
<1> QED
  BY <1>1, <1>2, <1>3, <1>4, <1>5, <1>6, <1>7, LoadIdxDoes, LoadBytesDoes
     DEF Next, Step, OneClock

(* The inductive invariant of one CPU with one clock. *)
AgingInv(c, m) == InStep(c) /\ Bounded(c, m) /\ Covers(c)

LEMMA InitAgingInv ==
  ASSUME NEW c \in CPUs, OneClock(c), NEW m, CountsFit(m), Init
  PROVE  AgingInv(c, m)
<1>1. SketchInv
  BY InitSketchInv
<1>2. TypeOK /\ WalkOK
  BY <1>1 DEF SketchInv
<1>3. /\ walk[c].at = "idle" /\ counted = 0
      /\ \A r \in 1..Depth, k \in Cols :
           bytes[r][k] = 0 /\ last_decay_idx[r][k] = 0 /\ sent[r][k] = 0
      /\ \A f \in Flows : own[f] = 0
  BY DEF Init, Idle
<1>4. now_idx \in Nat
  BY <1>2, CellsAre
<1>5. InStep(c)
  BY <1>3, <1>4 DEF InStep
<1>6. Bounded(c, m)
  <2>1. m * counted = 0
    BY <1>3 DEF CountsFit
  <2> QED
    BY <1>3, <2>1 DEF Bounded, Unsent
<1>7. Covers(c)
  <2>1. ASSUME NEW f \in Flows, NEW r \in 1..Depth PROVE CoversCell(c, f, r)
    <3>1. Hash[f][r] \in Cols
      BY HashIs
    <3>2. AgedTo(r, Hash[f][r]) = 0
      BY <1>2, <1>3, <1>5, <3>1, AgedToIs
    <3>3. Pow2[now_idx - AgedTo(r, Hash[f][r])] \in Nat
      <4>1. now_idx - AgedTo(r, Hash[f][r]) \in Nat
        BY <1>4, <3>2
      <4> QED
        BY <4>1, Pow2Is
    <3>4. own[f] * Pow2[now_idx - AgedTo(r, Hash[f][r])] <= bytes[r][Hash[f][r]]
      BY <1>3, <3>1, <3>3
    <3> QED
      BY <1>3, <3>4 DEF CoversCell, Pending
  <2> QED
    BY <1>3, <2>1 DEF Covers
<1> QED
  BY <1>5, <1>6, <1>7 DEF AgingInv

LEMMA NextAgingInv ==
  ASSUME SketchInv, NEW c \in CPUs, OneClock(c), NEW m, CountsFit(m), AgingInv(c, m),
         [Next]_vars
  PROVE  AgingInv(c, m)'
<1>1. SketchInv'
  BY NextSketchInv
<1>2. TypeOK /\ WalkOK /\ NeverOvercounts /\ TypeOK' /\ WalkOK'
  BY <1>1 DEF SketchInv
<1>3. InStep(c)'
  BY <1>2, InStepKeeps DEF AgingInv
<1>4. Bounded(c, m)'
  BY <1>2, BoundedKeeps DEF AgingInv
<1>5. Covers(c)'
  BY <1>2, <1>3, <1>4, CoversKeeps DEF AgingInv
<1> QED
  BY <1>3, <1>4, <1>5 DEF AgingInv

(* What the invariant says of an estimate. *)
LEMMA AgingCovers ==
  ASSUME NEW c \in CPUs, OneClock(c), NEW m, SketchInv, AgingInv(c, m)
  PROVE  EstimateCoversFlow
<1> SUFFICES ASSUME walk[c].at = "done"
             PROVE  walk[c].mn >= own[walk[c].flow]
  BY DEF EstimateCoversFlow, OneClock
<1>1. TypeOK /\ WalkOK
  BY DEF SketchInv
<1>2. /\ walk[c].flow \in Flows /\ walk[c].idx \in Nat /\ walk[c].mn \in Nat
      /\ walk[c].idx <= now_idx /\ now_idx \in Nat
  BY <1>1, WalkIs, CellsAre DEF AgingInv, InStep
<1> DEFINE o == own[walk[c].flow]
           p == Pow2[now_idx - walk[c].idx]
<1>3. o \in Nat /\ p \in Nat \ {0}
  <2>1. now_idx - walk[c].idx \in Nat
    BY <1>2
  <2> QED
    BY <1>1, <1>2, <2>1, CellsAre, Pow2Positive
<1>4. o * p <= walk[c].mn
  BY DEF AgingInv, Covers
<1> HIDE DEF o, p
<1>5. o <= o * p /\ o * p \in Nat
  <2>1. \A x \in Nat, y \in Nat \ {0} : x <= x * y /\ x * y \in Nat
    OBVIOUS
  <2> QED
    BY <1>3, <2>1
<1>6. walk[c].mn >= o
  BY <1>2, <1>3, <1>4, <1>5
<1> QED
  BY <1>6 DEF o

----------------------------------------------------------------------------
(* Lazy aging implements the sweeper.                                      *)

LEMMA EagerPow2 == Eager!Pow2 = Pow2
  BY DEF Eager!Pow2, Pow2

(* A counter halved e times. *)
Shifted(b, e) == b \div Pow2[e]

(* What the sweeper's cell would hold. *)
Swept(r, k) == Shifted(bytes[r][k], now_idx - AgedTo(r, k))

SweptCells == [r \in 1..Depth |-> [k \in Cols |-> Swept(r, k)]]

LEMMA InitEager ==
  ASSUME Init, NEW c \in CPUs, OneClock(c), InStep(c)
  PROVE  Eager!Init
<1>1. TypeOK /\ WalkOK
  BY InitSketchInv DEF SketchInv
<1>2. /\ walk[c].at = "idle" /\ now_idx \in Nat
      /\ \A r \in 1..Depth, k \in Cols : bytes[r][k] = 0 /\ last_decay_idx[r][k] = 0
  BY <1>1, CellsAre DEF Init, Idle
<1>3. ASSUME NEW r \in 1..Depth, NEW k \in Cols PROVE Swept(r, k) = 0
  <2>1. AgedTo(r, k) = 0
    BY <1>1, <1>2, AgedToIs
  <2>2. Pow2[now_idx - AgedTo(r, k)] \in Nat \ {0}
    <3>1. now_idx - AgedTo(r, k) \in Nat
      BY <1>2, <2>1
    <3> QED
      BY <3>1, Pow2Positive
  <2>3. \A p \in Nat \ {0} : 0 \div p = 0
    OBVIOUS
  <2> QED
    BY <1>2, <2>2, <2>3 DEF Swept, Shifted
<1>4. SweptCells = [r \in 1..Depth |-> [k \in Cols |-> 0]]
  BY <1>3 DEF SweptCells
<1>5. now_idx \in 0..MaxIdx
  BY DEF Init
<1> QED
  BY <1>4, <1>5 DEF Eager!Init, SweptCells, Swept, Shifted

(* A boundary halves what every cell stands for. *)
LEMMA SweptHalves ==
  ASSUME NEW b \in Nat, NEW now \in Nat, NEW a \in Nat, a <= now
  PROVE  Shifted(b, (now + 1) - a) = Shifted(b, now - a) \div 2
<1>1. now - a \in Nat /\ (now + 1) - a = (now - a) + 1
  OBVIOUS
<1> DEFINE p == Pow2[now - a]
<1>2. p \in Nat \ {0} /\ Pow2[(now + 1) - a] = 2 * p
  BY <1>1, Pow2Is, Pow2Positive
<1> HIDE DEF p
<1>3. 2 * p = p * 2 /\ 2 \in Nat \ {0}
  BY <1>2
<1>4. b \div (p * 2) = (b \div p) \div 2
  BY <1>2, <1>3, DivDiv
<1> QED
  BY <1>2, <1>3, <1>4 DEF p, Shifted

(* A packet adds its bytes to what the cell stands for, shifted by how     *)
(* late it is, or one byte more.                                           *)
Merges(b, n, now, x, y) ==
  \E carry \in (IF now - x = 0 THEN {0} ELSE {0, 1}) :
    Shifted(Faded(b, x - y) + n, now - x)
      = Shifted(b, now - y) + Shifted(n, now - x) + carry

LEMMA SweptAdds ==
  ASSUME NEW b \in 0..AllOnes, NEW n \in Nat, NEW now \in Nat, NEW x \in Nat, NEW y \in Nat,
         y <= x, x <= now
  PROVE  Merges(b, n, now, x, y)
<1>1. now - x \in Nat /\ x - y \in Nat /\ (x - y) + (now - x) = now - y
  OBVIOUS
<1> DEFINE p == Pow2[now - x]
           q == Pow2[x - y]
           f == b \div q
<1>2. p \in Nat \ {0} /\ q \in Nat \ {0} /\ Pow2[now - y] = q * p
  BY <1>1, Pow2Add, Pow2Positive
<1>3. b \in Nat
  BY WordPositive DEF AllOnes
<1>4. Faded(b, x - y) = f
  BY <1>1, FadedIsShift
<1> HIDE DEF p, q
<1>5. f \in Nat /\ f \div p = b \div Pow2[now - y]
  <2>1. f \in Nat
    BY <1>2, <1>3, DivNat
  <2>2. (b \div q) \div p = b \div (q * p)
    BY <1>2, <1>3, DivDiv
  <2> QED
    BY <1>2, <2>1, <2>2
<1> HIDE DEF f
<1>6. CASE now - x = 0
  <2>1. p = 1
    BY <1>6, Pow2Is DEF p
  <2>2. (f + n) \div p = f \div p + n \div p + 0
    BY <1>5, <2>1
  <2> QED
    BY <1>4, <1>5, <1>6, <2>2 DEF p, Shifted, Merges
<1>7. CASE now - x # 0
  <2>1. \E carry \in {0, 1} : (f + n) \div p = f \div p + n \div p + carry
    <3> DEFINE s == (f + n) \div p
               t == f \div p
               u == n \div p
    <3>1. s - (t + u) \in {0, 1}
      BY <1>2, <1>5, DivSum
    <3>2. s \in Nat /\ t \in Nat /\ u \in Nat
      BY <1>2, <1>5, DivNat
    <3> HIDE DEF s, t, u
    <3>3. s = t + u + 0 \/ s = t + u + 1
      BY <3>1, <3>2
    <3> QED
      BY <3>3 DEF s, t, u
  <2> QED
    BY <1>4, <1>5, <1>7, <2>1 DEF p, Shifted, Merges
<1> QED
  BY <1>6, <1>7

(* The sweeper's cells and its clock are what they were. *)
SweeperStays == UNCHANGED now_idx /\ \A r \in 1..Depth, k \in Cols : Swept(r, k)' = Swept(r, k)

(* A packet's arrival at the sweeper's cell. *)
LEMMA Adds ==
  ASSUME NEW r \in 1..Depth, NEW k \in Cols, NEW n \in Lens, NEW late \in 0..now_idx,
         NEW carry \in (IF late = 0 THEN {0} ELSE {0, 1}),
         SweptCells' = [SweptCells EXCEPT ![r][k] = @ + Shifted(n, late) + carry],
         UNCHANGED now_idx
  PROVE  Eager!Add(r, k)
<1>1. SweptCells' = [SweptCells EXCEPT ![r][k] = @ + n \div Eager!Pow2[late] + carry]
  BY EagerPow2 DEF Shifted
<1>2. \E n_1 \in Lens, late_1 \in 0..now_idx :
        \E carry_1 \in (IF late_1 = 0 THEN {0} ELSE {0, 1}) :
          SweptCells' = [SweptCells EXCEPT ![r][k] = @ + n_1 \div Eager!Pow2[late_1] + carry_1]
  BY <1>1, Zenon
<1> QED
  BY <1>2, Zenon DEF Eager!Add, SweptCells, Swept, Shifted

(* A stutter of the sweeper. *)
LEMMA Stutters ==
  ASSUME SweeperStays
  PROVE  UNCHANGED Eager!vars
<1>1. SweptCells' = SweptCells
  BY DEF SweeperStays, SweptCells
<1> QED
  BY <1>1 DEF SweeperStays, Eager!vars, SweptCells, Swept, Shifted

LEMMA ViewStays ==
  ASSUME UNCHANGED <<bytes, now_idx>>,
         \A r \in 1..Depth, k \in Cols : AgedTo(r, k)' = AgedTo(r, k)
  PROVE  SweeperStays
  BY DEF SweeperStays, Swept

(* Every step is one of the sweeper's or leaves its cells alone. *)
LEMMA NextEager ==
  ASSUME TypeOK, WalkOK, TypeOK', WalkOK', NEW c \in CPUs, OneClock(c),
         InStep(c), InStep(c)', [Next]_vars
  PROVE  [Eager!Next]_(Eager!vars)
<1>a. \A r \in 1..Depth, k \in Cols :
        AgedTo(r, k) = IF walk[c].at = "stamp" /\ walk[c].row = r /\ Col(c) = k
                         THEN walk[c].idx ELSE last_decay_idx[r][k]
  BY AgedToIs
<1>b. \A r \in 1..Depth, k \in Cols :
        AgedTo(r, k)' = IF walk'[c].at = "stamp" /\ walk'[c].row = r /\ Col(c)' = k
                          THEN walk'[c].idx ELSE last_decay_idx'[r][k]
  BY AgedToNext DEF OneClock
<1>d. /\ \A r \in 1..Depth, k \in Cols :
           /\ bytes[r][k] \in 0..AllOnes /\ bytes[r][k] \in Nat
           /\ last_decay_idx[r][k] \in Nat /\ last_decay_idx[r][k] <= now_idx
      /\ now_idx \in Nat /\ walk[c].idx \in Nat /\ walk[c].len \in Nat
  BY CellsAre, WalkIs DEF InStep
<1>1. CASE Boundary
  <2>1. UNCHANGED <<bytes, last_decay_idx, walk>> /\ now_idx' = now_idx + 1
    BY <1>1 DEF Boundary, cells
  <2>2. ASSUME NEW r \in 1..Depth, NEW k \in Cols PROVE Swept(r, k)' = Swept(r, k) \div 2
    <3>1. AgedTo(r, k)' = AgedTo(r, k)
      BY <2>1 DEF AgedTo, Col
    <3>2. AgedTo(r, k) \in Nat /\ AgedTo(r, k) <= now_idx
      BY <1>a, <1>d DEF InStep
    <3>3. Shifted(bytes[r][k], (now_idx + 1) - AgedTo(r, k))
            = Shifted(bytes[r][k], now_idx - AgedTo(r, k)) \div 2
      BY <1>d, <3>2, SweptHalves
    <3> QED
      BY <2>1, <3>1, <3>3 DEF Swept
  <2>3. SweptCells' = [r \in 1..Depth |-> [k \in Cols |-> SweptCells[r][k] \div 2]]
    BY <2>2 DEF SweptCells
  <2>4. Eager!Boundary
    BY <2>1, <2>3 DEF Eager!Boundary, SweptCells, Swept, Shifted
  <2> QED
    BY <2>4 DEF Eager!Next
<1>2. ASSUME NEW f \in Flows, NEW n \in Lens, NEW i \in Readings, Begin(c, f, n, i)
      PROVE  SweeperStays
  <2>1. /\ walk[c].at = "idle" /\ walk'[c].at = "age"
        /\ UNCHANGED <<bytes, last_decay_idx, now_idx>>
    BY <1>2, BeginDoes DEF cells
  <2> QED
    BY <1>a, <1>b, <2>1, ViewStays
<1>3. ASSUME Goes(c, "age", "count") \/ Goes(c, "count", "store"), UNCHANGED cells
      PROVE  SweeperStays
  BY <1>a, <1>b, <1>3, ViewStays DEF Goes, cells
<1>4. CASE StoreBytes(c)
  <2>0. PICK r0 \in 1..Depth, k0 \in Cols, n \in Lens, x \in Nat :
          r0 = walk[c].row /\ k0 = Col(c) /\ n = walk[c].len /\ x = walk[c].idx
    <3>1. walk[c].at = "store"
      BY <1>4 DEF StoreBytes
    <3>2. walk[c].len \in Lens
      BY <3>1 DEF InStep
    <3> QED
      BY <3>1, <3>2, WalkIs
  <2> DEFINE late == now_idx - x
  <2>1. /\ Goes(c, "store", "stamp") /\ walk'[c].row = walk[c].row
        /\ \A r \in 1..Depth, k \in Cols :
             bytes'[r][k] = IF r = r0 /\ k = k0 THEN walk[c].next ELSE bytes[r][k]
        /\ UNCHANGED last_decay_idx
    BY <1>4, <2>0, StoreBytesDoes
  <2>2. Col(c)' = k0 /\ walk'[c].row = r0 /\ walk'[c].idx = x /\ now_idx' = now_idx
    BY <2>0, <2>1 DEF Goes, Col
  <2>3. /\ x <= now_idx /\ last_decay_idx[r0][k0] <= x
        /\ walk[c].next = Faded(bytes[r0][k0], x - last_decay_idx[r0][k0]) + n
    BY <2>0, <2>1 DEF InStep, Goes, Age
  <2>4. PICK carry \in (IF late = 0 THEN {0} ELSE {0, 1}) :
          Shifted(walk[c].next, late)
            = Shifted(bytes[r0][k0], now_idx - last_decay_idx[r0][k0]) + Shifted(n, late) + carry
    <3>1. /\ bytes[r0][k0] \in 0..AllOnes /\ n \in Nat /\ now_idx \in Nat
          /\ last_decay_idx[r0][k0] \in Nat
      BY <1>d, <2>0
    <3>2. Merges(bytes[r0][k0], n, now_idx, x, last_decay_idx[r0][k0])
      BY <2>3, <3>1, SweptAdds
    <3> QED
      BY <2>3, <3>2 DEF Merges
  <2>5. /\ Swept(r0, k0) = Shifted(bytes[r0][k0], now_idx - last_decay_idx[r0][k0])
        /\ Swept(r0, k0)' = Shifted(walk[c].next, late)
    <3>1. AgedTo(r0, k0) = last_decay_idx[r0][k0] /\ AgedTo(r0, k0)' = x
      BY <1>a, <1>b, <2>0, <2>1, <2>2 DEF Goes
    <3> QED
      BY <2>1, <2>2, <3>1 DEF Swept, Shifted
  <2>6. ASSUME NEW r \in 1..Depth, NEW k \in Cols, ~(r = r0 /\ k = k0)
        PROVE  Swept(r, k)' = Swept(r, k)
    <3>1. AgedTo(r, k)' = AgedTo(r, k)
      BY <1>a, <1>b, <2>0, <2>1, <2>2, <2>6 DEF Goes
    <3> QED
      BY <2>1, <2>2, <2>6, <3>1 DEF Swept, Shifted
  <2>7. SweptCells' = [SweptCells EXCEPT ![r0][k0] = @ + Shifted(n, late) + carry]
    <3> DEFINE new == Swept(r0, k0) + Shifted(n, late) + carry
    <3>1. Swept(r0, k0)' = new
      BY <2>4, <2>5
    <3> HIDE DEF new
    <3>2. \A r \in 1..Depth, k \in Cols :
            SweptCells'[r][k] = IF r = r0 /\ k = k0 THEN new ELSE SweptCells[r][k]
      <4>1. ASSUME NEW r \in 1..Depth, NEW k \in Cols
            PROVE  SweptCells[r][k] = Swept(r, k) /\ SweptCells'[r][k] = Swept(r, k)'
        BY DEF SweptCells
      <4> QED
        BY <2>6, <3>1, <4>1
    <3>3. SweptCells' = [SweptCells EXCEPT ![r0][k0] = new]
      <4>1. /\ SweptCells = [r \in 1..Depth |-> [k \in Cols |-> SweptCells[r][k]]]
            /\ SweptCells' = [r \in 1..Depth |-> [k \in Cols |-> SweptCells'[r][k]]]
        BY DEF SweptCells
      <4> QED
        BY <3>2, <4>1
    <3>4. SweptCells[r0][k0] = Swept(r0, k0)
      BY DEF SweptCells
    <3> QED
      BY <3>3, <3>4 DEF new
  <2>8. late \in 0..now_idx
    BY <1>d, <2>3
  <2>9. Eager!Add(r0, k0)
    <3> HIDE DEF late
    <3> QED
      BY <2>2, <2>4, <2>7, <2>8, Adds
  <2> QED
    BY <2>9 DEF Eager!Next
<1>5. CASE StoreIdx(c)
  <2> DEFINE r0 == walk[c].row
             k0 == Col(c)
  <2>1. /\ Goes(c, "stamp", "age") \/ Goes(c, "stamp", "done")
        /\ \A r \in 1..Depth, k \in Cols :
             last_decay_idx'[r][k] = IF r = r0 /\ k = k0 /\ walk[c].elapsed > 0
                                       THEN walk[c].idx ELSE last_decay_idx[r][k]
        /\ UNCHANGED bytes
    BY <1>5, StoreIdxDoes
  <2>2. /\ r0 \in 1..Depth /\ k0 \in Cols /\ walk[c].at = "stamp" /\ walk'[c].at # "stamp"
    BY <2>1, WalkIs DEF Goes
  <2>3. last_decay_idx'[r0][k0] = walk[c].idx
    BY <1>5, StampIsIdx
  <2>4. \A r \in 1..Depth, k \in Cols : AgedTo(r, k)' = AgedTo(r, k)
    BY <1>a, <1>b, <2>1, <2>2, <2>3
  <2> QED
    BY <2>1, <2>4, ViewStays, Stutters DEF Goes
<1>6. CASE Take(c)
  <2>1. /\ walk[c].at = "done" /\ walk'[c].at = "idle"
        /\ UNCHANGED <<bytes, last_decay_idx, now_idx>>
    BY <1>6, TakeDoes DEF cells
  <2> QED
    BY <1>a, <1>b, <2>1, ViewStays, Stutters
<1>7. CASE UNCHANGED vars
  <2>1. UNCHANGED <<bytes, last_decay_idx, walk, now_idx>>
    BY <1>7 DEF vars, cells
  <2>2. \A r \in 1..Depth, k \in Cols : AgedTo(r, k)' = AgedTo(r, k)
    BY <2>1 DEF AgedTo, Col
  <2> QED
    BY <2>1, <2>2, ViewStays, Stutters
<1> QED
  BY <1>1, <1>2, <1>3, <1>4, <1>5, <1>6, <1>7, LoadIdxDoes, LoadBytesDoes, Stutters
     DEF Next, Step, OneClock

----------------------------------------------------------------------------
(* The inductive invariant holds of every behaviour of the sketch. *)
THEOREM Invariance == Spec => []SketchInv
  BY InitSketchInv, NextSketchInv, PTL DEF Spec

(* The fields of every cell and of every walk stay within their types.     *)
THEOREM TypeCorrect == Spec => []TypeOK
<1>1. SketchInv => TypeOK
  BY DEF SketchInv
<1> QED
  BY <1>1, Invariance, PTL

(* Unsynchronised updates lose bytes and never make any up: no cell counts *)
(* more than the packets that reached it had.                              *)
THEOREM NoOvercount == Spec => []NeverOvercounts
<1>1. SketchInv => NeverOvercounts
  BY DEF SketchInv
<1> QED
  BY <1>1, Invariance, PTL

(* An estimate never exceeds the true traffic of any cell of its flow:     *)
(* a flow whose cells were sent no more than the threshold is never heavy. *)
THEOREM EstimateBacked == Spec => []EstimateHasEvidence
<1>1. SketchInv => EstimateHasEvidence
  BY DEF SketchInv, EvidenceSoFar, EstimateHasEvidence, Visited
<1> QED
  BY <1>1, Invariance, PTL

(* With one CPU, one clock and counters that fit, the estimate covers what *)
(* the flow itself has sent, halved at every boundary it has lived through *)
(* in its cells: no heavy hitter is missed, however long it was dormant.   *)
THEOREM EstimateCovers ==
  ASSUME NEW CONSTANT c \in CPUs, OneClock(c), NEW CONSTANT m, CountsFit(m)
  PROVE  Spec => []EstimateCoversFlow
<1>1. Init => AgingInv(c, m)
  BY InitAgingInv
<1>2. SketchInv /\ AgingInv(c, m) /\ [Next]_vars => AgingInv(c, m)'
  BY NextAgingInv
<1>3. SketchInv /\ AgingInv(c, m) => EstimateCoversFlow
  BY AgingCovers
<1> QED
  BY <1>1, <1>2, <1>3, Invariance, PTL DEF Spec

(* With one CPU, one clock and counters that fit, lazy aging implements    *)
(* the sweeper: a cell is halved once for every boundary, neither more nor *)
(* less often, whenever a packet comes to touch it.                        *)
THEOREM RefinesEager ==
  ASSUME NEW CONSTANT c \in CPUs, OneClock(c), NEW CONSTANT m, CountsFit(m)
  PROVE  Spec => ImplementsEager
<1>1. Init => AgingInv(c, m)
  BY InitAgingInv
<1>2. SketchInv /\ AgingInv(c, m) /\ [Next]_vars => AgingInv(c, m)'
  BY NextAgingInv
<1>3. Init => Eager!Init
  BY <1>1, InitEager DEF AgingInv
<1>4. SketchInv /\ SketchInv' /\ AgingInv(c, m) /\ AgingInv(c, m)' /\ [Next]_vars
        => [Eager!Next]_(Eager!vars)
  BY NextEager DEF SketchInv, AgingInv
<1> QED
  BY <1>1, <1>2, <1>3, <1>4, Invariance, PTL DEF Spec, ImplementsEager, Eager!Spec

=============================================================================
