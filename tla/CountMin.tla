------------------------------ MODULE CountMin ------------------------------
(***************************************************************************)
(* One direction's half of natra_cms_map and the CPUs that count packets   *)
(* in it: cms_update_and_min.                                              *)
(*                                                                         *)
(* A packet visits its cell of each row in turn.  Cells are plain memory:  *)
(* the load of last_decay_idx, the load of bytes and the two stores are    *)
(* separate steps, between which any other CPU may do its own.  now_idx is *)
(* read once per packet, before the first row.                             *)
(***************************************************************************)
EXTENDS Integers, FiniteSets, PowersOfTwo

CONSTANTS
  CPUs,        \* CPUs that run the program
  Flows,       \* flow keys
  Depth,       \* CMS_DEPTH: the number of rows
  Cols,        \* the columns of a row: 0..CMS_WIDTH - 1
  Hash,        \* Hash[f][r]: the column of flow f in row r
  Lens,        \* packet sizes
  CellBits,    \* 64: the width of a cell's counter
  IdxLag,      \* how many intervals a CPU's reading may lag behind
  MaxIdx,      \* bound: decay intervals
  MaxPackets,  \* bound: packets counted
  NoFlow       \* the flow of an idle CPU

ASSUME SketchAssumption ==
  /\ Depth \in Nat \ {0}
  /\ Hash \in [Flows -> [1..Depth -> Cols]]
  /\ Lens \subseteq Nat \ {0}
  /\ CellBits \in Nat \ {0}
  /\ IdxLag \in Nat
  /\ MaxIdx \in Nat
  /\ MaxPackets \in Nat
  /\ NoFlow \notin Flows

VARIABLES
  bytes,           \* cms_cell.bytes
  last_decay_idx,  \* cms_cell.last_decay_idx
  now_idx,         \* the clock, in decay intervals
  walk,            \* each CPU's walk over the rows
  counted,         \* history: packets counted
  sent,            \* history: bytes of every packet that reached a cell
  own              \* history: each flow's bytes, halved at every boundary

cells == <<bytes, last_decay_idx>>
vars == <<cells, now_idx, walk, counted, sent, own>>

CellWord == Pow2[CellBits]

(* mn before the first row: all ones. *)
AllOnes == CellWord - 1

Idle == [at |-> "idle", flow |-> NoFlow, len |-> 0, idx |-> 0, row |-> 0,
         elapsed |-> 0, next |-> 0, mn |-> AllOnes]

Init ==
  /\ bytes = [r \in 1..Depth |-> [k \in Cols |-> 0]]
  /\ last_decay_idx = [r \in 1..Depth |-> [k \in Cols |-> 0]]
  /\ now_idx \in 0..MaxIdx
  /\ walk = [c \in CPUs |-> Idle]
  /\ counted = 0
  /\ sent = [r \in 1..Depth |-> [k \in Cols |-> 0]]
  /\ own = [f \in Flows |-> 0]

(* A decay interval, CMS_DECAY_INTERVAL_NS, ends. *)
Boundary ==
  /\ now_idx < MaxIdx
  /\ now_idx' = now_idx + 1
  /\ own' = [f \in Flows |-> own[f] \div 2]
  /\ UNCHANGED <<cells, walk, counted, sent>>

(* The column the packet of CPU c has in its current row. *)
Col(c) == Hash[walk[c].flow][walk[c].row]

(* natra_classify has parsed a packet and read the clock: interval i.      *)
Begin(c, f, n, i) ==
  /\ walk[c].at = "idle"
  /\ counted < MaxPackets
  /\ walk' = [walk EXCEPT ![c] =
                [Idle EXCEPT !.at = "age", !.flow = f, !.len = n,
                             !.idx = i, !.row = 1]]
  /\ counted' = counted + 1
  /\ own' = [own EXCEPT ![f] = @ + n]
  /\ UNCHANGED <<cells, now_idx, sent>>

(* How many intervals the cell has not been aged by. *)
LoadIdx(c) ==
  LET last == last_decay_idx[walk[c].row][Col(c)]
  IN  /\ walk[c].at = "age"
      /\ walk' = [walk EXCEPT ![c] = [@ EXCEPT
           !.at = "count",
           !.elapsed = IF walk[c].idx > last THEN walk[c].idx - last ELSE 0]]
      /\ UNCHANGED <<cells, now_idx, counted, sent, own>>

(* Mutant of Faded: a cell of an earlier interval starts over. *)
FadedToNothing(b, elapsed) == IF elapsed > 0 THEN 0 ELSE b

(* A right shift; 64 or more would be undefined and is written as 0. *)
Faded(b, elapsed) == IF elapsed >= CellBits THEN 0 ELSE b \div Pow2[elapsed]

LoadBytes(c) ==
  LET faded == Faded(bytes[walk[c].row][Col(c)], walk[c].elapsed)
  IN  /\ walk[c].at = "count"
      /\ walk' = [walk EXCEPT ![c] = [@ EXCEPT
           !.at = "store",
           !.next = (faded + walk[c].len) % CellWord]]
      /\ sent' = [sent EXCEPT ![walk[c].row][Col(c)] = @ + walk[c].len]
      /\ UNCHANGED <<cells, now_idx, counted, own>>

(* Mutant of StoreBytes: adds the new value rather than storing it. *)
AddBytes(c) ==
  /\ walk[c].at = "store"
  /\ bytes' = [bytes EXCEPT ![walk[c].row][Col(c)] = (@ + walk[c].next) % CellWord]
  /\ walk' = [walk EXCEPT ![c] = [@ EXCEPT !.at = "stamp"]]
  /\ UNCHANGED <<last_decay_idx, now_idx, counted, sent, own>>

StoreBytes(c) ==
  /\ walk[c].at = "store"
  /\ bytes' = [bytes EXCEPT ![walk[c].row][Col(c)] = walk[c].next]
  /\ walk' = [walk EXCEPT ![c] = [@ EXCEPT !.at = "stamp"]]
  /\ UNCHANGED <<last_decay_idx, now_idx, counted, sent, own>>

(* Mutant of Lesser: the row walked last decides. *)
Latest(a, b) == a

Lesser(a, b) == IF a < b THEN a ELSE b

(* The minimum, and on to the next row. *)
NextRow(w) ==
  [w EXCEPT !.mn  = Lesser(w.next, w.mn),
            !.at  = IF w.row < Depth THEN "age" ELSE "done",
            !.row = IF w.row < Depth THEN w.row + 1 ELSE w.row]

(* Mutant of StoreIdx: never stamps the cell it aged. *)
StampNever(c) ==
  /\ walk[c].at = "stamp"
  /\ walk' = [walk EXCEPT ![c] = NextRow(@)]
  /\ UNCHANGED <<cells, now_idx, counted, sent, own>>

(* The store of last_decay_idx. *)
StoreIdx(c) ==
  LET w == walk[c]
  IN  /\ w.at = "stamp"
      /\ last_decay_idx' =
           IF w.elapsed > 0
             THEN [last_decay_idx EXCEPT ![w.row][Col(c)] = w.idx]
             ELSE last_decay_idx
      /\ walk' = [walk EXCEPT ![c] = NextRow(@)]
      /\ UNCHANGED <<bytes, now_idx, counted, sent, own>>

(* The caller takes the estimate, walk[c].mn. *)
Take(c) ==
  /\ walk[c].at = "done"
  /\ walk' = [walk EXCEPT ![c] = Idle]
  /\ UNCHANGED <<cells, now_idx, counted, sent, own>>

Step(c) == LoadIdx(c) \/ LoadBytes(c) \/ StoreBytes(c) \/ StoreIdx(c)

(* The interval CPU c's clock may read. *)
Readings == {i \in 0..MaxIdx : i <= now_idx /\ i + IdxLag >= now_idx}

Next ==
  \/ Boundary
  \/ \E c \in CPUs :
       \/ \E f \in Flows, n \in Lens, i \in Readings : Begin(c, f, n, i)
       \/ Step(c)
       \/ Take(c)

Spec == Init /\ [][Next]_vars

----------------------------------------------------------------------------
Cell(S) == [1..Depth -> [Cols -> S]]

Walk ==
  [at : {"idle", "age", "count", "store", "stamp", "done"},
   flow : Flows \union {NoFlow}, len : Lens \union {0}, idx : 0..MaxIdx,
   row : 0..Depth, elapsed : 0..MaxIdx, next : 0..AllOnes, mn : 0..AllOnes]

TypeOK ==
  /\ bytes \in Cell(0..AllOnes)
  /\ last_decay_idx \in Cell(0..MaxIdx)
  /\ now_idx \in 0..MaxIdx
  /\ walk \in [CPUs -> Walk]
  /\ counted \in 0..MaxPackets
  /\ sent \in Cell(Nat)
  /\ own \in [Flows -> Nat]

(* cms_update_and_min: whatever the CPUs lose of each other's work, a cell *)
(* never holds more bytes than the packets that reached it had, and no     *)
(* stale value in a register is larger either.                             *)
NeverOvercounts ==
  /\ \A r \in 1..Depth, k \in Cols : bytes[r][k] <= sent[r][k]
  /\ \A c \in CPUs :
       walk[c].at \in {"store", "stamp"} =>
         walk[c].next <= sent[walk[c].row][Col(c)]

(* A walk under way is about a flow, and in a row. *)
WalkOK ==
  \A c \in CPUs :
    walk[c].at # "idle" => walk[c].flow \in Flows /\ walk[c].row \in 1..Depth

(* The rows whose cells CPU c's packet has been counted in. *)
Visited(c) ==
  {r \in 1..Depth : \/ walk[c].at # "idle" /\ r < walk[c].row
                    \/ walk[c].at = "done"}

(* The minimum of an unfinished walk is backed by the rows it has visited. *)
EvidenceSoFar ==
  \A c \in CPUs : \A r \in Visited(c) :
    walk[c].mn <= sent[r][Hash[walk[c].flow][r]]

(* A flow is taken for heavy only on the evidence of the traffic of every  *)
(* one of its cells: the estimate is at most what each of them was sent.   *)
EstimateHasEvidence ==
  \A c \in CPUs :
    walk[c].at = "done" =>
      \A r \in 1..Depth : walk[c].mn <= sent[r][Hash[walk[c].flow][r]]

SketchInv == TypeOK /\ WalkOK /\ NeverOvercounts /\ EvidenceSoFar

(* With one CPU the estimate covers what the flow itself sent, aged as if  *)
(* a sweeper ran: no heavy hitter escapes by hashing, by going dormant or  *)
(* by straddling a boundary.                                               *)
EstimateCoversFlow ==
  \A c \in CPUs :
    walk[c].at = "done" => walk[c].mn >= own[walk[c].flow]

(* The interval up to which a cell is aged; between the two stores, the    *)
(* one about to be written.                                                *)
AgedTo(r, k) ==
  LET writing == {c \in CPUs : /\ walk[c].at = "stamp"
                               /\ walk[c].elapsed > 0
                               /\ walk[c].row = r
                               /\ Col(c) = k}
  IN  IF writing = {} THEN last_decay_idx[r][k]
      ELSE walk[CHOOSE c \in writing : TRUE].idx

Eager == INSTANCE EagerSketch WITH
  cell <- [r \in 1..Depth |-> [k \in Cols |->
             bytes[r][k] \div Pow2[now_idx - AgedTo(r, k)]]]

(* With one CPU, aging a cell when it is next touched cannot be told from  *)
(* a sweeper that halves every cell at every boundary.                     *)
ImplementsEager == Eager!Spec

=============================================================================
