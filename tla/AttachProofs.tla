---------------------------- MODULE AttachProofs ----------------------------
(***************************************************************************)
(* What ADD and DEL keep, for any number of interfaces, maps and attempts, *)
(* through every refusal, every fallback and every kill.                   *)
(***************************************************************************)
EXTENDS Attach, SequenceTheorems, TLAPS

(* Control points of an ADD: under way, in an attempt, with a program. *)
Loaded == {"configure", "attach", "pin", "maps"}
Trying == {"fq", "load", "fail"} \cup Loaded
Acting == {"attempt"} \cup Trying

Attempts == [hook : Hooks, side : Ends]

Process ==
  [op : {"none", "add", "del"}, at : {"none", "remove", "done"} \cup Acting,
   ifname : Ifs \cup {NoIf}, left : Seq(Attempts), ns : Ends, lost : BOOLEAN,
   on : Ifs \cup {NoIf}, paced : BOOLEAN, prog : Programs \cup {0}, mine : SUBSET Programs, i : 1..2,
   todo : SUBSET Names, ok : BOOLEAN]

(* What the process holds where: an attempt under way has an interface, a  *)
(* strategy and a direction to attach, and the thread is at the end of the *)
(* pair that the attempt is about; outside of one it is on the host.  One  *)
(* that was lost is in the pod's netns for good.                           *)
Registers ==
  /\ proc \in Process
  /\ proc.op = "none" <=> proc.at = "none"
  /\ proc.at \in Acting => proc.op = "add" /\ proc.ifname \in Ifs /\ conf.want # {}
  /\ proc.at = "remove" => proc.op = "del" /\ proc.ifname \in Ifs
  /\ proc.at \in Trying => proc.left # <<>> /\ (proc.ns = Side \/ proc.lost)
  /\ proc.at \in Trying /\ (Side = "pod" \/ ~proc.lost) => proc.on = proc.ifname
  /\ proc.at \in {"fq", "load"} => proc.i = 1
  /\ proc.at \in Loaded => proc.i <= Len(Steps) /\ proc.prog \in proc.mine
  /\ proc.at = "pin" => proc.on # NoIf
  /\ proc.at \notin Trying => proc.ns = "host" \/ proc.lost
  /\ proc.lost => proc.ns = "pod"

(* The rest of what TypeOK says. *)
Store ==
  /\ conf \in [mode : Modes, edt : {"auto", "on", "off"}, want : SUBSET Dirs]
  /\ slot \in [Programs -> [Dirs -> {"unset", "drop", "pace"}]]
  /\ links \in SUBSET Link
  /\ pins \in [Names -> Programs \cup {0}]
  /\ qdisc \in [Ifs -> {"noqueue", "fq"}]
  /\ added \in SUBSET Ifs
  /\ tries \in 0..MaxTries
  /\ stuck \in SUBSET Names

(* Pacing is promised only by a program above an fq, and under EDT on by   *)
(* every one: no attempt is then left for the host's end.  What is about   *)
(* to be attached has its slot written.                                    *)
Pacer ==
  /\ proc.at = "fq" => ~proc.paced
  /\ proc.at \in {"load"} \cup Loaded =>
       /\ proc.paced => Side = "pod" /\ qdisc[proc.ifname] = "fq"
       /\ conf.edt = "on" => proc.paced
  /\ proc.at \in Acting /\ conf.edt = "on" =>
       \A k \in 1..Len(proc.left) : proc.left[k].side = "pod"
  /\ proc.at \in {"attach", "pin"} => slot[proc.prog][Dir] = Pacing(Dir)

(* The links of the program at hand are of this attempt. *)
Placed ==
  proc.at \in Loaded =>
    \A l \in links : l.prog = proc.prog =>
      /\ <<l.ifname, l.end, l.hookDir>> = <<proc.on, proc.ns, HookDir(l.dir)>>
      /\ l.astray = proc.lost

(* What a link must be, in one place. *)
Sound(l) ==
  /\ slot[l.prog][l.dir] # "unset"
  /\ slot[l.prog][l.dir] = "pace" =>
       l.end = "pod" /\ l.hookDir = "egress" /\ qdisc[l.ifname] = "fq"
  /\ conf.edt = "on" /\ l.dir = "egress" => slot[l.prog]["egress"] = "pace"
  /\ ~l.astray => (l.dir = l.hookDir <=> l.end = "pod")

LinksSound == \A l \in links : Sound(l)

IInv == Store /\ Registers /\ Pacer /\ Placed /\ LinksSound

----------------------------------------------------------------------------
LEMMA OppositeIs ==
  Opposite("ingress") = "egress" /\ Opposite("egress") = "ingress"
  BY DEF Opposite, Dirs

LEMMA StepsAre ==
  ASSUME conf.want \in SUBSET Dirs
  PROVE  /\ Steps \in Seq(Dirs) /\ Len(Steps) \in 0..2
         /\ Len(Steps) = 2 => Steps[1] = "ingress" /\ Steps[2] = "egress"
         /\ \A d \in conf.want : \E k \in 1..Len(Steps) : Steps[k] = d
         /\ conf.want # {} => Len(Steps) >= 1
<1>1. CASE "ingress" \in conf.want /\ "egress" \in conf.want
  <2>1. Steps = <<"ingress">> \o <<"egress">>
    BY <1>1 DEF Steps
  <2> QED BY <1>1, <2>1 DEF Dirs
<1>2. CASE "ingress" \in conf.want /\ "egress" \notin conf.want
  <2>1. Steps = <<"ingress">> \o <<>>
    BY <1>2 DEF Steps
  <2> QED BY <1>2, <2>1 DEF Dirs
<1>3. CASE "ingress" \notin conf.want /\ "egress" \in conf.want
  <2>1. Steps = <<>> \o <<"egress">>
    BY <1>3 DEF Steps
  <2> QED BY <1>3, <2>1 DEF Dirs
<1>4. CASE "ingress" \notin conf.want /\ "egress" \notin conf.want
  <2>1. Steps = <<>> \o <<>>
    BY <1>4 DEF Steps
  <2>2. conf.want = {}
    BY <1>4 DEF Dirs
  <2> QED BY <2>1, <2>2 DEF Dirs
<1> QED BY <1>1, <1>2, <1>3, <1>4

LEMMA StrategyType ==
  ASSUME conf \in [mode : Modes, edt : {"auto", "on", "off"}, want : SUBSET Dirs]
  PROVE  Strategy \in Seq(Attempts)
<1>1. \A h \in Hooks, s \in Ends : Attempt(h, s) \in Attempts
  BY DEF Attempt, Attempts
<1>2. \A m \in Modes : m = <<>> \/ \E h \in Hooks, s \in Ends : m = <<Attempt(h, s)>>
  BY DEF Modes
<1>3. conf.mode # <<>> => Strategy = conf.mode
  BY DEF Strategy
<1>4. conf.mode = <<>> =>
        \/ Strategy = <<Attempt("tcx", "pod"), Attempt("clsact", "pod")>>
        \/ Strategy = <<Attempt("tcx", "pod"), Attempt("clsact", "pod"),
                        Attempt("tcx", "host"), Attempt("clsact", "host")>>
        \/ Strategy = <<Attempt("tcx", "host"), Attempt("tcx", "pod"),
                        Attempt("clsact", "host"), Attempt("clsact", "pod")>>
  BY DEF Strategy
<1>5. /\ Attempt("tcx", "pod") \in Attempts /\ Attempt("clsact", "pod") \in Attempts
      /\ Attempt("tcx", "host") \in Attempts /\ Attempt("clsact", "host") \in Attempts
  BY <1>1 DEF Hooks, Ends
<1>6. \A a \in Attempts : <<a>> \in Seq(Attempts)
  OBVIOUS
<1>7. \A a, b \in Attempts : <<a, b>> \in Seq(Attempts)
  OBVIOUS
<1>8. \A a, b, c, d \in Attempts : <<a, b, c, d>> \in Seq(Attempts)
  OBVIOUS
<1>9. conf.mode \in Modes
  OBVIOUS
<1> HIDE DEF Attempts, Modes, Strategy
<1>10. CASE conf.mode = <<>>
  <2> DEFINE a == Attempt("tcx", "pod")  b == Attempt("clsact", "pod")
             c == Attempt("tcx", "host") d == Attempt("clsact", "host")
  <2>1. Strategy \in {<<a, b>>, <<a, b, c, d>>, <<c, a, d, b>>}
    BY <1>4, <1>10
  <2> HIDE DEF a, b, c, d
  <2>2. a \in Attempts /\ b \in Attempts /\ c \in Attempts /\ d \in Attempts
    BY <1>5 DEF a, b, c, d
  <2>3. <<a, b>> \in Seq(Attempts)
    BY <2>2, <1>7
  <2>4. <<a, b, c, d>> \in Seq(Attempts)
    BY <2>2, <1>8
  <2>5. <<c, a, d, b>> \in Seq(Attempts)
    BY <2>2, <1>8
  <2> QED BY <2>1, <2>3, <2>4, <2>5
<1>11. CASE conf.mode # <<>>
  <2>1. PICK h \in Hooks, s \in Ends : conf.mode = <<Attempt(h, s)>>
    BY <1>2, <1>9, <1>11
  <2>2. <<Attempt(h, s)>> \in Seq(Attempts)
    BY <1>1, <1>6
  <2> QED BY <2>1, <2>2, <1>3, <1>11
<1> QED BY <1>10, <1>11

----------------------------------------------------------------------------
LEMMA TypesAre == Store /\ Registers => TypeOK
<1> SUFFICES ASSUME Store, Registers PROVE TypeOK
  OBVIOUS
<1>1. /\ proc.op \in {"none", "add", "del"}
      /\ proc.at \in {"none", "attempt", "fq", "load", "configure", "attach",
                      "pin", "maps", "fail", "remove", "done"}
      /\ proc.ifname \in Ifs \cup {NoIf}
      /\ proc.ns \in Ends /\ proc.lost \in BOOLEAN /\ proc.on \in Ifs \cup {NoIf}
      /\ proc.paced \in BOOLEAN /\ proc.ok \in BOOLEAN
      /\ proc.prog \in Programs \cup {0} /\ proc.mine \in SUBSET Programs
      /\ proc.i \in 1..2
      /\ proc.todo \in SUBSET Names
  BY DEF Registers, Process, Acting, Trying, Loaded
<1>2. proc.at \in {"configure", "attach", "pin"} => proc.i <= Len(Steps)
  BY DEF Registers, Loaded
<1> QED
  BY <1>1, <1>2 DEF Store, TypeOK

(* A process at its start. *)
LEMMA Starts ==
  ASSUME NEW at \in {"none", "remove", "done"} \cup Acting, NEW f \in Ifs
  PROVE  /\ NoProcess \in Process
         /\ \A left \in Seq(Attempts) :
              [NoProcess EXCEPT !.op = "add", !.at = at, !.ifname = f, !.left = left]
                \in Process
         /\ \A todo \in SUBSET Names :
              [NoProcess EXCEPT !.op = "del", !.at = at, !.ifname = f, !.todo = todo]
                \in Process
<1>1. NoProcess \in Process
  <2>1. <<>> \in Seq(Attempts)
    OBVIOUS
  <2> QED
    BY <2>1 DEF NoProcess, Process, Ends
<1>2. ASSUME NEW p \in Process, NEW left \in Seq(Attempts)
      PROVE  [p EXCEPT !.op = "add", !.at = at, !.ifname = f, !.left = left] \in Process
  BY DEF Process
<1>3. ASSUME NEW p \in Process, NEW todo \in SUBSET Names
      PROVE  [p EXCEPT !.op = "del", !.at = at, !.ifname = f, !.todo = todo] \in Process
  BY DEF Process
<1> QED
  BY <1>1, <1>2, <1>3

(* The restore function touches the netns only, and returns or is lost. *)
LEMMA RestoredIs ==
  ASSUME NEW p \in Process, NEW q \in Restored(p)
  PROVE  /\ q \in Process /\ (q.lost => q.ns = "pod") /\ (~q.lost => q.ns = "host")
         /\ q.op = p.op /\ q.at = p.at /\ q.ifname = p.ifname /\ q.left = p.left
         /\ q.on = p.on /\ q.paced = p.paced /\ q.prog = p.prog /\ q.mine = p.mine
         /\ q.i = p.i /\ q.todo = p.todo /\ q.ok = p.ok
<1>1. p.lost \in BOOLEAN /\ \A l \in BOOLEAN : (IF l THEN "pod" ELSE "host") \in Ends
  BY DEF Process, Ends
<1>2. PICK l \in {p.lost, TRUE} :
        q = [p EXCEPT !.lost = l, !.ns = IF l THEN "pod" ELSE "host"]
  BY DEF Restored
<1>3. l \in BOOLEAN
  BY <1>1, <1>2
<1> DEFINE ns == IF l THEN "pod" ELSE "host"
<1>4. ns \in Ends /\ (l => ns = "pod") /\ (~l => ns = "host")
  BY <1>1, <1>3
<1>5. q = [p EXCEPT !.lost = l, !.ns = ns]
  BY <1>2
<1> HIDE DEF ns
<1> QED
  BY <1>3, <1>4, <1>5 DEF Process

LEMMA LeftIs ==
  ASSUME NEW p \in Process, NEW q \in Left(p), p.lost => p.ns = "pod",
         p.ns = Side \/ p.lost, Side \in Ends
  PROVE  /\ q \in Process /\ (q.lost => q.ns = "pod") /\ (~q.lost => q.ns = "host")
         /\ q.op = p.op /\ q.at = p.at /\ q.ifname = p.ifname /\ q.left = p.left
         /\ q.on = p.on /\ q.paced = p.paced /\ q.prog = p.prog /\ q.mine = p.mine
         /\ q.i = p.i /\ q.todo = p.todo /\ q.ok = p.ok
<1>1. CASE Side = "pod"
  BY <1>1, RestoredIs DEF Left
<1>2. CASE Side = "host"
  BY <1>2 DEF Left
<1> QED
  BY <1>1, <1>2 DEF Ends

(* A process in an attempt that begins. *)
LEMMA Begins ==
  ASSUME NEW p \in Process, NEW f \in Ifs \cup {NoIf}
  PROVE  [p EXCEPT !.at = "fq", !.on = f, !.paced = FALSE, !.prog = 0, !.i = 1] \in Process
<1>1. "fq" \in {"none", "remove", "done"} \cup Acting /\ 0 \in Programs \cup {0} /\ 1 \in 1..2
  BY DEF Acting, Trying
<1> DEFINE At == {"none", "remove", "done"} \cup Acting
<1>2. ASSUME NEW to \in At, NEW prog \in Programs \cup {0}, NEW i \in 1..2, NEW b \in BOOLEAN
      PROVE  [p EXCEPT !.at = to, !.on = f, !.paced = b, !.prog = prog, !.i = i] \in Process
  BY DEF Process
<1> QED
  BY <1>1, <1>2

(* resolveIfIndex ends the attempt, or begins it at the end it is about,   *)
(* unless the thread is lost.                                              *)
LEMMA ResolvesTo ==
  ASSUME Store, Registers, ResolveIfIndex
  PROVE  /\ proc' \in Process /\ (proc'.lost => proc'.ns = "pod")
         /\ proc'.op = proc.op /\ proc'.ifname = proc.ifname /\ proc'.mine = proc.mine
         /\ proc'.ok = proc.ok /\ proc.at = "attempt"
         /\ proc.left \in Seq(Attempts) /\ proc.left # <<>>
         /\ \/ /\ proc'.at = "attempt" /\ proc'.left = Tail(proc.left)
               /\ proc'.ns = "host" \/ proc'.lost
            \/ /\ proc'.at = "fq" /\ proc'.left = proc.left /\ ~proc'.paced
               /\ proc'.i = 1 /\ (proc'.ns = Side \/ proc'.lost)
               /\ Side = "pod" \/ ~proc'.lost => proc'.on = proc.ifname
<1> DEFINE inside == [proc EXCEPT !.ns = "pod"]
           found(p, f) == [p EXCEPT !.at = "fq", !.on = f, !.paced = FALSE,
                                    !.prog = 0, !.i = 1]
<1>1. /\ proc \in Process /\ proc.at = "attempt" /\ proc.left # <<>>
      /\ proc.ifname \in Ifs /\ (proc.ns = "host" \/ proc.lost)
      /\ proc.lost => proc.ns = "pod"
  BY DEF ResolveIfIndex, Registers, Acting, Trying, Loaded
<1>2. proc.left \in Seq(Attempts) /\ Tail(proc.left) \in Seq(Attempts)
  BY <1>1 DEF Process
<1>3. /\ inside \in Process /\ inside.ns = "pod" /\ inside.at = "attempt"
      /\ inside.left = proc.left /\ inside.op = proc.op /\ inside.ifname = proc.ifname
      /\ inside.mine = proc.mine /\ inside.ok = proc.ok /\ inside.lost = proc.lost
  <2>1. "pod" \in Ends
    BY DEF Ends
  <2> QED
    BY <1>1, <2>1 DEF Process
<1>4. \/ proc' = [proc EXCEPT !.left = Tail(@)]
      \/ \E p \in Restored(inside) : proc' = [p EXCEPT !.left = Tail(@)]
      \/ Side = "pod" /\ proc' = found(inside, proc.ifname)
      \/ /\ Side = "host"
         /\ \E p \in Restored(inside) : \E f \in ByNumber(p) : proc' = found(p, f)
  BY DEF ResolveIfIndex
<1> HIDE DEF inside
<1>5. CASE proc' = [proc EXCEPT !.left = Tail(@)]
  BY <1>1, <1>2, <1>5 DEF Process
<1>6. ASSUME NEW p \in Restored(inside), proc' = [p EXCEPT !.left = Tail(@)]
      PROVE  /\ proc' \in Process /\ (proc'.lost => proc'.ns = "pod")
             /\ proc'.op = proc.op /\ proc'.ifname = proc.ifname /\ proc'.mine = proc.mine
             /\ proc'.ok = proc.ok /\ proc'.at = "attempt" /\ proc'.left = Tail(proc.left)
             /\ (proc'.ns = "host" \/ proc'.lost)
  <2>1. /\ p \in Process /\ p.left = proc.left /\ p.at = "attempt" /\ (p.lost => p.ns = "pod")
        /\ (~p.lost => p.ns = "host") /\ p.op = proc.op /\ p.ifname = proc.ifname
        /\ p.mine = proc.mine /\ p.ok = proc.ok
    BY <1>3, RestoredIs
  <2> QED
    BY <1>2, <1>6, <2>1 DEF Process
<1>7. CASE Side = "pod" /\ proc' = found(inside, proc.ifname)
  <2>1. proc.ifname \in Ifs \cup {NoIf}
    BY <1>1
  <2>2. /\ proc' \in Process /\ proc'.at = "fq" /\ proc'.on = proc.ifname /\ ~proc'.paced
        /\ proc'.i = 1 /\ proc'.op = inside.op /\ proc'.ifname = inside.ifname
        /\ proc'.left = inside.left /\ proc'.ns = inside.ns /\ proc'.lost = inside.lost
        /\ proc'.mine = inside.mine /\ proc'.ok = inside.ok
    <3>1. found(inside, proc.ifname) \in Process
      BY <1>3, <2>1, Begins
    <3> QED
      BY <1>3, <1>7, <3>1 DEF Process
  <2> QED
    BY <1>1, <1>2, <1>3, <1>7, <2>2
<1>8. ASSUME Side = "host", NEW p \in Restored(inside), NEW f \in ByNumber(p),
             proc' = found(p, f)
      PROVE  /\ proc' \in Process /\ (proc'.lost => proc'.ns = "pod")
             /\ proc'.op = proc.op /\ proc'.ifname = proc.ifname /\ proc'.mine = proc.mine
             /\ proc'.ok = proc.ok
             /\ proc'.at = "fq" /\ proc'.left = proc.left /\ ~proc'.paced
             /\ proc'.i = 1 /\ (proc'.ns = Side \/ proc'.lost)
             /\ Side = "pod" \/ ~proc'.lost => proc'.on = proc.ifname
  <2>1. /\ p \in Process /\ p.left = proc.left /\ (p.lost => p.ns = "pod")
        /\ (~p.lost => p.ns = "host") /\ p.op = proc.op /\ p.ifname = proc.ifname
        /\ p.mine = proc.mine /\ p.ok = proc.ok
    BY <1>3, RestoredIs
  <2>2. f \in Ifs \cup {NoIf} /\ (~p.lost => f = proc.ifname)
    BY <1>1, <1>8, <2>1 DEF ByNumber, Store
  <2>3. /\ proc' \in Process /\ proc'.at = "fq" /\ proc'.on = f /\ ~proc'.paced
        /\ proc'.i = 1 /\ proc'.op = p.op /\ proc'.ifname = p.ifname
        /\ proc'.left = p.left /\ proc'.ns = p.ns /\ proc'.lost = p.lost
        /\ proc'.mine = p.mine /\ proc'.ok = p.ok
    <3>1. found(p, f) \in Process
      BY <2>1, <2>2, Begins
    <3> QED
      BY <1>8, <2>1, <3>1 DEF Process
  <2> QED
    BY <1>8, <2>1, <2>2, <2>3
<1> QED
  BY <1>1, <1>2, <1>4, <1>5, <1>6, <1>7, <1>8

(* An attempt that ends, whichever way: the deferred restore, and then the *)
(* process is done or tries on.                                            *)
LEMMA EndsAttempt ==
  ASSUME Store, Registers, PinMaps \/ Rollback
  PROVE  /\ proc' \in Process /\ (proc'.lost => proc'.ns = "pod")
         /\ (~proc'.lost => proc'.ns = "host") /\ proc.op = "add"
         /\ proc'.op = proc.op /\ proc'.ifname = proc.ifname /\ proc'.mine = proc.mine
         /\ proc'.prog = proc.prog /\ proc'.i = proc.i /\ proc'.todo = proc.todo
         /\ proc.left \in Seq(Attempts) /\ proc.left # <<>>
         /\ PinMaps => proc'.at = "done" /\ proc'.ok /\ proc'.left = proc.left
         /\ Rollback => proc'.at = "attempt" /\ proc'.ok = proc.ok
                       /\ proc'.left = Tail(proc.left)
<1>1. proc \in Process /\ proc.at \in {"maps", "fail"}
  BY DEF Registers, PinMaps, Rollback
<1>2. /\ proc.op = "add" /\ proc.left # <<>> /\ (proc.ns = Side \/ proc.lost)
      /\ proc.lost => proc.ns = "pod"
  BY <1>1 DEF Registers, Acting, Trying, Loaded
<1>3. proc.left \in Seq(Attempts) /\ Tail(proc.left) \in Seq(Attempts)
  BY <1>1, <1>2 DEF Process
<1>4. Side \in Ends
  <2>1. Head(proc.left) \in Attempts
    BY <1>2, <1>3
  <2> QED
    BY <2>1 DEF Side, Attempts
<1>5. ASSUME NEW q \in Left(proc)
      PROVE  /\ q \in Process /\ (q.lost => q.ns = "pod") /\ (~q.lost => q.ns = "host")
             /\ q.op = proc.op /\ q.ifname = proc.ifname /\ q.left = proc.left
             /\ q.prog = proc.prog /\ q.mine = proc.mine /\ q.i = proc.i
             /\ q.todo = proc.todo /\ q.ok = proc.ok
  BY <1>1, <1>2, <1>4, LeftIs
<1>6. CASE PinMaps
  <2>1. PICK q \in Left(proc) : proc' = [q EXCEPT !.at = "done", !.ok = TRUE]
    BY <1>6 DEF PinMaps
  <2>2. ~Rollback
    BY <1>6 DEF PinMaps, Rollback
  <2> QED
    BY <1>2, <1>3, <1>5, <1>6, <2>1, <2>2 DEF Process
<1>7. CASE Rollback
  <2>1. PICK q \in Left(proc) : proc' = [q EXCEPT !.at = "attempt", !.left = Tail(@)]
    BY <1>7 DEF Rollback, NextAttempt
  <2>2. ~PinMaps /\ "attempt" \in Acting
    BY <1>7 DEF PinMaps, Rollback, Acting
  <2> QED
    BY <1>2, <1>3, <1>5, <1>7, <2>1, <2>2 DEF Process
<1> QED
  BY <1>6, <1>7

LEMMA InitTypes == Init => Store /\ Registers
<1> SUFFICES ASSUME Init PROVE Store /\ Registers
  OBVIOUS
<1>1. <<>> \in Seq(Attempts)
  OBVIOUS
<1>2. 0 \in 0..MaxTries
  BY AttachAssumption
<1>3. proc \in Process
  BY <1>1 DEF Init, NoProcess, Process, Acting, Ends
<1> QED
  BY <1>1, <1>2, <1>3 DEF Init, Store, Registers, NoProcess, NoConfig, Ends, Acting, Trying, Loaded

LEMMA StoreKept ==
  Store /\ Registers /\ [Next]_vars => Store'
<1> SUFFICES ASSUME Store, Registers, [Next]_vars
             PROVE  Store'
  OBVIOUS
<1>w. /\ conf.want \in SUBSET Dirs
      /\ Steps \in Seq(Dirs) /\ Len(Steps) \in 0..2
  BY StepsAre DEF Store
<1>p. /\ proc \in Process /\ proc.prog \in Programs \cup {0} /\ proc.ns \in Ends
      /\ proc.at \in Loaded => proc.prog \in Programs
  BY DEF Registers, Process
<1>t. proc.at \in Trying => Side \in Ends /\ Hook \in Hooks
  <2> SUFFICES ASSUME proc.at \in Trying PROVE Side \in Ends /\ Hook \in Hooks
    OBVIOUS
  <2>1. proc.left \in Seq(Attempts) /\ proc.left # <<>>
    BY DEF Registers, Process
  <2>2. Head(proc.left) \in Attempts
    BY <2>1
  <2> QED
    BY <2>2 DEF Side, Hook, Attempts
<1>d. proc.at \in {"configure", "attach", "pin"} =>
        /\ Dir \in Dirs /\ HookDir(Dir) \in Dirs /\ Side \in Ends /\ Hook \in Hooks
  <2> SUFFICES ASSUME proc.at \in {"configure", "attach", "pin"}
               PROVE  Dir \in Dirs /\ HookDir(Dir) \in Dirs /\ Side \in Ends /\ Hook \in Hooks
    OBVIOUS
  <2>1. proc.i \in 1..Len(Steps)
    BY <1>w DEF Registers, Process, Loaded
  <2>2. Dir \in Dirs
    BY <1>w, <2>1 DEF Dir
  <2>3. HookDir(Dir) \in Dirs
    BY <2>2, OppositeIs DEF HookDir, Dirs
  <2> QED
    BY <2>2, <2>3, <1>t DEF Trying, Loaded
<1>n. proc.at = "attach" /\ proc.on # NoIf => NewLink \in Link
  <2> SUFFICES ASSUME proc.at = "attach", proc.on # NoIf PROVE NewLink \in Link
    OBVIOUS
  <2>1. proc.on \in Ifs /\ proc.prog \in Programs /\ proc.ns \in Ends /\ proc.lost \in BOOLEAN
    BY <1>p DEF Registers, Process, Loaded, Trying, Acting
  <2> QED
    BY <2>1, <1>d DEF NewLink, Link
<1>a. ASSUME NEW f \in Ifs, CmdAdd(f) PROVE Store'
  <2>1. tries' \in 0..MaxTries
    <3>1. Len(Strategy) \in Nat
      BY StrategyType DEF Store
    <3> QED
      BY <1>a, <3>1, AttachAssumption DEF CmdAdd, Store
  <2> QED
    BY <1>a, <2>1 DEF CmdAdd, Store
<1>b. ASSUME NEW f \in Ifs, CmdDel(f) PROVE Store'
  <2>1. stuck' \in SUBSET Names
    BY <1>b DEF CmdDel, Store
  <2> QED
    BY <1>b, <2>1 DEF CmdDel, Store
<1>c. CASE ResolveIfIndex \/ PassThrough \/ Load
  BY <1>c DEF ResolveIfIndex, PassThrough, Load, Store
<1>e. CASE InstallFq
  <2>1. qdisc' = qdisc \/ qdisc' = [qdisc EXCEPT ![proc.ifname] = "fq"]
    BY <1>e DEF InstallFq
  <2> QED
    BY <1>e, <2>1 DEF InstallFq, Store
<1>f. CASE Configure
  <2>1. Pacing(Dir) \in {"unset", "drop", "pace"}
    BY DEF Pacing
  <2>2. slot' = slot \/ slot' = [slot EXCEPT ![proc.prog][Dir] = Pacing(Dir)]
    BY <1>f DEF Configure
  <2> QED
    BY <1>f, <1>p, <1>d, <2>1, <2>2 DEF Configure, Store, Loaded
<1>g. CASE AttachTcx \/ AttachClsact
  BY <1>g, <1>n DEF AttachTcx, AttachClsact, Store
<1>h. CASE PinLink
  <2>1. pins' \in [Names -> Programs \cup {0}]
    BY <1>h, <1>p DEF PinLink, Store, Loaded
  <2> QED
    BY <1>h, <2>1 DEF PinLink, Store
<1>i. CASE PinMaps
  BY <1>i, <1>p DEF PinMaps, Store, Loaded
<1>j. ASSUME NEW files, links' = Kept(files) PROVE links' \in SUBSET Link
  BY <1>j DEF Kept, Store
<1>k. ASSUME NEW gone \in SUBSET Names, NEW refused \in SUBSET Names, Unlink(gone, refused)
      PROVE  pins' \in [Names -> Programs \cup {0}] /\ stuck' \in SUBSET Names
  BY <1>k DEF Unlink, Store
<1>l. CASE Rollback
  <2>0. Written \subseteq Names
    <3>1. Side \in Ends
      BY <1>l, <1>t DEF Rollback, Trying
    <3>2. proc.i - 1 \in 0..Len(Steps)
      BY <1>l, <1>p, StepsAre DEF Store, Rollback, Registers, Process, Acting, Trying
    <3>3. \A j \in 1..(proc.i - 1) : Steps[j] \in Dirs
      BY <3>2, <1>w
    <3> QED
      BY <3>1, <3>3 DEF Written, Names, LinkNames
  <2>1. PICK refused \in SUBSET Written : Unlink(Written \ refused, refused)
    BY <1>l DEF Rollback
  <2>2. links' = Kept(pins')
    BY <1>l DEF Rollback
  <2>3. pins' \in [Names -> Programs \cup {0}] /\ stuck' \in SUBSET Names
    BY <1>k, <2>0, <2>1
  <2> QED
    BY <1>l, <1>j, <2>2, <2>3 DEF Rollback, Store
<1>m. CASE Remove
  <2>1. PICK n \in proc.todo : Unlink({n}, {}) \/ Unlink({}, {n})
    BY <1>m DEF Remove
  <2>2. n \in Names
    BY <1>p DEF Process
  <2>3. pins' \in [Names -> Programs \cup {0}] /\ stuck' \in SUBSET Names
    BY <1>k, <2>1, <2>2
  <2> QED
    BY <1>m, <1>j, <2>3 DEF Remove, Store
<1>o. CASE Removed
  BY <1>o DEF Removed, Store
<1>q. CASE Exit \/ Kill
  <2>1. NoConfig \in [Dirs -> {"unset", "drop", "pace"}]
    BY DEF NoConfig
  <2> QED
    BY <1>q, <1>j, <2>1 DEF Exit, Kill, Gone, Store
<1>v. CASE UNCHANGED vars
  BY <1>v DEF vars, Store
<1> QED
  BY <1>a, <1>b, <1>c, <1>e, <1>f, <1>g, <1>h, <1>i, <1>l, <1>m, <1>o, <1>q, <1>v
     DEF Next, PluginStep

LEMMA RegistersKept ==
  Store /\ Registers /\ [Next]_vars => Registers'
<1> SUFFICES ASSUME Store, Registers, [Next]_vars
             PROVE  Registers'
  OBVIOUS
<1>w. /\ conf.want \in SUBSET Dirs
      /\ Steps \in Seq(Dirs) /\ Len(Steps) \in 0..2
      /\ conf.want # {} => Len(Steps) >= 1
  BY StepsAre DEF Store
<1>p. proc \in Process
  BY DEF Registers
<1>a. ASSUME NEW f \in Ifs, CmdAdd(f) PROVE Registers'
  <2>1. Strategy \in Seq(Attempts)
    BY StrategyType DEF Store
  <2>2. PICK at \in {"done", "attempt"} :
          /\ proc' = [NoProcess EXCEPT !.op = "add", !.at = at, !.ifname = f,
                                       !.left = Strategy]
          /\ at = "attempt" => conf.want # {}
    BY <1>a DEF CmdAdd
  <2>3. proc' \in Process
    <3>1. at \in {"none", "remove", "done"} \cup Acting
      BY DEF Acting
    <3> QED
      BY <2>1, <2>2, <3>1, Starts
  <2> QED
    BY <1>a, <2>2, <2>3 DEF CmdAdd, Registers, NoProcess, Acting, Trying, Loaded
<1>b. ASSUME NEW f \in Ifs, CmdDel(f) PROVE Registers'
  <2>1. <<>> \in Seq(Attempts)
    OBVIOUS
  <2>2. proc' \in Process
    <3>1. PICK todo \in SUBSET Names :
            proc' = [NoProcess EXCEPT !.op = "del", !.at = "remove", !.ifname = f,
                                      !.todo = todo]
      BY <1>b DEF CmdDel
    <3> QED
      BY <3>1, Starts
  <2> QED
    BY <1>b, <2>2 DEF CmdDel, Registers, NoProcess, Acting, Trying, Loaded
<1> USE DEF Acting, Trying, Loaded
<1>c. CASE ResolveIfIndex
  <2>1. conf' = conf /\ (proc'.left = proc.left => Side' = Side)
    BY <1>c DEF ResolveIfIndex, Side
  <2>2. proc.op = "add" /\ proc.ifname \in Ifs /\ conf.want # {}
    BY <1>c, ResolvesTo DEF Registers
  <2>3. CASE proc'.at = "attempt"
    BY <1>c, <2>1, <2>2, <2>3, ResolvesTo DEF Registers
  <2>4. CASE proc'.at = "fq"
    BY <1>c, <2>1, <2>2, <2>4, ResolvesTo DEF Registers
  <2> QED
    BY <1>c, <2>3, <2>4, ResolvesTo
<1>e. CASE PassThrough \/ Removed
  BY <1>e, <1>p DEF PassThrough, Removed, Registers, Process
<1>f. CASE InstallFq
  <2>1. PICK to \in {"load", "fail"}, q \in BOOLEAN : proc' = [proc EXCEPT !.at = to, !.paced = q]
    <3>1. proc.paced \in BOOLEAN /\ proc = [proc EXCEPT !.paced = proc.paced]
      BY <1>p DEF Process
    <3>2. CASE proc' = [proc EXCEPT !.at = "load", !.paced = TRUE]
      BY <3>2
    <3>3. \A to \in {"load", "fail"} :
            [proc EXCEPT !.at = to] = [proc EXCEPT !.at = to, !.paced = proc.paced]
      BY <1>p DEF Process
    <3>4. CASE \E to \in {"load", "fail"} : proc' = [proc EXCEPT !.at = to]
      BY <3>1, <3>3, <3>4
    <3> QED
      BY <1>f, <3>2, <3>4 DEF InstallFq
  <2> QED
    BY <1>f, <1>p, <2>1 DEF InstallFq, Registers, Process, Side
<1>g. CASE Load
  <2>1. CASE proc' = [proc EXCEPT !.at = "fail"]
    BY <1>g, <1>p, <2>1 DEF Load, Registers, Process, Side
  <2>2. ASSUME NEW p \in Unused,
               proc' = [proc EXCEPT !.at = "configure", !.prog = p, !.mine = @ \cup {p}]
        PROVE  Registers'
    <3>1. p \in Programs /\ Len(Steps') >= 1
      BY <1>g, <1>w DEF Load, Unused, Registers, Steps
    <3> QED
      BY <1>g, <1>p, <2>2, <3>1 DEF Load, Registers, Process, Side
  <2> QED
    BY <1>g, <2>1, <2>2 DEF Load
<1>h. CASE Configure
  <2>1. PICK to \in {"attach", "fail"} : proc' = [proc EXCEPT !.at = to]
    BY <1>h DEF Configure
  <2> QED
    BY <1>h, <1>p, <2>1 DEF Configure, Registers, Process, Side, Steps
<1>i. CASE AttachTcx \/ AttachClsact \/ PinLink
  <2>1. /\ proc.at \in {"attach", "pin"} /\ conf' = conf
        /\ \/ \E to \in {"pin", "fail"} :
                /\ proc' = [proc EXCEPT !.at = to]
                /\ to = "pin" => proc.on # NoIf
           \/ proc' = NextStep
    BY <1>i DEF AttachTcx, AttachClsact, PinLink
  <2>2. CASE \E to \in {"pin", "fail"} :
               proc' = [proc EXCEPT !.at = to] /\ (to = "pin" => proc.on # NoIf)
    BY <1>p, <2>1, <2>2 DEF Registers, Process, Side, Steps
  <2>3. CASE proc' = NextStep /\ proc.i < Len(Steps)
    <3>1. proc' = [proc EXCEPT !.at = "configure", !.i = @ + 1]
      BY <2>3 DEF NextStep
    <3>2. proc.i + 1 \in 1..2 /\ Steps' = Steps
      BY <1>p, <1>w, <2>1, <2>3 DEF Process, Steps
    <3> QED
      <4>1. proc' \in Process
        BY <1>p, <3>1, <3>2 DEF Process
      <4> QED
        BY <1>p, <1>w, <2>1, <2>3, <3>1, <3>2, <4>1 DEF Registers, Process, Side
  <2>4. CASE proc' = NextStep /\ ~(proc.i < Len(Steps))
    BY <1>p, <2>1, <2>4 DEF NextStep, Registers, Process, Side, Steps
  <2> QED
    BY <2>1, <2>2, <2>3, <2>4
<1>j. CASE PinMaps \/ Rollback
  <2>1. proc'.at \in {"done", "attempt"} /\ conf' = conf
    BY <1>j, EndsAttempt DEF PinMaps, Rollback
  <2>2. proc.ifname \in Ifs /\ conf.want # {}
    BY <1>j DEF PinMaps, Rollback, Registers
  <2> QED
    BY <1>j, <2>1, <2>2, EndsAttempt DEF Registers
<1>l. CASE Remove
  <2>1. PICK todo \in SUBSET proc.todo : proc' = [proc EXCEPT !.todo = todo]
    BY <1>l, <1>p DEF Remove, AfterRefusal, Process
  <2> QED
    BY <1>l, <1>p, <2>1 DEF Remove, Registers, Process
<1>m. CASE Exit \/ Kill
  <2>1. proc' = NoProcess
    BY <1>m DEF Exit, Kill, Gone
  <2>2. <<>> \in Seq(Attempts)
    OBVIOUS
  <2> QED
    BY <2>1, <2>2 DEF NoProcess, Registers, Process, Ends
<1>v. CASE UNCHANGED vars
  BY <1>v DEF vars, Registers, Side, Steps
<1> QED
  BY <1>a, <1>b, <1>c, <1>e, <1>f, <1>g, <1>h, <1>i, <1>j, <1>l, <1>m, <1>v
     DEF Next, PluginStep

----------------------------------------------------------------------------
(* NextStep goes on with the same program, at the next direction or after  *)
(* the last.                                                               *)
LEMMA NextStepIs ==
  ASSUME proc \in Process, proc' = NextStep
  PROVE  /\ proc'.at \in {"configure", "maps"}
         /\ proc'.op = proc.op /\ proc'.ifname = proc.ifname /\ proc'.left = proc.left
         /\ proc'.ns = proc.ns /\ proc'.lost = proc.lost /\ proc'.on = proc.on
         /\ proc'.paced = proc.paced /\ proc'.prog = proc.prog
         /\ proc'.mine = proc.mine /\ proc'.ok = proc.ok
         /\ proc'.i = IF proc.i < Len(Steps) THEN proc.i + 1 ELSE proc.i
         /\ proc'.at = IF proc.i < Len(Steps) THEN "configure" ELSE "maps"
  BY DEF NextStep, Process

LEMMA PacerKept ==
  Store /\ Registers /\ Pacer /\ [Next]_vars => Pacer'
<1> SUFFICES ASSUME Store, Registers, Pacer, [Next]_vars
             PROVE  Pacer'
  OBVIOUS
<1> USE DEF Acting, Trying, Loaded
<1>p. proc \in Process
  BY DEF Registers
<1>a. ASSUME NEW f \in Ifs, CmdAdd(f) PROVE Pacer'
  <2>1. PICK at \in {"done", "attempt"} :
          /\ proc' = [NoProcess EXCEPT !.op = "add", !.at = at, !.ifname = f,
                                       !.left = Strategy]
          /\ at = "attempt" => ~Refused
    BY <1>a DEF CmdAdd
  <2>2. proc'.at = at /\ proc'.left = Strategy /\ conf' = conf
    BY <1>a, <2>1 DEF CmdAdd, NoProcess
  <2>3. Strategy \in Seq(Attempts)
    BY StrategyType DEF Store
  <2>4. ASSUME at = "attempt", conf.edt = "on", NEW k \in 1..Len(Strategy)
        PROVE  Strategy[k].side = "pod"
    <3>1. Strategy[k].side # "host"
      BY <2>1, <2>4 DEF Refused
    <3>2. Strategy[k] \in Attempts
      BY <2>3
    <3> QED
      BY <3>1, <3>2 DEF Attempts, Ends
  <2> QED
    BY <2>2, <2>4 DEF Pacer
<1>b. ASSUME NEW f \in Ifs, CmdDel(f) PROVE Pacer'
  <2>1. proc'.at = "remove"
    BY <1>b DEF CmdDel, NoProcess
  <2> QED
    BY <2>1 DEF Pacer
<1>c. CASE ResolveIfIndex
  <2>1. conf' = conf /\ proc.at = "attempt"
    BY <1>c DEF ResolveIfIndex
  <2>2. CASE proc'.at = "attempt"
    <3>1. /\ proc'.left = Tail(proc.left) /\ proc.left \in Seq(Attempts) /\ proc.left # <<>>
      BY <1>c, <2>2, ResolvesTo
    <3>2. \A k \in 1..Len(Tail(proc.left)) :
            k + 1 \in 1..Len(proc.left) /\ Tail(proc.left)[k] = proc.left[k + 1]
      BY <3>1
    <3> QED
      BY <2>1, <2>2, <3>1, <3>2 DEF Pacer
  <2>3. CASE proc'.at = "fq"
    <3>1. proc'.left = proc.left /\ ~proc'.paced
      BY <1>c, <2>3, ResolvesTo
    <3> QED
      BY <2>1, <2>3, <3>1 DEF Pacer
  <2> QED
    BY <1>c, <2>2, <2>3, ResolvesTo
<1>e. CASE PassThrough \/ Removed
  <2>1. proc'.at = "done"
    BY <1>e, <1>p DEF PassThrough, Removed, Process
  <2> QED
    BY <2>1 DEF Pacer
<1>f. CASE InstallFq
  <2>1. proc.at = "fq" /\ conf' = conf /\ proc'.left = proc.left /\ proc'.ifname = proc.ifname
    BY <1>f, <1>p DEF InstallFq, Process
  <2>2. CASE proc' = [proc EXCEPT !.at = "load", !.paced = TRUE] /\ Side = "pod"
             /\ qdisc' = [qdisc EXCEPT ![proc.ifname] = "fq"]
    <3>1. qdisc'[proc'.ifname] = "fq" /\ Side' = "pod"
      BY <2>1, <2>2 DEF Store, Registers, Side
    <3> QED
      BY <1>p, <2>1, <2>2, <3>1 DEF Pacer, Process
  <2>3. CASE proc' = [proc EXCEPT !.at = "fail"]
    BY <1>p, <2>1, <2>3 DEF Pacer, Process
  <2>4. CASE proc' = [proc EXCEPT !.at = "load"] /\ conf.edt # "on"
    BY <2>4, <2>1, <1>p DEF Pacer, Process
  <2>5. Side = "pod" \/ conf.edt # "on"
    <3>1. proc.left # <<>> /\ proc.left \in Seq(Attempts)
      BY <1>p, <2>1 DEF Registers, Process
    <3>2. Side = proc.left[1].side /\ 1 \in 1..Len(proc.left)
      BY <3>1 DEF Side
    <3> QED
      BY <2>1, <3>2 DEF Pacer
  <2> QED
    BY <1>f, <2>2, <2>3, <2>4, <2>5 DEF InstallFq
<1>g. CASE Load
  <2>1. PICK to \in {"configure", "fail"} :
          /\ proc'.at = to /\ conf' = conf /\ qdisc' = qdisc
          /\ proc'.left = proc.left /\ proc'.paced = proc.paced /\ proc'.ifname = proc.ifname
    BY <1>g, <1>p DEF Load, Process
  <2>2. Side' = Side /\ proc.at = "load"
    BY <1>g, <2>1 DEF Load, Side
  <2> QED
    BY <2>1, <2>2 DEF Pacer
<1>h. CASE Configure
  <2>1. /\ proc.at = "configure" /\ conf' = conf /\ qdisc' = qdisc
        /\ proc'.left = proc.left /\ proc'.paced = proc.paced /\ proc'.ifname = proc.ifname
        /\ proc'.prog = proc.prog /\ Dir' = Dir /\ Side' = Side /\ Pacing(Dir)' = Pacing(Dir)
    BY <1>h, <1>p DEF Configure, Process, Dir, Steps, Side, Pacing
  <2>2. proc'.at = "fail" \/ (proc'.at = "attach" /\ slot'[proc.prog][Dir] = Pacing(Dir))
    <3>1. CASE slot' = [slot EXCEPT ![proc.prog][Dir] = Pacing(Dir)]
               /\ \E at \in {"attach", "fail"} : proc' = [proc EXCEPT !.at = at]
      <4>1. proc.prog \in Programs /\ Dir \in Dirs
        <5>1. Steps \in Seq(Dirs) /\ proc.i \in 1..Len(Steps)
          BY <2>1, StepsAre, <1>p DEF Store, Registers, Process
        <5> QED
          BY <2>1, <5>1, <1>p DEF Registers, Process, Dir
      <4>2. slot'[proc.prog][Dir] = Pacing(Dir)
        BY <3>1, <4>1 DEF Store
      <4> QED
        BY <1>p, <3>1, <4>2 DEF Process
    <3>2. CASE proc' = [proc EXCEPT !.at = "fail"]
      BY <1>p, <3>2 DEF Process
    <3> QED
      BY <1>h, <3>1, <3>2 DEF Configure
  <2> QED
    BY <2>1, <2>2 DEF Pacer
<1>i. CASE AttachTcx \/ AttachClsact \/ PinLink
  <2>1. /\ proc.at \in {"attach", "pin"} /\ conf' = conf /\ qdisc' = qdisc /\ slot' = slot
        /\ \/ \E to \in {"pin", "fail"} : proc' = [proc EXCEPT !.at = to]
           \/ proc' = NextStep
    BY <1>i DEF AttachTcx, AttachClsact, PinLink
  <2>2. CASE \E to \in {"pin", "fail"} : proc' = [proc EXCEPT !.at = to]
    <3>1. PICK to \in {"pin", "fail"} : proc' = [proc EXCEPT !.at = to]
      BY <2>2
    <3>2. /\ proc'.at = to
          /\ proc'.left = proc.left /\ proc'.paced = proc.paced /\ proc'.ifname = proc.ifname
          /\ proc'.prog = proc.prog /\ proc'.i = proc.i
      BY <1>p, <3>1 DEF Process
    <3>3. Side' = Side /\ Dir' = Dir /\ Pacing(Dir)' = Pacing(Dir)
      BY <2>1, <3>2 DEF Side, Dir, Steps, Pacing
    <3> QED
      BY <2>1, <3>2, <3>3 DEF Pacer
  <2>3. CASE proc' = NextStep
    BY <1>p, <2>1, <2>3, NextStepIs DEF Pacer, Side
  <2> QED
    BY <2>1, <2>2, <2>3
<1>j. CASE PinMaps
  <2>1. proc'.at = "done"
    BY <1>j, EndsAttempt
  <2> QED
    BY <2>1 DEF Pacer
<1>k. CASE Rollback
  <2>1. /\ proc.at = "fail" /\ conf' = conf
        /\ proc'.left = Tail(proc.left) /\ proc'.at = "attempt"
    BY <1>k, EndsAttempt DEF Rollback
  <2>2. proc.left \in Seq(Attempts) /\ proc.left # <<>>
    BY <1>k, EndsAttempt
  <2>3. \A k \in 1..Len(Tail(proc.left)) :
          k + 1 \in 1..Len(proc.left) /\ Tail(proc.left)[k] = proc.left[k + 1]
    BY <2>2
  <2> QED
    BY <2>1, <2>3 DEF Pacer
<1>l. CASE Remove
  <2>1. proc'.at = "remove"
    BY <1>l, <1>p DEF Remove, Process
  <2> QED
    BY <2>1 DEF Pacer
<1>m. CASE Exit \/ Kill
  <2>1. proc'.at = "none"
    BY <1>m DEF Exit, Kill, Gone, NoProcess
  <2> QED
    BY <2>1 DEF Pacer
<1>v. CASE UNCHANGED vars
  BY <1>v DEF vars, Pacer, Side, Dir, Steps, Pacing
<1> QED
  BY <1>a, <1>b, <1>c, <1>e, <1>f, <1>g, <1>h, <1>i, <1>j, <1>k, <1>l, <1>m, <1>v
     DEF Next, PluginStep

----------------------------------------------------------------------------
(* A link whose slot and qdisc stay, or whose qdisc becomes fq. *)
LEMMA SoundStays ==
  ASSUME NEW l, Sound(l), conf' = conf, slot'[l.prog] = slot[l.prog],
         qdisc'[l.ifname] \in {qdisc[l.ifname], "fq"}
  PROVE  Sound(l)'
  BY DEF Sound

(* In an attempt: the direction at hand and the end the attempt is about. *)
LEMMA InAttempt ==
  ASSUME Store, Registers, proc.at \in {"configure", "attach", "pin"}
  PROVE  /\ proc.prog \in Programs /\ proc.ifname \in Ifs
         /\ (proc.ns = Side \/ proc.lost) /\ (proc.lost => proc.ns = "pod")
         /\ Side = "pod" \/ ~proc.lost => proc.on = proc.ifname
         /\ Side \in Ends /\ Dir \in Dirs
         /\ Side = "pod" => HookDir(Dir) = Dir
         /\ Side = "host" => HookDir(Dir) \in Dirs /\ HookDir(Dir) # Dir
<1> USE DEF Acting, Trying, Loaded
<1>1. Steps \in Seq(Dirs) /\ proc.i \in 1..Len(Steps)
  BY StepsAre DEF Store, Registers, Process
<1>2. Dir \in Dirs
  BY <1>1 DEF Dir
<1>3. proc.left \in Seq(Attempts) /\ proc.left # <<>>
  BY DEF Registers, Process
<1>4. Head(proc.left) \in Attempts
  BY <1>3
<1>5. Side \in Ends
  BY <1>4 DEF Side, Attempts
<1>6. /\ proc.prog \in Programs /\ proc.ifname \in Ifs
      /\ (proc.ns = Side \/ proc.lost) /\ (proc.lost => proc.ns = "pod")
      /\ Side = "pod" \/ ~proc.lost => proc.on = proc.ifname
  BY DEF Registers, Process
<1> QED
  BY <1>2, <1>5, <1>6, OppositeIs DEF HookDir, Dirs, Ends

LEMMA NewLinkSound ==
  ASSUME Store, Registers, Pacer, proc.at \in {"attach", "pin"}
  PROVE  Sound(NewLink)
<1>1. /\ NewLink.prog = proc.prog /\ NewLink.dir = Dir /\ NewLink.end = proc.ns
      /\ NewLink.hookDir = HookDir(Dir) /\ NewLink.ifname = proc.on
      /\ NewLink.astray = proc.lost
  BY DEF NewLink
<1>2. slot[proc.prog][Dir] = Pacing(Dir)
  BY DEF Pacer
<1>3. /\ proc.paced => Side = "pod" /\ qdisc[proc.ifname] = "fq"
      /\ conf.edt = "on" => proc.paced
  BY DEF Pacer, Loaded
<1>4. ~proc.lost => ((Dir = HookDir(Dir)) <=> (proc.ns = "pod"))
  BY InAttempt DEF Ends
<1>5. Dir = "egress" /\ Side = "pod" => HookDir(Dir) = "egress"
  BY InAttempt
<1>6. Side = "pod" => proc.ns = "pod" /\ proc.on = proc.ifname
  BY InAttempt
<1>7. Pacing(Dir) = "pace" <=> proc.paced /\ Dir = "egress"
  BY DEF Pacing
<1>8. Pacing(Dir) # "unset"
  BY DEF Pacing
<1> QED
  BY <1>1, <1>2, <1>3, <1>4, <1>5, <1>6, <1>7, <1>8 DEF Sound

LEMMA LinksSoundKept ==
  IInv /\ [Next]_vars => LinksSound'
<1> SUFFICES ASSUME IInv, [Next]_vars, NEW l \in links'
             PROVE  Sound(l)'
  BY DEF LinksSound
<1> USE DEF IInv
<1>s. /\ slot \in [Programs -> [Dirs -> {"unset", "drop", "pace"}]]
      /\ qdisc \in [Ifs -> {"noqueue", "fq"}]
      /\ \A k \in links : k.prog \in Programs /\ k.dir \in Dirs /\ k.ifname \in Ifs
  BY DEF Store, Link
<1>k. ASSUME NEW files PROVE Kept(files) \subseteq links
  BY DEF Kept
<1>l. ASSUME l \in links, conf' = conf, slot' = slot, qdisc' = qdisc PROVE Sound(l)'
  BY <1>l, SoundStays DEF LinksSound
<1>a. ASSUME NEW f \in Ifs, CmdAdd(f) PROVE Sound(l)'
  <2>1. l \in links /\ l.ifname # f /\ conf' = conf /\ slot' = slot
        /\ qdisc' = [qdisc EXCEPT ![f] = "noqueue"]
    BY <1>a DEF CmdAdd
  <2>2. qdisc'[l.ifname] = qdisc[l.ifname]
    BY <2>1, <1>s
  <2> QED
    BY <2>1, <2>2, SoundStays DEF LinksSound
<1>b. ASSUME NEW f \in Ifs, CmdDel(f) PROVE Sound(l)'
  BY <1>b, <1>l DEF CmdDel
<1>c. CASE ResolveIfIndex \/ PassThrough \/ Load \/ PinMaps \/ Removed
  BY <1>c, <1>l DEF ResolveIfIndex, PassThrough, Load, PinMaps, Removed
<1>e. CASE InstallFq
  <2>1. /\ l \in links /\ conf' = conf /\ slot' = slot
        /\ qdisc' = qdisc \/ qdisc' = [qdisc EXCEPT ![proc.ifname] = "fq"]
    BY <1>e DEF InstallFq
  <2>2. qdisc'[l.ifname] \in {qdisc[l.ifname], "fq"}
    BY <2>1, <1>s
  <2> QED
    BY <2>1, <2>2, SoundStays DEF LinksSound
<1>f. CASE Configure
  <2>1. /\ l \in links /\ conf' = conf /\ qdisc' = qdisc /\ proc.at = "configure"
        /\ slot' = slot \/ slot' = [slot EXCEPT ![proc.prog][Dir] = Pacing(Dir)]
    BY <1>f DEF Configure
  <2>2. CASE slot' = slot \/ l.prog # proc.prog
    <3>1. slot'[l.prog] = slot[l.prog]
      BY <2>1, <2>2, <1>s
    <3> QED
      BY <2>1, <3>1, SoundStays DEF LinksSound
  <2>3. CASE slot' = [slot EXCEPT ![proc.prog][Dir] = Pacing(Dir)] /\ l.prog = proc.prog
    <3>1. /\ proc.prog \in Programs /\ Dir \in Dirs
          /\ Side = "pod" => proc.ns = "pod" /\ proc.on = proc.ifname
          /\ Dir = "egress" /\ Side = "pod" => HookDir(Dir) = "egress"
      BY <2>1, InAttempt
    <3>2. slot'[proc.prog] = [slot[proc.prog] EXCEPT ![Dir] = Pacing(Dir)]
      BY <2>3, <3>1, <1>s
    <3>3. /\ slot'[proc.prog][Dir] = Pacing(Dir)
          /\ \A d \in Dirs : d # Dir => slot'[proc.prog][d] = slot[proc.prog][d]
      BY <3>1, <3>2, <1>s
    <3>4. Sound(l) /\ l.dir \in Dirs
      BY <2>1, <1>s DEF LinksSound
    <3>5. <<l.ifname, l.end, l.hookDir>> = <<proc.on, proc.ns, HookDir(l.dir)>>
      BY <2>1, <2>3 DEF Placed, Loaded
    <3>6. /\ proc.paced => Side = "pod" /\ qdisc[proc.ifname] = "fq"
          /\ conf.edt = "on" => proc.paced
      BY <2>1 DEF Pacer, Loaded
    <3>7. CASE l.dir = Dir
      <4>1. Pacing(Dir) # "unset" /\ (Pacing(Dir) = "pace" <=> proc.paced /\ Dir = "egress")
        BY DEF Pacing
      <4> QED
        BY <2>1, <2>3, <3>1, <3>3, <3>4, <3>5, <3>6, <3>7, <4>1 DEF Sound
    <3>8. CASE l.dir # Dir
      <4>1. slot'[l.prog][l.dir] = slot[l.prog][l.dir]
        BY <2>3, <3>3, <3>4, <3>8
      <4> QED
        BY <2>1, <3>4, <4>1 DEF Sound
    <3> QED
      BY <3>7, <3>8
  <2> QED
    BY <2>1, <2>2, <2>3
<1>g. CASE AttachTcx \/ AttachClsact
  <2>1. /\ proc.at = "attach" /\ conf' = conf /\ slot' = slot /\ qdisc' = qdisc
        /\ l \in links \/ l = NewLink
    BY <1>g DEF AttachTcx, AttachClsact
  <2>2. Sound(NewLink)
    BY <2>1, NewLinkSound
  <2>3. Sound(l)
    BY <2>1, <2>2 DEF LinksSound
  <2> QED
    BY <2>1, <2>3 DEF Sound
<1>h. CASE PinLink
  BY <1>h, <1>l DEF PinLink
<1>i. CASE Rollback
  BY <1>i, <1>k, <1>l DEF Rollback
<1>j. CASE Remove
  BY <1>j, <1>k, <1>l DEF Remove
<1>m. CASE Exit \/ Kill
  <2>1. /\ l \in links /\ conf' = conf /\ qdisc' = qdisc
        /\ slot' = [p \in Programs |-> IF \E k \in links' : k.prog = p THEN slot[p] ELSE NoConfig]
    BY <1>m, <1>k DEF Exit, Kill, Gone
  <2>2. slot'[l.prog] = slot[l.prog]
    BY <2>1, <1>s
  <2> QED
    BY <2>1, <2>2, SoundStays DEF LinksSound
<1>v. CASE UNCHANGED vars
  BY <1>v, <1>l DEF vars
<1> QED
  BY <1>a, <1>b, <1>c, <1>e, <1>f, <1>g, <1>h, <1>i, <1>j, <1>m, <1>v
     DEF Next, PluginStep

LEMMA PlacedKept ==
  IInv /\ [Next]_vars => Placed'
<1> SUFFICES ASSUME IInv, [Next]_vars, proc'.at \in Loaded,
                    NEW l \in links', l.prog = proc'.prog
             PROVE  /\ <<l.ifname, l.end, l.hookDir>> = <<proc'.on, proc'.ns, HookDir(l.dir)'>>
                    /\ l.astray = proc'.lost
  BY DEF Placed
<1> USE DEF IInv, Acting, Trying, Loaded
<1>p. proc \in Process
  BY DEF Registers
<1>s. ASSUME proc.at \in Loaded, l \in links, proc'.prog = proc.prog,
             proc'.on = proc.on, proc'.ns = proc.ns, proc'.left = proc.left,
             proc'.lost = proc.lost
      PROVE  /\ <<l.ifname, l.end, l.hookDir>> = <<proc'.on, proc'.ns, HookDir(l.dir)'>>
             /\ l.astray = proc'.lost
  <2>1. HookDir(l.dir)' = HookDir(l.dir)
    BY <1>s DEF HookDir, Side
  <2> QED
    BY <1>s, <2>1 DEF Placed
<1>a. ASSUME NEW f \in Ifs, CmdAdd(f) \/ CmdDel(f) PROVE FALSE
  BY <1>a DEF CmdAdd, CmdDel, NoProcess
<1>b. CASE ResolveIfIndex \/ PassThrough \/ InstallFq \/ PinMaps \/ Rollback \/ Remove \/ Removed
  <2>1. proc'.at \notin Loaded
    BY <1>b, <1>p, ResolvesTo, EndsAttempt
       DEF PassThrough, InstallFq, Remove, Removed, Process, Registers
  <2> QED
    BY <2>1
<1>c. CASE Load
  <2>1. proc'.prog \in Unused /\ links' = links
    BY <1>c, <1>p DEF Load, Process
  <2> QED
    BY <2>1 DEF Unused
<1>e. CASE Configure
  BY <1>e, <1>p, <1>s DEF Configure, Process
<1>f. CASE AttachTcx \/ AttachClsact
  <2>1. /\ proc.at = "attach" /\ (l \in links \/ l = NewLink)
        /\ proc'.prog = proc.prog /\ proc'.on = proc.on /\ proc'.ns = proc.ns
        /\ proc'.left = proc.left /\ proc'.lost = proc.lost
    BY <1>f, <1>p, NextStepIs DEF AttachTcx, AttachClsact, Process
  <2>2. CASE l = NewLink
    <3>1. /\ l.ifname = proc.on /\ l.end = proc.ns /\ l.hookDir = HookDir(Dir)
          /\ l.dir = Dir /\ l.astray = proc.lost
      BY <2>2 DEF NewLink
    <3>2. HookDir(l.dir)' = HookDir(l.dir)
      BY <2>1 DEF HookDir, Side
    <3> QED
      BY <2>1, <3>1, <3>2
  <2> QED
    BY <2>1, <2>2, <1>s
<1>g. CASE PinLink
  <2>1. /\ proc.at = "pin" /\ l \in links
        /\ proc'.prog = proc.prog /\ proc'.on = proc.on /\ proc'.ns = proc.ns
        /\ proc'.left = proc.left /\ proc'.lost = proc.lost
    BY <1>g, <1>p, NextStepIs DEF PinLink, Process
  <2> QED
    BY <2>1, <1>s
<1>h. CASE Exit \/ Kill
  BY <1>h DEF Exit, Kill, Gone, NoProcess
<1>v. CASE UNCHANGED vars
  BY <1>v, <1>s DEF vars
<1> QED
  BY <1>a, <1>b, <1>c, <1>e, <1>f, <1>g, <1>h, <1>v DEF Next, PluginStep

----------------------------------------------------------------------------
(* A tcx link has a file, but for the one that is about to get it. *)
TcxPinned ==
  \A l \in links : l.hook = "tcx" =>
    Pinned(l, pins) \/ (proc.at = "pin" /\ l = NewLink)

(* A DEL has every file before it or behind it. *)
DelSees ==
  proc.op = "del" =>
    /\ \A n \in Names : pins[n] # 0 => n \in proc.todo \cup stuck
    /\ proc.at = "done" => proc.todo = {}

(* What this ADD wrote is what a rollback of the attempt removes, or was   *)
(* left because its removal was refused.                                   *)
WrittenFiles == {<<Side, Steps[j]>> : j \in 1..(proc.i - 1)}

WritesKnown ==
  proc.op = "add" =>
    /\ proc.at # "done" => ~proc.ok
    /\ \A n \in Names : pins[n] \in proc.mine =>
         \/ n \in stuck
         \/ pins[n] = proc.prog /\ proc.at \in Trying \ {"maps"} /\ n \in WrittenFiles
         \/ pins[n] = proc.prog /\ proc.at = "maps"
         \/ pins[n] = proc.prog /\ proc.at = "done" /\ proc.ok

(* The directions attached so far. *)
Covers(d) ==
  \E l \in links :
    /\ <<l.prog, l.dir>> = <<proc.prog, d>>
    /\ l.ifname = proc.ifname \/ l.astray
    /\ l.hook = "tcx" => Pinned(l, pins)

Attached ==
  /\ proc.at \in Loaded => \A j \in 1..(proc.i - 1) : Covers(Steps[j])
  /\ proc.at = "pin" => NewLink \in links /\ Hook = "tcx"
  /\ proc.at = "maps" => proc.i = Len(Steps) /\ Covers(Steps[proc.i])
  /\ proc.op = "add" /\ proc.at = "done" /\ proc.ok => \A d \in conf.want : Covers(d)

JInv == IInv /\ TcxPinned /\ DelSees /\ WritesKnown /\ Attached

LEMMA TcxPinnedKept ==
  IInv /\ TcxPinned /\ [Next]_vars => TcxPinned'
<1> SUFFICES ASSUME IInv, TcxPinned, [Next]_vars, NEW l \in links', l.hook = "tcx"
             PROVE  Pinned(l, pins)' \/ (proc'.at = "pin" /\ l = NewLink')
  BY DEF TcxPinned
<1> USE DEF IInv
<1>p. proc \in Process
  BY DEF Registers
<1>k. ASSUME links' = Kept(pins') PROVE Pinned(l, pins)'
  BY <1>k DEF Kept, Pinned
<1>l. ASSUME l \in links, pins' = pins, proc.at # "pin" PROVE Pinned(l, pins)'
  BY <1>l DEF TcxPinned, Pinned
<1>m. \A k \in links : k.prog \in Programs /\ k.prog # 0
  BY AttachAssumption DEF Store, Link, Programs
<1>a. ASSUME NEW f \in Ifs, CmdAdd(f) \/ CmdDel(f) PROVE Pinned(l, pins)'
  <2>1. proc.at # "pin"
    BY <1>a DEF CmdAdd, CmdDel, Registers
  <2> QED
    BY <1>a, <2>1, <1>l DEF CmdAdd, CmdDel
<1>b. CASE ResolveIfIndex \/ PassThrough \/ InstallFq \/ Load \/ Configure \/ Removed
  BY <1>b, <1>l DEF ResolveIfIndex, PassThrough, InstallFq, Load, Configure, Removed
<1>c. CASE AttachTcx
  <2>1. CASE l \in links
    BY <1>c, <2>1, <1>l DEF AttachTcx
  <2>2. CASE l \notin links
    <3>1. l = NewLink /\ proc' = [proc EXCEPT !.at = "pin"] /\ conf' = conf
      BY <1>c, <2>2 DEF AttachTcx
    <3>2. /\ proc'.at = "pin" /\ proc'.prog = proc.prog /\ proc'.ifname = proc.ifname
          /\ proc'.ns = proc.ns /\ proc'.left = proc.left /\ proc'.i = proc.i
          /\ proc'.on = proc.on /\ proc'.lost = proc.lost
      BY <3>1, <1>p DEF Process
    <3>3. NewLink' = NewLink
      <4>1. Side' = Side /\ Hook' = Hook /\ Dir' = Dir
        BY <3>1, <3>2 DEF Side, Hook, Dir, Steps
      <4>2. HookDir(Dir)' = HookDir(Dir)
        BY <4>1 DEF HookDir
      <4> QED
        BY <3>2, <4>1, <4>2 DEF NewLink
    <3> QED
      BY <3>1, <3>2, <3>3
  <2> QED
    BY <2>1, <2>2
<1>e. CASE AttachClsact
  <2>1. proc.at = "attach" /\ pins' = pins /\ (l \in links \/ (l = NewLink /\ Hook = "clsact"))
    BY <1>e DEF AttachClsact
  <2>2. l \in links
    BY <2>1 DEF NewLink
  <2> QED
    BY <2>1, <2>2, <1>l
<1>f. CASE PinLink
  <2>1. CASE /\ pins[<<Side, Dir>>] = 0 /\ links' = links
             /\ pins' = [pins EXCEPT ![<<Side, Dir>>] = proc.prog]
    <3>1. /\ <<Side, Dir>> \in LinkNames
      BY <1>f, InAttempt DEF PinLink, LinkNames
    <3>2. LinkNames \subseteq Names
      BY DEF Names
    <3>3. /\ pins'[<<Side, Dir>>] = proc.prog
          /\ \A n \in LinkNames : pins[n] # 0 => pins'[n] = pins[n]
      BY <2>1, <3>1, <3>2 DEF Store
    <3>4. CASE l = NewLink
      <4>1. l.dir = Dir /\ l.prog = proc.prog
        BY <3>4 DEF NewLink
      <4> QED
        BY <3>1, <3>3, <4>1 DEF Pinned
    <3>5. CASE l # NewLink
      <4>1. PICK n \in LinkNames : n[2] = l.dir /\ pins[n] = l.prog
        BY <2>1, <3>5 DEF TcxPinned, Pinned
      <4>2. pins'[n] = l.prog
        BY <2>1, <3>3, <4>1, <1>m
      <4> QED
        BY <4>1, <4>2 DEF Pinned
    <3> QED
      BY <3>4, <3>5
  <2>2. CASE links' = links \ {NewLink} /\ pins' = pins
    BY <2>2 DEF TcxPinned, Pinned
  <2> QED
    BY <1>f, <2>1, <2>2 DEF PinLink
<1>g. CASE PinMaps
  <2>1. /\ l \in links /\ proc.at = "maps"
        /\ \A n \in LinkNames : pins'[n] = pins[n]
    BY <1>g DEF PinMaps, Names
  <2> QED
    BY <2>1 DEF TcxPinned, Pinned
<1>h. CASE Rollback \/ Remove
  BY <1>h, <1>k DEF Rollback, Remove
<1>i. CASE Exit \/ Kill
  BY <1>i, <1>k DEF Exit, Kill, Gone
<1>v. CASE UNCHANGED vars
  <2>1. NewLink' = NewLink
    BY <1>v DEF vars, NewLink, HookDir, Dir, Steps, Side, Hook
  <2> QED
    BY <1>v, <2>1 DEF vars, TcxPinned, Pinned
<1> QED
  BY <1>a, <1>b, <1>c, <1>e, <1>f, <1>g, <1>h, <1>i, <1>v DEF Next, PluginStep

LEMMA DelSeesKept ==
  IInv /\ DelSees /\ [Next]_vars => DelSees'
<1> SUFFICES ASSUME IInv, DelSees, [Next]_vars, proc'.op = "del"
             PROVE  /\ \A n \in Names : pins'[n] # 0 => n \in proc'.todo \cup stuck'
                    /\ proc'.at = "done" => proc'.todo = {}
  BY DEF DelSees
<1> USE DEF IInv
<1>p. proc \in Process
  BY DEF Registers
<1>a. ASSUME NEW f \in Ifs, CmdAdd(f) PROVE FALSE
  BY <1>a DEF CmdAdd, NoProcess
<1>b. ASSUME NEW f \in Ifs, CmdDel(f)
      PROVE  /\ \A n \in Names : pins'[n] # 0 => n \in proc'.todo \cup stuck'
             /\ proc'.at = "done" => proc'.todo = {}
  <2>1. /\ proc'.at = "remove" /\ pins' = pins
        /\ stuck' = stuck \cup ({n \in Names : pins[n] # 0} \ proc'.todo)
    BY <1>b DEF CmdDel, NoProcess
  <2> QED
    BY <2>1
<1>c. ASSUME proc.at \in Acting, proc'.op = proc.op PROVE FALSE
  BY <1>c DEF Registers
<1>e. CASE \/ ResolveIfIndex \/ PassThrough \/ InstallFq \/ Load \/ Configure
           \/ PinMaps \/ Rollback
  <2>1. proc.at \in Acting /\ proc'.op = proc.op
    BY <1>e, <1>p, ResolvesTo, EndsAttempt
       DEF PassThrough, InstallFq, Load, Configure, PinMaps, Rollback,
           Process, Acting, Trying, Loaded
  <2> QED
    BY <2>1, <1>c
<1>f. CASE AttachTcx \/ PinLink \/ AttachClsact
  <2>1. proc.at \in Acting /\ proc'.op = proc.op
    BY <1>f, <1>p, NextStepIs DEF AttachTcx, PinLink, AttachClsact, Process, Acting, Trying, Loaded
  <2> QED
    BY <2>1, <1>c
<1>g. CASE Remove
  <2>1. /\ proc.op = "del"
        /\ proc'.at = "remove"
    BY <1>g, <1>p DEF Remove, Registers, Process
  <2>2. PICK n \in proc.todo :
          /\ \/ Unlink({n}, {}) \/ Unlink({}, {n})
          /\ proc'.todo = proc.todo \ {n}
    BY <1>g, <1>p DEF Remove, AfterRefusal, Process
  <2>3. CASE Unlink({n}, {})
    BY <2>1, <2>2, <2>3 DEF DelSees, Unlink
  <2>4. CASE Unlink({}, {n})
    BY <2>1, <2>2, <2>4 DEF DelSees, Unlink
  <2> QED
    BY <2>2, <2>3, <2>4
<1>h. CASE Removed
  <2>1. /\ proc.op = "del" /\ proc.todo = {} /\ proc'.todo = {}
        /\ pins' = pins /\ stuck' = stuck
    BY <1>h, <1>p DEF Removed, Registers, Process
  <2> QED
    BY <2>1 DEF DelSees
<1>i. CASE Exit \/ Kill
  BY <1>i DEF Exit, Kill, Gone, NoProcess
<1>v. CASE UNCHANGED vars
  BY <1>v DEF vars, DelSees
<1> QED
  BY <1>a, <1>b, <1>e, <1>f, <1>g, <1>h, <1>i, <1>v DEF Next, PluginStep

LEMMA WritesKnownKept ==
  IInv /\ WritesKnown /\ [Next]_vars => WritesKnown'
<1> SUFFICES ASSUME IInv, WritesKnown, [Next]_vars
             PROVE  WritesKnown'
  OBVIOUS
<1> USE DEF IInv, Acting, Trying, Loaded
<1>p. proc \in Process
  BY DEF Registers
<1>z. \A n \in Names : pins[n] \in proc.mine => pins[n] \in Programs /\ pins[n] # 0
  BY <1>p, AttachAssumption DEF Process, Programs
<1>a. ASSUME NEW f \in Ifs, CmdAdd(f) PROVE WritesKnown'
  <2>1. proc'.mine = {} /\ proc'.ok = FALSE
    BY <1>a DEF CmdAdd, NoProcess
  <2> QED
    BY <2>1 DEF WritesKnown
<1>b. ASSUME NEW f \in Ifs, CmdDel(f) PROVE WritesKnown'
  <2>1. proc'.op = "del"
    BY <1>b DEF CmdDel, NoProcess
  <2> QED
    BY <2>1 DEF WritesKnown
<1>c. CASE ResolveIfIndex \/ PassThrough
  <2>1. /\ proc.at = "attempt" /\ pins' = pins /\ stuck' = stuck
        /\ proc'.mine = proc.mine /\ proc'.ok = proc.ok /\ proc.op = "add"
    BY <1>c, <1>p, ResolvesTo DEF ResolveIfIndex, PassThrough, Process, Registers
  <2>2. \A n \in Names : pins'[n] \in proc'.mine => n \in stuck'
    BY <2>1 DEF WritesKnown
  <2> QED
    BY <2>1, <2>2 DEF WritesKnown
<1>e. CASE InstallFq \/ Configure
  <2>1. /\ proc.at \in {"fq", "configure"} /\ pins' = pins /\ stuck' = stuck
        /\ proc'.at \in {"load", "attach", "fail"} /\ proc.op = "add"
        /\ proc'.mine = proc.mine /\ proc'.ok = proc.ok /\ proc'.prog = proc.prog
    BY <1>e, <1>p DEF InstallFq, Configure, Process, Registers
  <2>2. WrittenFiles' = WrittenFiles
    <3>1. conf' = conf /\ proc'.left = proc.left /\ proc'.i = proc.i
      BY <1>e, <1>p DEF InstallFq, Configure, Process
    <3> QED
      BY <3>1 DEF WrittenFiles, Side, Steps
  <2> QED
    BY <2>1, <2>2 DEF WritesKnown
<1>f. CASE Load
  <2>1. /\ proc.at = "load" /\ pins' = pins /\ stuck' = stuck /\ proc.i = 1
        /\ proc'.at \in {"configure", "fail"} /\ proc.op = "add" /\ proc'.ok = proc.ok
        /\ proc'.mine = proc.mine \/ \E p \in Unused : proc'.mine = proc.mine \cup {p}
    BY <1>f, <1>p DEF Load, Process, Registers
  <2>2. WrittenFiles = {}
    BY <2>1 DEF WrittenFiles
  <2>3. \A n \in Names : pins[n] \notin Unused
    BY DEF Unused
  <2>4. \A n \in Names : pins'[n] \in proc'.mine => n \in stuck'
    BY <2>1, <2>2, <2>3 DEF WritesKnown
  <2> QED
    BY <2>1, <2>4 DEF WritesKnown
<1>g. CASE AttachTcx \/ AttachClsact \/ PinLink
  <2>0. /\ proc.at \in {"attach", "pin"} /\ conf' = conf /\ stuck' = stuck
        /\ (\E to \in {"pin", "fail"} : proc' = [proc EXCEPT !.at = to]) \/ proc' = NextStep
    BY <1>g DEF AttachTcx, AttachClsact, PinLink
  <2>1. /\ proc.at \in {"attach", "pin"} /\ conf' = conf /\ stuck' = stuck /\ proc.op = "add"
        /\ proc'.left = proc.left /\ proc'.mine = proc.mine /\ proc'.prog = proc.prog
        /\ proc'.ok = proc.ok
        /\ \/ proc'.at \in {"pin", "fail"} /\ proc'.i = proc.i
           \/ /\ proc'.at = IF proc.i < Len(Steps) THEN "configure" ELSE "maps"
              /\ proc'.i = IF proc.i < Len(Steps) THEN proc.i + 1 ELSE proc.i
    <3>1. proc.op = "add"
      BY <2>0 DEF Registers
    <3>2. CASE \E to \in {"pin", "fail"} : proc' = [proc EXCEPT !.at = to]
      BY <1>p, <2>0, <3>1, <3>2 DEF Process
    <3>3. CASE proc' = NextStep
      BY <1>p, <2>0, <3>1, <3>3, NextStepIs
    <3> QED
      BY <2>0, <3>2, <3>3
  <2>2. Side' = Side /\ Steps' = Steps /\ proc.i \in 1..2
    BY <2>1, <1>p DEF Side, Steps, Process
  <2>3. proc'.i \in {proc.i, proc.i + 1}
    BY <2>1
  <2>4. WrittenFiles \subseteq WrittenFiles'
    BY <2>2, <2>3 DEF WrittenFiles
  <2>5. CASE pins' = pins
    BY <2>1, <2>4, <2>5 DEF WritesKnown
  <2>6. CASE /\ PinLink /\ pins[<<Side, Dir>>] = 0
             /\ pins' = [pins EXCEPT ![<<Side, Dir>>] = proc.prog] /\ proc' = NextStep
    <3>1. \A n \in Names : n # <<Side, Dir>> => pins'[n] = pins[n]
      BY <2>6 DEF Store
    <3>2. /\ proc'.at = IF proc.i < Len(Steps) THEN "configure" ELSE "maps"
          /\ proc'.i = IF proc.i < Len(Steps) THEN proc.i + 1 ELSE proc.i
      BY <2>6, <1>p, NextStepIs
    <3>3. proc'.at = "configure" => <<Side, Dir>> \in WrittenFiles'
      BY <2>2, <3>2 DEF WrittenFiles, Dir
    <3>4. <<Side, Dir>> \in Names
      BY <2>6, InAttempt DEF PinLink, Names, LinkNames
    <3>5. pins'[<<Side, Dir>>] = proc.prog
      BY <2>6, <3>4 DEF Store
    <3> QED
      BY <2>1, <2>4, <3>1, <3>2, <3>3, <3>5 DEF WritesKnown
  <2> QED
    BY <1>g, <2>5, <2>6 DEF AttachTcx, AttachClsact, PinLink
<1>h. CASE PinMaps
  <2>1. /\ proc.at = "maps" /\ stuck' = stuck /\ proc'.at = "done" /\ proc'.ok /\ proc.op = "add"
        /\ proc'.mine = proc.mine /\ proc'.prog = proc.prog
    BY <1>h, EndsAttempt DEF PinMaps
  <2>2. \A n \in Names : pins'[n] \in {pins[n], proc.prog}
    BY <1>h DEF PinMaps
  <2> QED
    BY <2>1, <2>2 DEF WritesKnown
<1>i. CASE Rollback
  <2>1. /\ proc.at = "fail" /\ proc'.at = "attempt" /\ proc.op = "add"
        /\ proc'.mine = proc.mine /\ proc'.ok = proc.ok
    BY <1>i, EndsAttempt DEF Rollback
  <2>2. PICK refused \in SUBSET Written : Unlink(Written \ refused, refused)
    BY <1>i DEF Rollback
  <2>3. ASSUME NEW n \in Names, pins'[n] \in proc.mine PROVE n \in stuck'
    <3>1. n \notin Written \ refused /\ pins'[n] = pins[n]
      BY <2>2, <2>3, <1>p, AttachAssumption DEF Unlink, Process, Programs
    <3>2. n \in stuck \/ n \in WrittenFiles
      BY <2>1, <2>3, <3>1 DEF WritesKnown
    <3>3. n \in WrittenFiles => n \in Written
      BY <1>z, <2>3, <3>1 DEF WrittenFiles, Written
    <3> QED
      BY <2>2, <3>1, <3>2, <3>3 DEF Unlink
  <2> QED
    BY <2>1, <2>3 DEF WritesKnown
<1>j. CASE Remove \/ Removed
  <2>1. proc'.op # "add"
    BY <1>j, <1>p DEF Remove, Removed, Registers, Process
  <2> QED
    BY <2>1 DEF WritesKnown
<1>k. CASE Exit \/ Kill
  BY <1>k DEF Exit, Kill, Gone, NoProcess, WritesKnown
<1>v. CASE UNCHANGED vars
  BY <1>v DEF vars, WritesKnown, WrittenFiles, Side, Steps
<1> QED
  BY <1>a, <1>b, <1>c, <1>e, <1>f, <1>g, <1>h, <1>i, <1>j, <1>k, <1>v DEF Next, PluginStep

(* What Covers says after a step. *)
CoversNext(d) ==
  \E l \in links' :
    /\ <<l.prog, l.dir>> = <<proc'.prog, d>>
    /\ l.ifname = proc'.ifname \/ l.astray
    /\ l.hook = "tcx" => Pinned(l, pins')

LEMMA CoversKept ==
  ASSUME Store, NEW d, Covers(d), proc.prog \in Programs,
         proc'.prog = proc.prog, proc'.ifname = proc.ifname,
         \A l \in links : l.prog = proc.prog /\ l.dir = d => l \in links',
         \A n \in LinkNames : pins[n] # 0 => pins'[n] = pins[n]
  PROVE  CoversNext(d)
<1>1. PICK l \in links :
        /\ <<l.prog, l.dir>> = <<proc.prog, d>>
        /\ l.ifname = proc.ifname \/ l.astray
        /\ l.hook = "tcx" => Pinned(l, pins)
  BY DEF Covers
<1>2. proc.prog # 0
  BY AttachAssumption DEF Programs
<1>3. l.hook = "tcx" => Pinned(l, pins')
  BY <1>1, <1>2 DEF Pinned
<1> QED
  BY <1>1, <1>3 DEF CoversNext

LEMMA AttachedKept ==
  IInv /\ WritesKnown /\ Attached /\ [Next]_vars => Attached'
<1> SUFFICES ASSUME IInv, WritesKnown, Attached, [Next]_vars
             PROVE  Attached'
  OBVIOUS
<1> USE DEF IInv, Acting, Trying, Loaded
<1>p. proc \in Process
  BY DEF Registers
<1>n. proc'.at \notin Loaded /\ ~(proc'.op = "add" /\ proc'.at = "done" /\ proc'.ok) => Attached'
  BY DEF Attached
<1>l. Steps \in Seq(Dirs) /\ Len(Steps) \in 0..2 /\ proc.i \in 1..2
  BY <1>p, StepsAre DEF Store, Process
<1>a. ASSUME NEW f \in Ifs, CmdAdd(f) \/ CmdDel(f) PROVE Attached'
  <2>1. proc'.at \notin Loaded /\ proc'.ok = FALSE
    BY <1>a DEF CmdAdd, CmdDel, NoProcess
  <2> QED
    BY <2>1, <1>n
<1>b. CASE ResolveIfIndex \/ PassThrough \/ InstallFq \/ Rollback
  <2>1. proc'.at \notin Loaded /\ proc.op = "add" /\ proc'.ok = proc.ok /\ proc.at # "done"
    BY <1>b, <1>p, ResolvesTo, EndsAttempt
       DEF PassThrough, InstallFq, Rollback, Process, Registers
  <2> QED
    BY <2>1, <1>n DEF WritesKnown
<1>c. CASE Load
  <2>1. proc'.at \in {"configure", "fail"} /\ proc'.i = 1
    BY <1>c, <1>p DEF Load, Process, Registers
  <2> QED
    BY <2>1 DEF Attached
<1>e. CASE Configure
  <2>1. /\ proc.at = "configure" /\ conf' = conf /\ links' = links /\ pins' = pins
        /\ proc'.at \in {"attach", "fail"} /\ proc'.i = proc.i /\ proc'.prog = proc.prog
        /\ proc'.ifname = proc.ifname
    BY <1>e, <1>p DEF Configure, Process
  <2>2. proc.prog \in Programs /\ Steps' = Steps
    BY <2>1, InAttempt DEF Steps
  <2>3. \A j \in 1..(proc.i - 1) : CoversNext(Steps[j])
    BY <2>1, <2>2, CoversKept DEF Attached
  <2>4. \A j \in 1..(proc'.i - 1) : Covers(Steps[j])'
    BY <2>1, <2>2, <2>3 DEF Covers, CoversNext, Pinned
  <2> QED
    BY <2>1, <2>4 DEF Attached
<1>f. CASE AttachTcx \/ AttachClsact \/ PinLink
  <2>1. /\ proc.at \in {"attach", "pin"} /\ conf' = conf /\ proc.op = "add"
        /\ (\E to \in {"pin", "fail"} : proc' = [proc EXCEPT !.at = to]) \/ proc' = NextStep
    BY <1>f DEF AttachTcx, AttachClsact, PinLink, Registers
  <2>2. /\ proc'.prog = proc.prog /\ proc'.ifname = proc.ifname /\ proc'.ns = proc.ns
        /\ proc'.left = proc.left /\ proc'.on = proc.on /\ proc'.lost = proc.lost
    <3>1. CASE \E to \in {"pin", "fail"} : proc' = [proc EXCEPT !.at = to]
      BY <1>p, <3>1 DEF Process
    <3>2. CASE proc' = NextStep
      BY <1>p, <3>2, NextStepIs
    <3> QED
      BY <2>1, <3>1, <3>2
  <2>3. Steps' = Steps /\ Side' = Side /\ Hook' = Hook
    BY <2>1, <2>2 DEF Steps, Side, Hook
  <2>4. /\ proc.prog \in Programs /\ Dir \in Dirs /\ Side \in Ends
        /\ ~proc.lost => proc.on = proc.ifname
    BY <2>1, InAttempt
  <2>5. proc.i <= Len(Steps)
    BY <2>1 DEF Registers
  <2>6. ASSUME proc' = NextStep
        PROVE  \A j \in 1..(proc.i - 1) : CoversNext(Steps[j])
    <3> SUFFICES ASSUME NEW j \in 1..(proc.i - 1) PROVE CoversNext(Steps[j])
      OBVIOUS
    <3>1. Covers(Steps[j])
      BY <2>1 DEF Attached
    <3>2. Steps[j] # Dir /\ Steps[j] \in Dirs
      BY <1>l, <2>5, StepsAre DEF Dir, Store, Dirs
    <3>3. CASE AttachTcx
      <4>1. links \subseteq links' /\ pins' = pins
        BY <3>3 DEF AttachTcx
      <4> QED
        BY <2>2, <2>4, <3>1, <4>1, CoversKept
    <3>4. CASE AttachClsact
      <4>1. \A l \in links : ~SamePlace(l, NewLink) => l \in links'
        <5>1. proc'.at # "fail"
          BY <1>p, <2>6, NextStepIs
        <5> QED
          BY <3>4, <5>1, <1>p DEF AttachClsact, Process
      <4>2. \A l \in links : l.prog = proc.prog /\ l.dir = Steps[j] => ~SamePlace(l, NewLink)
        <5> SUFFICES ASSUME NEW l \in links, l.prog = proc.prog, l.dir = Steps[j]
                     PROVE  l.hookDir # NewLink.hookDir
          BY DEF SamePlace
        <5>1. l.hookDir = HookDir(Steps[j])
          BY <2>1 DEF Placed
        <5>2. NewLink.hookDir = HookDir(Dir)
          BY DEF NewLink
        <5>3. HookDir(Steps[j]) # HookDir(Dir)
          BY <2>4, <3>2, OppositeIs DEF HookDir, Dirs
        <5> QED
          BY <5>1, <5>2, <5>3
      <4>3. pins' = pins
        BY <3>4 DEF AttachClsact
      <4> QED
        BY <2>2, <2>4, <3>1, <4>1, <4>2, <4>3, CoversKept
    <3>5. CASE PinLink
      <4>1. pins' = [pins EXCEPT ![<<Side, Dir>>] = proc.prog] /\ pins[<<Side, Dir>>] = 0
            /\ links' = links
        <5>1. proc'.at # "fail"
          BY <1>p, <2>6, NextStepIs
        <5> QED
          BY <3>5, <5>1, <1>p DEF PinLink, Process
      <4>2. \A n \in LinkNames : pins[n] # 0 => pins'[n] = pins[n]
        BY <4>1 DEF Store, Names
      <4> QED
        BY <2>2, <2>4, <3>1, <4>1, <4>2, CoversKept
    <3> QED
      BY <1>f, <3>3, <3>4, <3>5
  <2>7. ASSUME proc' = NextStep PROVE CoversNext(Dir)
    <3>1. proc'.at # "fail" /\ proc'.at # "pin"
      BY <1>p, <2>7, NextStepIs
    <3>2. /\ NewLink.prog = proc.prog /\ NewLink.dir = Dir /\ NewLink.hook = Hook
          /\ NewLink.ifname = proc.ifname \/ NewLink.astray
      <4>1. proc.lost \in BOOLEAN
        BY <1>p DEF Process
      <4> QED
        BY <2>4, <4>1 DEF NewLink
    <3>3. CASE AttachClsact
      <4>1. NewLink \in links' /\ Hook = "clsact"
        BY <3>1, <3>3, <1>p DEF AttachClsact, Process
      <4> QED
        BY <2>2, <3>2, <4>1 DEF CoversNext
    <3>4. CASE PinLink
      <4>1. NewLink \in links' /\ pins' = [pins EXCEPT ![<<Side, Dir>>] = proc.prog]
        BY <3>1, <3>4, <1>p DEF PinLink, Process, Attached
      <4>2. <<Side, Dir>> \in LinkNames /\ pins'[<<Side, Dir>>] = proc.prog
        BY <4>1, <2>4 DEF Store, Names, LinkNames
      <4>3. Pinned(NewLink, pins')
        BY <3>2, <4>2 DEF Pinned
      <4> QED
        BY <2>2, <3>2, <4>1, <4>3 DEF CoversNext
    <3>5. CASE AttachTcx
      BY <3>1, <3>5, <1>p DEF AttachTcx, Process
    <3> QED
      BY <1>f, <3>3, <3>4, <3>5
  <2>8. CASE proc' = NextStep
    <3>1. /\ proc'.at = IF proc.i < Len(Steps) THEN "configure" ELSE "maps"
          /\ proc'.i = IF proc.i < Len(Steps) THEN proc.i + 1 ELSE proc.i
      BY <1>p, <2>8, NextStepIs
    <3>2. \A j \in 1..proc.i : CoversNext(Steps[j])
      BY <2>6, <2>7, <2>8, <1>l DEF Dir
    <3>3. \A j \in 1..proc.i : Covers(Steps[j])'
      BY <2>3, <3>2 DEF Covers, CoversNext, Pinned
    <3>4. \A j \in 1..(proc'.i - 1) : j \in 1..proc.i
      BY <1>l, <3>1
    <3>5. proc'.at = "maps" => proc'.i = Len(Steps)' /\ proc'.i = proc.i /\ proc'.i \in 1..proc.i
      BY <1>l, <2>3, <2>5, <3>1
    <3> QED
      BY <3>1, <3>3, <3>4, <3>5 DEF Attached
  <2>9. CASE \E to \in {"pin", "fail"} : proc' = [proc EXCEPT !.at = to]
    <3>1. proc'.at \in {"pin", "fail"} /\ proc'.i = proc.i
      BY <1>p, <2>9 DEF Process
    <3>2. CASE proc'.at = "fail"
      BY <3>2 DEF Attached
    <3>3. CASE proc'.at = "pin"
      <4>1. proc'.at \notin {"fail", "configure", "maps"}
        BY <3>3
      <4>2. AttachTcx
        <5>1. ~PinLink
          BY <1>p, <4>1, NextStepIs DEF PinLink, Process
        <5>2. ~AttachClsact
          BY <1>p, <4>1, NextStepIs DEF AttachClsact, Process
        <5> QED
          BY <1>f, <5>1, <5>2
      <4>3. links' = links \cup {NewLink} /\ pins' = pins /\ Hook = "tcx"
        BY <1>p, <4>1, <4>2 DEF AttachTcx, Process
      <4>4. Dir' = Dir
        BY <2>3, <3>1 DEF Dir
      <4>5. HookDir(Dir)' = HookDir(Dir)
        BY <2>3, <4>4 DEF HookDir
      <4>6. NewLink' = NewLink
        BY <2>2, <2>3, <4>4, <4>5 DEF NewLink
      <4>7. \A j \in 1..(proc.i - 1) : CoversNext(Steps[j])
        BY <2>1, <2>2, <2>4, <4>3, CoversKept DEF Attached
      <4>8. \A j \in 1..(proc'.i - 1) : Covers(Steps[j])'
        BY <2>3, <3>1, <4>7 DEF Covers, CoversNext, Pinned
      <4> QED
        BY <2>3, <3>3, <4>3, <4>6, <4>8 DEF Attached
    <3> QED
      BY <3>1, <3>2, <3>3
  <2> QED
    BY <2>1, <2>8, <2>9
<1>g. CASE PinMaps
  <2>1. /\ proc.at = "maps" /\ conf' = conf /\ links' = links
        /\ proc'.at = "done" /\ proc'.prog = proc.prog /\ proc'.ifname = proc.ifname
        /\ \A n \in LinkNames : pins'[n] = pins[n]
    BY <1>g, EndsAttempt DEF PinMaps, Names
  <2>2. proc.prog \in Programs
    BY <1>p, <2>1 DEF Registers, Process
  <2>3. \A j \in 1..Len(Steps) : Covers(Steps[j])
    BY <1>l, <2>1 DEF Attached
  <2>4. \A j \in 1..Len(Steps) : CoversNext(Steps[j])
    BY <2>1, <2>2, <2>3, CoversKept
  <2>5. \A d \in conf.want : CoversNext(d)
    BY <2>4, StepsAre DEF Store
  <2>6. \A d \in conf'.want : Covers(d)'
    BY <2>1, <2>5 DEF Covers, CoversNext, Pinned
  <2> QED
    BY <2>1, <2>6 DEF Attached
<1>h. CASE Remove \/ Removed
  <2>1. proc'.at \in {"remove", "done"} /\ proc'.op # "add"
    BY <1>h, <1>p DEF Remove, Removed, Process, Registers
  <2> QED
    BY <2>1, <1>n
<1>i. CASE Exit \/ Kill
  <2>1. proc'.at = "none"
    BY <1>i DEF Exit, Kill, Gone, NoProcess
  <2> QED
    BY <2>1, <1>n
<1>v. CASE UNCHANGED vars
  <2>1. \A d : Covers(d)' <=> Covers(d)
    BY <1>v DEF vars, Covers, Pinned
  <2>2. NewLink' = NewLink /\ Steps' = Steps /\ Hook' = Hook
    BY <1>v DEF vars, NewLink, HookDir, Dir, Steps, Side, Hook
  <2> QED
    BY <1>v, <2>1, <2>2 DEF vars, Attached
<1> QED
  BY <1>a, <1>b, <1>c, <1>e, <1>f, <1>g, <1>h, <1>i, <1>v DEF Next, PluginStep

----------------------------------------------------------------------------
LEMMA InitJInv == Init => JInv
<1> SUFFICES ASSUME Init PROVE JInv
  OBVIOUS
<1>1. Store /\ Registers
  BY InitTypes
<1>2. proc.at = "none" /\ proc.op = "none" /\ links = {} /\ proc.ok = FALSE
  BY DEF Init, NoProcess
<1>3. Pacer /\ Placed /\ LinksSound
  BY <1>2 DEF Pacer, Placed, LinksSound, Acting, Trying, Loaded
<1>4. TcxPinned /\ DelSees /\ WritesKnown /\ Attached
  BY <1>2 DEF TcxPinned, DelSees, WritesKnown, Attached, Loaded
<1> QED
  BY <1>1, <1>3, <1>4 DEF JInv, IInv

LEMMA NextJInv == JInv /\ [Next]_vars => JInv'
<1> SUFFICES ASSUME JInv, [Next]_vars PROVE JInv'
  OBVIOUS
<1>1. IInv'
  BY StoreKept, RegistersKept, PacerKept, PlacedKept, LinksSoundKept DEF JInv, IInv
<1>2. TcxPinned' /\ DelSees' /\ WritesKnown' /\ Attached'
  BY TcxPinnedKept, DelSeesKept, WritesKnownKept, AttachedKept DEF JInv
<1> QED
  BY <1>1, <1>2 DEF JInv

LEMMA JInvHolds == Spec => []JInv
  BY InitJInv, NextJInv, PTL DEF Spec

(* Attach: every variable stays within its type, and a direction is at     *)
(* hand whenever one is configured, attached or pinned.                    *)
THEOREM TypeCorrect == Spec => []TypeOK
<1>1. JInv => TypeOK
  BY TypesAre DEF JInv, IInv
<1> QED
  BY <1>1, JInvHolds, PTL

(* loader.go on Configure: no program that is attached finds its slot      *)
(* unwritten, through every failure, kill, fallback and retry.             *)
THEOREM ConfiguredBeforeAttached == Spec => []NothingRunsUnconfigured
<1>1. JInv => NothingRunsUnconfigured
  BY DEF JInv, IInv, LinksSound, Sound, NothingRunsUnconfigured
<1> QED
  BY <1>1, JInvHolds, PTL

(* attachBPF: departure times are stamped only above an fq, and under      *)
(* edtPacing on by every program of the egress direction.                  *)
THEOREM PacingAsConfigured == Spec => []PacedAsConfigured
<1>1. JInv => PacedAsConfigured
  BY DEF JInv, IInv, LinksSound, Sound, PacedAsConfigured
<1> QED
  BY <1>1, JInvHolds, PTL

(* Program.Attach and tryAttachOne: each program is at the hook of the     *)
(* traffic it is named for, and ADD and DEL return in the host's netns,    *)
(* unless the thread's return from the pod's netns was refused before.     *)
THEOREM TrafficSeen == Spec => []SeesItsTraffic
<1>1. JInv => SeesItsTraffic
  BY DEF JInv, IInv, LinksSound, Sound, Registers, Trying, Loaded, SeesItsTraffic
<1> QED
  BY <1>1, JInvHolds, PTL

(* attachBPF: an ADD limits every direction with a rate by one program, on *)
(* the interface unless its thread was lost, or leaves neither a tcx link  *)
(* nor a file that it was allowed to remove.                               *)
THEOREM AddIsAllOrNothing == Spec => []AllOrNothing
<1>1. ASSUME JInv, proc.op = "add", proc.at = "done" PROVE AllOrNothing
  <2> USE DEF JInv, IInv
  <2>1. ASSUME proc.ok, NEW d \in conf.want
        PROVE  \E l \in links :
                 /\ <<l.prog, l.dir>> = <<proc.prog, d>>
                 /\ l.ifname = proc.ifname \/ l.astray
                 /\ l.hook = "tcx" => Pinned(l, pins)
    BY <1>1, <2>1 DEF Attached, Covers
  <2>2. ASSUME NEW n \in Names, Discarded(pins[n]) PROVE n \in stuck
    BY <1>1, <2>2 DEF WritesKnown, Discarded, Trying, Loaded
  <2>3. ASSUME NEW l \in links, l.hook = "tcx", Discarded(l.prog)
        PROVE  \E n \in stuck : pins[n] = l.prog
    <3>1. PICK n \in LinkNames : pins[n] = l.prog
      <4>1. Pinned(l, pins)
        BY <1>1, <2>3 DEF TcxPinned
      <4> QED
        BY <4>1 DEF Pinned
    <3>2. n \in Names
      BY DEF Names
    <3> QED
      BY <2>2, <2>3, <3>1, <3>2
  <2> QED
    BY <2>1, <2>2, <2>3 DEF AllOrNothing
<1>2. JInv => AllOrNothing
  BY <1>1 DEF AllOrNothing
<1> QED
  BY <1>2, JInvHolds, PTL

(* cmdDel: after a DEL there is neither a file nor a tcx link of the       *)
(* container, but for files whose removal was refused, or which it was     *)
(* refused to see.                                                         *)
THEOREM DelLeavesNothingBehind == Spec => []DelLeavesNothing
<1>1. ASSUME JInv, proc.op = "del", proc.at = "done" PROVE DelLeavesNothing
  <2> USE DEF JInv, IInv
  <2>1. ASSUME NEW n \in Names, pins[n] # 0 PROVE n \in stuck
    BY <1>1, <2>1 DEF DelSees
  <2>2. ASSUME NEW l \in links, l.hook = "tcx" PROVE \E n \in stuck : pins[n] = l.prog
    <3>1. PICK n \in LinkNames : pins[n] = l.prog
      <4>1. Pinned(l, pins)
        BY <1>1, <2>2 DEF TcxPinned
      <4> QED
        BY <4>1 DEF Pinned
    <3>2. n \in Names
      BY DEF Names
    <3>3. l.prog # 0
      BY <1>1, <2>2, AttachAssumption DEF Store, Link, Programs
    <3> QED
      BY <2>1, <3>1, <3>2, <3>3
  <2> QED
    BY <2>1, <2>2 DEF DelLeavesNothing
<1>2. JInv => DelLeavesNothing
  BY <1>1 DEF DelLeavesNothing
<1> QED
  BY <1>2, JInvHolds, PTL

=============================================================================
