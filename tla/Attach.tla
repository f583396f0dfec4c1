------------------------------- MODULE Attach -------------------------------
(***************************************************************************)
(* natra as a CNI plugin: ADD loads the BPF programs and hangs them on the *)
(* veth of a container's interface, DEL takes them down (cmdAdd, cmdDel    *)
(* and attachBPF of cmd/natra/main.go with pkg/bpf/loader.go).  Every      *)
(* system call may be refused and the process may be killed between any    *)
(* two of them.  The container runtime runs one plugin process at a time   *)
(* per container, so there is one process here and one container, which    *)
(* may have several interfaces.                                            *)
(***************************************************************************)
EXTENDS Integers, FiniteSets, Sequences

CONSTANTS
  Ifs,        \* CNI_IFNAME: the interfaces of the container
  NoIf,       \* no interface: no plugin process runs
  MapNames,   \* the maps that PinMaps pins
  MaxTries,   \* bound: attempts that the ADDs may make, taken together
  MaxAdds     \* bound: ADDs that the runtime calls

ASSUME AttachAssumption ==
  /\ NoIf \notin Ifs
  /\ MaxTries \in Nat /\ MaxAdds \in Nat

Dirs  == {"ingress", "egress"}
Ends  == {"pod", "host"}
Hooks == {"tcx", "clsact"}

(* Files in the pin directory that carry the container's ID. *)
LinkNames == Ends \X Dirs
Names     == LinkNames \cup ({"map"} \X MapNames)

Attempt(hook, side) == [hook |-> hook, side |-> side]

(* attachMode: an explicit attempt, or none for "auto". *)
Modes == {<<>>} \cup {<<Attempt(h, s)>> : h \in Hooks, s \in Ends}

(* A program is named by a number that no other in the kernel has.  An     *)
(* attempt loads one.                                                      *)
Programs == 1..MaxTries

VARIABLES
  conf,    \* what the runtime passes in: attachMode, edtPacing, directions with a rate
  proc,    \* the plugin process
  slot,    \* natra_config_map of every program loaded: a direction's pacing
  links,   \* the programs attached to interfaces
  pins,    \* the pin directory: which program a file refers to, 0 for no file
  qdisc,   \* root qdisc of the pod end of an interface
  added,   \* interfaces the runtime has ADDed and not DELeted
  tries,   \* attempts that the ADDs so far may have made
  stuck    \* history: files that were to be removed and could not be

vars == <<conf, proc, slot, links, pins, qdisc, added, tries, stuck>>

NoProcess ==
  [op |-> "none", at |-> "none", ifname |-> NoIf, left |-> <<>>, ns |-> "host",
   lost |-> FALSE, on |-> NoIf, paced |-> FALSE, prog |-> 0, mine |-> {},
   i |-> 1, todo |-> {}, ok |-> FALSE]

NoConfig == [d \in Dirs |-> "unset"]

(* astray: the process that attached it was lost. *)
Link == [prog : Programs, ifname : Ifs, end : Ends, hookDir : Dirs,
         dir : Dirs, hook : Hooks, astray : BOOLEAN]

----------------------------------------------------------------------------
(* The attempts in the order they are made. *)
Strategy ==
  LET TcxPod     == Attempt("tcx", "pod")
      TcxHost    == Attempt("tcx", "host")
      ClsactPod  == Attempt("clsact", "pod")
      ClsactHost == Attempt("clsact", "host")
  IN CASE conf.mode # <<>>   -> conf.mode
       [] conf.mode = <<>> /\ conf.edt = "on"   -> <<TcxPod, ClsactPod>>
       [] conf.mode = <<>> /\ conf.edt = "auto" ->
            <<TcxPod, ClsactPod, TcxHost, ClsactHost>>
       [] conf.mode = <<>> /\ conf.edt = "off"  ->
            <<TcxHost, TcxPod, ClsactHost, ClsactPod>>

(* EDT is required, but fq cannot be below the hook. *)
Refused ==
  conf.edt = "on" /\ \E k \in 1..Len(Strategy) : Strategy[k].side = "host"

(* The directions with a rate, in the order they are attached. *)
Steps ==
  LET If(d) == IF d \in conf.want THEN <<d>> ELSE <<>>
  IN If("ingress") \o If("egress")

Side == Head(proc.left).side
Hook == Head(proc.left).hook
Dir  == Steps[proc.i]

Opposite(d) == CHOOSE e \in Dirs : e # d

(* Mutant of HookDir: the flip for the host's end of the pair is forgotten. *)
SameDir(d) == d

(* The hook at which the chosen end of the veth pair sees direction d. *)
HookDir(d) == IF Side = "host" THEN Opposite(d) ELSE d

(* What is attached now is the link of the current direction. *)
NewLink == [prog |-> proc.prog, ifname |-> proc.on, end |-> proc.ns,
            hookDir |-> HookDir(Dir), dir |-> Dir, hook |-> Hook,
            astray |-> proc.lost]

SamePlace(k, l) ==
  /\ k.hook = l.hook
  /\ <<k.ifname, k.end, k.hookDir>> = <<l.ifname, l.end, l.hookDir>>

(* A filter stays with its interface; a tcx link whose file is gone is     *)
(* detached when the last file descriptor closes.                          *)
Pinned(l, files) == \E n \in LinkNames : n[2] = l.dir /\ files[n] = l.prog
Kept(files) == {l \in links : l.hook = "clsact" \/ Pinned(l, files)}

Init ==
  /\ conf \in [mode : Modes, edt : {"auto", "on", "off"}, want : SUBSET Dirs]
  /\ proc = NoProcess
  /\ slot = [p \in Programs |-> NoConfig]
  /\ links = {}
  /\ pins = [n \in Names |-> 0]
  /\ qdisc = [f \in Ifs |-> "noqueue"]
  /\ added = {}
  /\ tries = 0
  /\ stuck = {}

----------------------------------------------------------------------------
(* The runtime calls ADD for an interface the plugins before natra have    *)
(* just created.  MkdirAll of the pin directory may fail.                  *)
CmdAdd(f) ==
  /\ proc.op = "none" /\ f \notin added
  /\ tries + Len(Strategy) <= MaxTries /\ tries < MaxAdds * Len(Strategy)
  /\ tries' = tries + Len(Strategy)
  /\ added' = added \cup {f}
  /\ links' = {l \in links : l.ifname # f}
  /\ qdisc' = [qdisc EXCEPT ![f] = "noqueue"]
  /\ \E at \in {"done"} \cup
               (IF conf.want = {} \/ Refused THEN {} ELSE {"attempt"}) :
       proc' = [NoProcess EXCEPT !.op = "add", !.at = at, !.ifname = f,
                                 !.left = Strategy]
  /\ UNCHANGED <<conf, slot, pins, stuck>>

(* Mutant of Restored: the thread stays where it is. *)
StayThere(p) == {p}

(* The restore function of enterNetns: the thread goes back to where it    *)
(* came from.  A refusal is ignored; the thread is lost then, stays in the *)
(* pod's netns and, whatever it enters, comes back to no other.            *)
Restored(p) ==
  {[p EXCEPT !.lost = l, !.ns = IF l THEN "pod" ELSE "host"] : l \in {p.lost, TRUE}}

(* The interfaces that the number of the host's end may stand for: its own *)
(* in the host's netns; in the pod's, any that has it, or none.            *)
ByNumber(p) == IF p.lost THEN added \cup {NoIf} ELSE {p.ifname}

(* resolveIfIndex: enterNetns is refused; or the interface, its peer or    *)
(* the peer's number is not found and the thread returns; or the pod's end *)
(* is found, and the thread stays in the pod's netns; or the host's end,   *)
(* and it returns.                                                         *)
ResolveIfIndex ==
  LET inside == [proc EXCEPT !.ns = "pod"]
      found(p, f) == [p EXCEPT !.at = "fq", !.on = f, !.paced = FALSE,
                               !.prog = 0, !.i = 1]
  IN  /\ proc.at = "attempt" /\ proc.left # <<>>
      /\ \/ proc' = [proc EXCEPT !.left = Tail(@)]
         \/ \E p \in Restored(inside) : proc' = [p EXCEPT !.left = Tail(@)]
         \/ Side = "pod" /\ proc' = found(inside, proc.ifname)
         \/ /\ Side = "host"
            /\ \E p \in Restored(inside) :
                 \E f \in ByNumber(p) : proc' = found(p, f)
      /\ UNCHANGED <<conf, slot, links, pins, qdisc, added, tries, stuck>>

(* All attempts failed: ADD returns success all the same. *)
PassThrough ==
  /\ proc.at = "attempt" /\ proc.left = <<>>
  /\ proc' = [proc EXCEPT !.at = "done"]
  /\ UNCHANGED <<conf, slot, links, pins, qdisc, added, tries, stuck>>

InstallFq ==
  /\ proc.at = "fq"
  /\ \/ /\ conf.edt # "off" /\ Side = "pod"
        /\ \/ /\ qdisc' = [qdisc EXCEPT ![proc.ifname] = "fq"]
              /\ proc' = [proc EXCEPT !.at = "load", !.paced = TRUE]
           \/ /\ proc' = [proc EXCEPT !.at = IF conf.edt = "on" THEN "fail"
                                                                ELSE "load"]
              /\ UNCHANGED qdisc
     \/ /\ conf.edt = "off" \/ Side = "host"
        /\ proc' = [proc EXCEPT !.at = "load"]
        /\ UNCHANGED qdisc
  /\ UNCHANGED <<conf, slot, links, pins, added, tries, stuck>>

Unused == {p \in Programs : /\ p \notin proc.mine
                            /\ \A l \in links : l.prog # p
                            /\ \A n \in Names : pins[n] # p}

Load ==
  /\ proc.at = "load"
  /\ \/ \E p \in Unused :
          /\ \A q \in Unused : p <= q
          /\ proc' = [proc EXCEPT !.at = "configure", !.prog = p,
                                  !.mine = @ \cup {p}]
     \/ proc' = [proc EXCEPT !.at = "fail"]
  /\ UNCHANGED <<conf, slot, links, pins, qdisc, added, tries, stuck>>

(* Mutant of Pacing: both directions are paced where fq is installed. *)
PacingBothWays(d) == IF proc.paced THEN "pace" ELSE "drop"

(* The pacing that Configure writes for direction d: none for ingress. *)
Pacing(d) == IF proc.paced /\ d = "egress" THEN "pace" ELSE "drop"

(* Mutant of Configure: the program is attached first. *)
ConfigureLate ==
  /\ proc.at = "configure"
  /\ proc' = [proc EXCEPT !.at = "attach"]
  /\ UNCHANGED <<conf, slot, links, pins, qdisc, added, tries, stuck>>

(* The slot of the direction is written before its program is attached;    *)
(* an error in the bucket map leaves it written.                           *)
Configure ==
  /\ proc.at = "configure"
  /\ \/ /\ slot' = [slot EXCEPT ![proc.prog][Dir] = Pacing(Dir)]
        /\ \E at \in {"attach", "fail"} : proc' = [proc EXCEPT !.at = at]
     \/ /\ proc' = [proc EXCEPT !.at = "fail"]
        /\ UNCHANGED slot
  /\ UNCHANGED <<conf, links, pins, qdisc, added, tries, stuck>>

(* Mutant of NextStep: one direction too many. *)
OneStepMore ==
  IF proc.i <= Len(Steps) THEN [proc EXCEPT !.at = "configure", !.i = @ + 1]
                          ELSE [proc EXCEPT !.at = "maps"]

(* The process goes on with the next direction, or with the maps. *)
NextStep ==
  IF proc.i < Len(Steps) THEN [proc EXCEPT !.at = "configure", !.i = @ + 1]
                         ELSE [proc EXCEPT !.at = "maps"]

AttachTcx ==
  /\ proc.at = "attach" /\ Hook = "tcx"
  /\ \/ /\ proc.on # NoIf
        /\ links' = links \cup {NewLink}
        /\ proc' = [proc EXCEPT !.at = "pin"]
     \/ /\ proc' = [proc EXCEPT !.at = "fail"]
        /\ UNCHANGED links
  /\ UNCHANGED <<conf, slot, pins, qdisc, added, tries, stuck>>

(* A name that is taken cannot be pinned; a link not pinned is closed. *)
PinLink ==
  /\ proc.at = "pin"
  /\ \/ /\ pins[<<Side, Dir>>] = 0
        /\ pins' = [pins EXCEPT ![<<Side, Dir>>] = proc.prog]
        /\ proc' = NextStep
        /\ UNCHANGED links
     \/ /\ links' = links \ {NewLink}
        /\ proc' = [proc EXCEPT !.at = "fail"]
        /\ UNCHANGED pins
  /\ UNCHANGED <<conf, slot, qdisc, added, tries, stuck>>

(* FilterReplace: the filter that was at the same hook is gone. *)
AttachClsact ==
  /\ proc.at = "attach" /\ Hook = "clsact"
  /\ \/ /\ proc.on # NoIf
        /\ links' = {l \in links : ~SamePlace(l, NewLink)} \cup {NewLink}
        /\ proc' = NextStep
     \/ /\ proc' = [proc EXCEPT !.at = "fail"]
        /\ UNCHANGED links
  /\ UNCHANGED <<conf, slot, pins, qdisc, added, tries, stuck>>

(* Files of the names in gone are removed, those of refused are not. *)
Unlink(gone, refused) ==
  /\ pins' = [n \in Names |-> IF n \in gone THEN 0 ELSE pins[n]]
  /\ stuck' = (stuck \ gone) \cup refused

(* Mutant of Written: the rollback removes nothing. *)
WrittenNone == {}

(* The pin files of the directions already attached, whatever the hook. *)
Written == {n \in {<<Side, Steps[j]>> : j \in 1..(proc.i - 1)} : pins[n] # 0}

(* The deferred restore of tryAttachOne, which is a no-op at the host's    *)
(* end.                                                                    *)
Left(p) == IF Side = "pod" THEN Restored(p) ELSE {p}

(* PinMaps goes through a Go map, in any order, and stops at the first     *)
(* error, a name that is taken among them; whatever it pinned stays.       *)
PinMaps ==
  /\ proc.at = "maps"
  /\ \E done \in SUBSET {n \in Names \ LinkNames : pins[n] = 0} :
       pins' = [n \in Names |-> IF n \in done THEN proc.prog ELSE pins[n]]
  /\ \E p \in Left(proc) : proc' = [p EXCEPT !.at = "done", !.ok = TRUE]
  /\ UNCHANGED <<conf, slot, links, qdisc, added, tries, stuck>>

(* Mutant of NextAttempt: the same attempt again. *)
SameAttempt(left) == left

NextAttempt(left) == Tail(left)

(* rollback, Close and the deferred restore; on to the next attempt. *)
Rollback ==
  /\ proc.at = "fail"
  /\ \E refused \in SUBSET Written : Unlink(Written \ refused, refused)
  /\ links' = Kept(pins')
  /\ \E p \in Left(proc) :
       proc' = [p EXCEPT !.at = "attempt", !.left = NextAttempt(@)]
  /\ UNCHANGED <<conf, slot, qdisc, added, tries>>

----------------------------------------------------------------------------
(* DEL, at any time and as often as the runtime likes: it reads the pin    *)
(* directory and goes through what it found.  If it cannot read it, it is  *)
(* through at once, with success, and every file is left.                  *)
CmdDel(f) ==
  LET files == {n \in Names : pins[n] # 0}
  IN  /\ proc.op = "none"
      /\ \E seen \in {files, {}} :
           /\ proc' = [NoProcess EXCEPT !.op = "del", !.at = "remove",
                                        !.ifname = f, !.todo = seen]
           /\ stuck' = stuck \cup (files \ seen)
      /\ UNCHANGED <<conf, slot, links, pins, qdisc, added, tries>>

(* Mutant of AfterRefusal: DEL gives up at the first file it cannot remove. *)
GiveUp(todo, n) == {}

(* What is left to do when the removal of n is refused. *)
AfterRefusal(todo, n) == todo \ {n}

(* One file after the other, in a fixed order. *)
Remove ==
  /\ proc.at = "remove" /\ proc.todo # {}
  /\ LET n == CHOOSE m \in proc.todo : TRUE
     IN \/ /\ Unlink({n}, {})
           /\ proc' = [proc EXCEPT !.todo = @ \ {n}]
        \/ /\ Unlink({}, {n})
           /\ proc' = [proc EXCEPT !.todo = AfterRefusal(@, n)]
  /\ links' = Kept(pins')
  /\ UNCHANGED <<conf, slot, qdisc, added, tries>>

Removed ==
  /\ proc.at = "remove" /\ proc.todo = {}
  /\ proc' = [proc EXCEPT !.at = "done"]
  /\ added' = added \ {proc.ifname}
  /\ UNCHANGED <<conf, slot, links, pins, qdisc, tries, stuck>>

(* The process ends, or is killed on the way; its file descriptors close,  *)
(* and the kernel frees the maps of a program nothing refers to.           *)
Gone ==
  /\ proc' = NoProcess
  /\ links' = Kept(pins)
  /\ slot' = [p \in Programs |->
                IF \E l \in links' : l.prog = p THEN slot[p] ELSE NoConfig]
  /\ UNCHANGED <<conf, pins, qdisc, added, tries, stuck>>

Exit == proc.at = "done" /\ Gone
Kill == proc.at \notin {"none", "done"} /\ Gone

----------------------------------------------------------------------------
PluginStep ==
  \/ ResolveIfIndex \/ PassThrough \/ InstallFq \/ Load \/ Configure
  \/ AttachTcx \/ PinLink \/ AttachClsact \/ PinMaps \/ Rollback
  \/ Remove \/ Removed \/ Exit

Next ==
  \/ \E f \in Ifs : CmdAdd(f) \/ CmdDel(f)
  \/ PluginStep
  \/ Kill

(* A process that is not killed runs on: no call here waits for another    *)
(* process.                                                                *)
Spec == Init /\ [][Next]_vars /\ WF_vars(PluginStep)

----------------------------------------------------------------------------
TypeOK ==
  /\ conf \in [mode : Modes, edt : {"auto", "on", "off"}, want : SUBSET Dirs]
  /\ proc.op \in {"none", "add", "del"}
  /\ proc.at \in {"none", "attempt", "fq", "load", "configure", "attach",
                  "pin", "maps", "fail", "remove", "done"}
  /\ proc.ifname \in Ifs \cup {NoIf}
  /\ proc.ns \in Ends /\ proc.lost \in BOOLEAN /\ proc.on \in Ifs \cup {NoIf}
  /\ proc.paced \in BOOLEAN /\ proc.ok \in BOOLEAN
  /\ proc.prog \in Programs \cup {0} /\ proc.mine \in SUBSET Programs
  /\ proc.i \in 1..2
  /\ proc.at \in {"configure", "attach", "pin"} => proc.i <= Len(Steps)
  /\ proc.todo \in SUBSET Names
  /\ slot \in [Programs -> [Dirs -> {"unset", "drop", "pace"}]]
  /\ links \in SUBSET Link
  /\ pins \in [Names -> Programs \cup {0}]
  /\ qdisc \in [Ifs -> {"noqueue", "fq"}]
  /\ added \in SUBSET Ifs
  /\ tries \in 0..MaxTries
  /\ stuck \in SUBSET Names

(* loader.go on Configure: it "must be called [...] BEFORE the matching    *)
(* direction's program starts seeing traffic".  Through every failure,     *)
(* kill and retry, no attached program finds its slot unwritten and lets   *)
(* everything pass.                                                        *)
NothingRunsUnconfigured == \A l \in links : slot[l.prog][l.dir] # "unset"

(* A program that stamps departure times sits above an fq: on the pod's    *)
(* end, at its egress hook.  Elsewhere the stamps are ignored and the rate *)
(* limit lets everything pass.  And edtPacing: on is never downgraded,     *)
(* whatever attachMode says and whatever attempt succeeds.                 *)
PacedAsConfigured ==
  \A l \in links :
    /\ slot[l.prog][l.dir] = "pace" =>
         l.end = "pod" /\ l.hookDir = "egress" /\ qdisc[l.ifname] = "fq"
    /\ conf.edt = "on" /\ l.dir = "egress" => slot[l.prog]["egress"] = "pace"

(* A program sees the traffic it is named for (at the pod's end the hook   *)
(* of its own direction, at the host's end the other one), and ADD returns *)
(* in the netns it was called in, through any fallback from one end to the *)
(* other: only a process whose return from the pod's netns was refused     *)
(* attaches a program elsewhere, or ends elsewhere.                        *)
SeesItsTraffic ==
  /\ \A l \in links : ~l.astray => (l.dir = l.hookDir <=> l.end = "pod")
  /\ proc.at = "done" /\ ~proc.lost => proc.ns = "host"

(* ADD limits every direction that has a rate, by one program and, unless  *)
(* it was lost, on its interface, or leaves no tcx link and no file        *)
(* behind, of this attempt or of one before it, that it was allowed to     *)
(* remove.                                                                 *)
Discarded(p) == p \in proc.mine /\ (proc.ok => p # proc.prog)

AllOrNothing ==
  (proc.op = "add" /\ proc.at = "done") =>
    /\ proc.ok => \A d \in conf.want : \E l \in links :
         /\ <<l.prog, l.dir>> = <<proc.prog, d>>
         /\ l.ifname = proc.ifname \/ l.astray
         /\ l.hook = "tcx" => Pinned(l, pins)
    /\ \A n \in Names : Discarded(pins[n]) => n \in stuck
    /\ \A l \in links :
         (l.hook = "tcx" /\ Discarded(l.prog)) =>
           \E n \in stuck : pins[n] = l.prog

(* After DEL there is no file of the container and no tcx link, but for    *)
(* the files that could not be removed, or be seen in a directory that     *)
(* could not be read: one refusal does not keep the others, and a process  *)
(* killed in the middle of an ADD or a DEL leaves nothing that a DEL does  *)
(* not find.                                                               *)
DelLeavesNothing ==
  (proc.op = "del" /\ proc.at = "done") =>
    /\ \A n \in Names : pins[n] # 0 => n \in stuck
    /\ \A l \in links : l.hook = "tcx" => \E n \in stuck : pins[n] = l.prog

(* ADD and DEL return, whatever is refused. *)
PluginReturns == (proc.op # "none") ~> (proc.op = "none")

(* loader.go on Attach: the caller must be in the pod's netns for the      *)
(* pod's end, "the host netns for SideHost".  So a program never sees what *)
(* its direction is not.                                                   *)
NeverAstray == \A l \in links : l.dir = l.hookDir <=> l.end = "pod"

(* ARCHITECTURE.md: "If one direction's attach fails after the other       *)
(* succeeded, the successful side is rolled back", which "avoids           *)
(* half-applied state": an ADD that fails leaves no program attached.      *)
NotHalfApplied ==
  (proc.op = "add" /\ proc.at = "done" /\ ~proc.ok /\ stuck = {}) =>
    \A l \in links : l.prog \notin proc.mine

(* main.go on attachBPF: an attempt that fails removes "any pins this      *)
(* attempt wrote".  It never takes down the tcx link of an earlier ADD.    *)
EarlierAddsSurvive ==
  [][ proc.op = "add" =>
        \A l \in links : (l.hook = "tcx" /\ l.prog \notin proc.mine) => l \in links' ]_vars

=============================================================================
