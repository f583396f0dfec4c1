------------------------------- MODULE Plugin -------------------------------
(***************************************************************************)
(* One call of natra after the other, from the environment that the        *)
(* container runtime sets up to what it finds on stdout: the CNI skeleton  *)
(* (internal/cniskel) around cmdAdd, cmdDel and cmdCheck of                *)
(* cmd/natra/main.go.  What an attachment does in detail is in Attach;     *)
(* here it succeeds or fails as a whole, and there are many containers,    *)
(* which share the pin directory.                                          *)
(***************************************************************************)
EXTENDS Config, Sequences

CONSTANTS
  Containers,  \* container IDs that validateContainerID lets pass
  Prefixed,    \* <<c, d>>: the ID c goes on after the ID d
  Dashed,      \* those that go on with a dash
  Dotted,      \* IDs with a dot, which bpffs takes no file names from
  Supported,   \* version.All: numbers in the order of the versions
  CheckSince,  \* 0.4.0
  GCSince,     \* 1.1.0
  Junk,        \* a cniVersion that is none
  Versions,    \* those a configuration may name
  Confs        \* settings of pods and of the cluster

ASSUME PluginAssumption ==
  /\ Dashed \subseteq Prefixed /\ Prefixed \subseteq Containers \X Containers
  /\ Dotted \subseteq Containers /\ {"", "bad"} \cap Containers = {}
  /\ Supported \subseteq Nat /\ CheckSince \in Nat /\ GCSince \in Nat
  /\ Versions \subseteq Nat \cup {Junk} /\ Junk \notin Nat
  /\ Confs \subseteq Conf

Commands == {"ADD", "DEL", "CHECK", "GC", "STATUS", "VERSION"}

(* The environment of a call; "" is a variable that is not set, "bad" what *)
(* the validators of names.go refuse, "own" the netns the plugin is in.    *)
Env == [cmd : Commands \cup {"", "other"}, id : Containers \cup {"", "bad"},
        ifname : {"ok", "", "bad"}, netns : {"pod", "own", ""},
        path : {"ok", ""}, override : BOOLEAN]

(* What arrives on stdin, as far as the skeleton looks at it. *)
Input == {"unread", "nojson", "noname", "badname", "ok"}

VARIABLES
  links,    \* containers with a file for a link in the pin directory
  filters,  \* containers whose interface carries clsact filters
  proc      \* the process

vars == <<links, filters, proc>>

NoEnv == [cmd |-> "", id |-> "", ifname |-> "", netns |-> "", path |-> "",
          override |-> FALSE]

NoProcess ==
  [at |-> "none", env |-> NoEnv, input |-> "ok", version |-> Junk,
   conf |-> {}, limits |-> [d \in Dirs |-> Off], ns |-> "host",
   settings |-> "ok", prev |-> "none", fault |-> "none",
   stdout |-> <<>>, status |-> -1]

Init ==
  /\ links = {}
  /\ filters = {}
  /\ proc = NoProcess

(* The program of a link lives as long as its file. *)
Limited(c) == c \in links \cup filters

----------------------------------------------------------------------------
(* Ends of a call: PluginMainFuncs prints an error as JSON and exits 1. *)
Exit(p, status) == [p EXCEPT !.at = "exit", !.status = status]
Fail(p) == Exit([p EXCEPT !.stdout = Append(@, "error")], 1)

Step(p) == proc' = p /\ UNCHANGED <<links, filters>>

(* main: a subcommand of the operator's is handed to natra-tools, and this *)
(* process is gone; if that is not there, the call fails, with no JSON.    *)
ExecTools ==
  /\ proc.at = "none"
  /\ Step(Exit([proc EXCEPT !.fault = "tools"], 1))

Start(env) ==
  /\ proc.at = "none"
  /\ Step([proc EXCEPT !.at = "env", !.env = env])

(* The variables each command must find. *)
Required(cmd) ==
  CASE cmd \in {"ADD", "CHECK"}  -> {"id", "netns", "ifname", "path"}
    [] cmd = "DEL"               -> {"id", "ifname", "path"}
    [] cmd \in {"GC", "STATUS"}  -> {"path"}
    [] OTHER                     -> {}

(* A variable is missing, or one that is needed is not valid. *)
EnvRefused(env) == \E v \in Required(env.cmd) : env[v] \in {"", "bad"}

(* getCmdArgsFromEnv.  Without a command natra says what it is. *)
ReadEnv ==
  /\ proc.at = "env"
  /\ \/ proc.env.cmd = "" /\ Step(Exit(proc, 0))
     \/ proc.env.cmd # "" /\ EnvRefused(proc.env) /\ Step(Fail(proc))
     \/ /\ proc.env.cmd # "" /\ ~EnvRefused(proc.env)
        /\ Step([proc EXCEPT !.at = IF proc.env.cmd = "VERSION" THEN "versions"
                                                                 ELSE "stdin"])

(* io.ReadAll and validateConfig; only then is an unknown command refused. *)
ReadStdin ==
  /\ proc.at = "stdin"
  /\ \/ \E input \in Input \ {"ok"} : Step(Fail([proc EXCEPT !.input = input]))
     \/ proc.env.cmd = "other" /\ Step(Fail(proc))
     \/ /\ proc.env.cmd # "other"
        /\ \E v \in Versions :
             Step([proc EXCEPT !.at = "version", !.version = v])

PrintVersions ==
  /\ proc.at = "versions"
  /\ \/ Step(Exit([proc EXCEPT !.stdout = <<"versions">>], 0))
     \/ Step(Fail([proc EXCEPT !.fault = "stdout"]))

(* Commands that came later than the first version of the protocol. *)
Since(cmd) == CASE cmd = "CHECK"             -> CheckSince
                [] cmd \in {"GC", "STATUS"}  -> GCSince
                [] OTHER                     -> 0

(* Mutant of Gated: the gate lets every version pass. *)
NotGated(cmd, v) == FALSE

(* The gate of a command, for versions that are one. *)
Gated(cmd, v) == Since(cmd) > 0 /\ (v = Junk \/ v < Since(cmd))

(* After the gate, a supported version that is not older is looked for;    *)
(* checkVersionAndCall then wants the very version.                        *)
Known(cmd, v) ==
  /\ Since(cmd) > 0 => \E s \in Supported : s >= v
  /\ v \in Supported

(* Mutant of Call: the functions that natra does not have are called. *)
CallNil(cmd) == CASE cmd = "ADD" -> "add" [] cmd = "DEL" -> "del"
                  [] cmd = "CHECK" -> "answered" [] OTHER -> "panic"

(* GC and STATUS have no function, CHECK has one that does nothing. *)
Call(cmd) == CASE cmd = "ADD" -> "add" [] cmd = "DEL" -> "del" [] OTHER -> "answered"

CheckVersion ==
  /\ proc.at = "version"
  /\ LET cmd == proc.env.cmd
         served == ~Gated(cmd, proc.version) /\ Known(cmd, proc.version)
     IN \/ served /\ Step([proc EXCEPT !.at = Call(cmd)])
        \/ ~served /\ Step(Fail(proc))

----------------------------------------------------------------------------
(* cmdAdd: parseConfig, parseEDTMode and resolveAttachStrategy may refuse  *)
(* the settings; without a limit in either direction nothing is attached.  *)
ParseConf ==
  /\ proc.at = "add"
  /\ \/ Step(Fail([proc EXCEPT !.settings = "bad"]))
     \/ \E conf \in Confs : \E ingress \in Resolve(conf, "ingress"),
                               egress \in Resolve(conf, "egress") :
          Step([proc EXCEPT
                 !.at = IF ingress.on \/ egress.on THEN "attach" ELSE "result",
                 !.conf = {conf},
                 !.limits = [d \in Dirs |-> IF d = "ingress" THEN ingress
                                                             ELSE egress]])

(* Mutant of AfterAttach: a failed attachment fails the ADD. *)
AfterFailure(p, ok) == IF ok THEN [p EXCEPT !.at = "result"] ELSE Fail(p)

(* Fail-open: the outcome of the attachment changes nothing in the answer. *)
AfterAttach(p, ok) == [p EXCEPT !.at = "result"]

Forgotten(p) == [p EXCEPT !.conf = {}, !.limits = [d \in Dirs |-> Off]]

(* The thread may be left in the pod's netns: nobody looks at an error of  *)
(* the restore.                                                            *)
Attached(ok) ==
  \E ns \in {"host", proc.env.netns} \ {"own"} :
    proc' = Forgotten([AfterAttach(proc, ok) EXCEPT !.ns = ns])

(* attachBPF, as Attach has it.  A link needs a file, which a name with a  *)
(* dot, or one that is taken, prevents; a clsact filter needs none, and    *)
(* may stay when the attempt that attached it fails.  The rollback of an   *)
(* attempt that fails may remove the files of an earlier ADD of the        *)
(* container, and with them its links.                                     *)
AttachBPF ==
  LET c == proc.env.id
  IN /\ proc.at = "attach"
     /\ \/ /\ c \notin Dotted
           /\ links' = links \cup {c}
           /\ filters' \in {filters, filters \cup {c}}
           /\ Attached(TRUE)
        \/ /\ filters' = filters \cup {c}
           /\ links' \in {links, links \ {c}}
           /\ Attached(TRUE)
        \/ /\ filters' \in {filters, filters \cup {c}}
           /\ links' \in {links, links \ {c}}
           /\ Attached(FALSE)

(* passthrough: the result of the plugins before natra, which has to be    *)
(* parsed, is the one that is printed; without one an empty result is.     *)
PrintResult ==
  /\ proc.at = "result"
  /\ \E prev \in {"none", "some", "bad"} :
       LET p == Forgotten([proc EXCEPT !.prev = prev])
       IN \/ /\ prev # "bad"
             /\ Step([p EXCEPT !.at = "netns",
                        !.stdout = <<IF prev = "some" THEN "previous" ELSE "minimal">>])
          \/ prev = "bad" /\ Step(Fail(p))
          \/ Step(Fail([p EXCEPT !.fault = "stdout"]))

----------------------------------------------------------------------------
(* Mutant of Matches: the prefix is the ID without the dash. *)
MatchesBare(c, id) == c = id \/ <<c, id>> \in Prefixed

(* The files of c have names that start with the ID and a dash. *)
Matches(c, id) == c = id \/ <<c, id>> \in Dashed

(* cmdDel: any file may refuse to be removed, which fails nothing. *)
CmdDel ==
  /\ proc.at = "del"
  /\ \E refused \in SUBSET links :
       links' = refused \cup {c \in links : ~Matches(c, proc.env.id)}
  /\ proc' = [proc EXCEPT !.at = "netns"]
  /\ UNCHANGED filters

(* After an ADD and a DEL: ns.CheckNetNS, unless it is switched off.  An   *)
(* empty or dead path is taken for a netns that is already gone.           *)
CheckNetNS ==
  /\ proc.at = "netns"
  /\ LET same == \/ proc.env.netns = "own"
                 \/ proc.env.netns = "pod" /\ proc.ns = "pod"
     IN \/ /\ proc.env.override \/ ~same
           /\ Step([proc EXCEPT !.at = "answered"])
        \/ /\ ~proc.env.override
           /\ \/ same /\ Step(Fail([proc EXCEPT !.fault = "netns"]))
              \/ proc.env.netns # "" /\ Step(Fail([proc EXCEPT !.fault = "netns"]))

Answer == proc.at = "answered" /\ Step(Exit(proc, 0))

(* The runtime reads the answer; it removes the interface of a container   *)
(* whose DEL succeeded, and the filters with it.                           *)
Reap ==
  /\ proc.at = "exit"
  /\ proc' = NoProcess
  /\ filters' = IF proc.env.cmd = "DEL" /\ proc.status = 0
                  THEN filters \ {proc.env.id} ELSE filters
  /\ UNCHANGED links

PluginStep ==
  \/ ReadEnv \/ ReadStdin \/ PrintVersions \/ CheckVersion
  \/ ParseConf \/ AttachBPF \/ PrintResult \/ CmdDel \/ CheckNetNS \/ Answer

Next ==
  \/ ExecTools
  \/ \E env \in Env : Start(env)
  \/ PluginStep
  \/ Reap

Spec == Init /\ [][Next]_vars

----------------------------------------------------------------------------
Serving == {"add", "attach", "result", "del", "netns", "answered"}

TypeOK ==
  /\ links \in SUBSET Containers /\ filters \in SUBSET Containers
  /\ proc.at \in {"none", "env", "stdin", "versions", "version", "exit"} \cup Serving
  /\ proc.env \in Env /\ proc.input \in Input
  /\ proc.version \in Versions \cup {Junk}
  /\ proc.conf \in SUBSET Confs /\ proc.limits \in [Dirs -> Limit]
  /\ proc.ns \in {"host", "pod", ""} /\ proc.settings \in {"ok", "bad"}
  /\ proc.prev \in {"none", "some", "bad"}
  /\ proc.fault \in {"none", "tools", "stdout", "netns"}
  /\ proc.status \in -1..1

(* What the protocol wants of a call before any of it is carried out. *)
Valid(p) ==
  /\ p.env.cmd \in {"ADD", "DEL", "CHECK"} =>
       p.env.id \in Containers /\ p.env.ifname = "ok"
  /\ p.env.cmd \in {"ADD", "CHECK"} => p.env.netns # ""
  /\ p.env.cmd \in Commands /\ p.env.cmd # "VERSION" =>
       /\ p.env.path = "ok" /\ p.input = "ok" /\ p.version \in Supported
       /\ p.env.cmd = "CHECK" => p.version >= CheckSince
       /\ p.env.cmd \in {"GC", "STATUS"} => p.version >= GCSince
  /\ p.env.cmd # "other"

(* What may fail an ADD or a DEL after that: what docs/cni-spec.md calls   *)
(* fail-open leaves it to the settings, the previous result and the netns. *)
Sound(p) ==
  /\ p.settings = "ok" /\ p.prev # "bad" /\ p.fault = "none"
  /\ p.env.cmd \in {"ADD", "DEL"} => p.env.netns # "own" \/ p.env.override

(* The text on stdout that goes with success. *)
Expected(p) ==
  CASE p.env.cmd = "VERSION" -> <<"versions">>
    [] p.env.cmd = "ADD"     -> <<IF p.prev = "some" THEN "previous" ELSE "minimal">>
    [] OTHER                 -> <<>>

(* skel.go: no command touches a container before its whole request was    *)
(* found valid; the exit status tells a request that was valid and sound   *)
(* from any other, whatever became of the attachment; a success is         *)
(* answered with the result of the plugins before natra, a failure with    *)
(* one error, which follows a result only if the netns was wrong.          *)
AnswersByTheProtocol ==
  /\ proc.at \in Serving => Valid(proc)
  /\ proc.at = "exit" =>
       /\ (proc.status = 0) <=> (Valid(proc) /\ Sound(proc))
       /\ proc.status = 0 => proc.stdout = Expected(proc)
       /\ proc.status = 1 /\ proc.fault # "tools" =>
            proc.stdout \in {<<"error">>} \cup
              (IF proc.fault = "netns" THEN {Append(Expected(proc), "error")} ELSE {})

(* A container's own ADD, when it rolls back an attempt. *)
OwnAdd(c) == proc.at = "attach" /\ c = proc.env.id

LimitsKept ==
  \A c \in Containers :
    Limited(c) /\ ~Limited(c)' =>
      \/ OwnAdd(c) /\ c \notin filters
      \/ proc.env.cmd = "DEL" /\ (c = proc.env.id \/ <<c, proc.env.id>> \in Dashed)

(* cmdDel, Reap and AttachBPF: no call for another container takes away    *)
(* the limit of this one, but the DEL of one whose ID its own goes on from *)
(* with a dash.  Its own calls do only if they are a DEL, or an ADD that   *)
(* rolls back an attempt: then a tcx link goes, and no clsact filter.      *)
LimitsPersist == [][LimitsKept]_vars

----------------------------------------------------------------------------
(* The bits per second that a direction is given, 0 if by nobody or in a   *)
(* form that cannot be read.                                               *)
Readable(q) == q.factor \in Multipliers /\ q.num * q.factor <= MaxRate

BitsGiven(conf, d) ==
  LET a == conf.annotation[d]
      read == /\ a.form \in {"simple", "json"} /\ Readable(a.rate)
              /\ a.form = "json" => a.burst = Unset \/ Readable(a.burst)
  IN IF conf.bandwidth[d].rate > 0 THEN conf.bandwidth[d].rate
     ELSE IF read THEN a.rate.num * a.rate.factor ELSE 0

GivenBurst(conf, d) ==
  IF conf.bandwidth[d].rate > 0
    THEN conf.bandwidth[d].burst >= BitsPerByte
    ELSE conf.annotation[d].form = "json" /\ conf.annotation[d].burst # Unset

GivenHH(conf, d) ==
  conf.hh > 0 \/ (conf.annotation[d].form = "json" /\ conf.annotation[d].hh > 0)

(* resolveDirectionConfig: the rate of each direction is the one it was    *)
(* given, in bytes, through every suffix and up to the largest number; a   *)
(* direction goes without a limit only if it was given less than a byte.   *)
LimitIsTheOneGiven ==
  \A conf \in proc.conf, d \in Dirs :
    LET limit == proc.limits[d]
    IN /\ limit.on => limit.rate = BitsGiven(conf, d) \div BitsPerByte
       /\ ~limit.on => BitsGiven(conf, d) < BitsPerByte

(* What the BPF program is configured with can be used: nothing negative   *)
(* comes out of an overflow, a burst that nobody gave admits the largest   *)
(* packet and a threshold that nobody gave exceeds small ones, while a     *)
(* burst stays within the ratio unless an annotation gives it.             *)
LimitsAreUsable ==
  \A conf \in proc.conf, d \in {e \in Dirs : proc.limits[e].on} :
    LET limit == proc.limits[d]
        r == BurstRatio(conf)
    IN /\ Validate(limit)
       /\ ~GivenBurst(conf, d) => limit.burst >= MinBurst
       /\ ~GivenHH(conf, d) => limit.hh >= MinHH
       /\ conf.bandwidth[d].rate > 0 \/ ~GivenBurst(conf, d) =>
            limit.burst <= AtLeast(MinBurst, (limit.rate * r.num) \div r.den)

(* main.go on resolveDirectionConfig: "floored at MinBurstBytes so one     *)
(* max-GRO super-packet always fits".                                      *)
BurstFitsAPacket ==
  \A d \in Dirs : proc.limits[d].on => proc.limits[d].burst >= MinBurst

=============================================================================
