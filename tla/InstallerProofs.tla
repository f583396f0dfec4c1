-------------------------- MODULE InstallerProofs ---------------------------
(***************************************************************************)
(* What the installer promises of natra's conflists, for every number of   *)
(* files, and any number of crashes, new settings and changes by upstream. *)
(***************************************************************************)
EXTENDS Installer, WellFoundedInduction, TLAPS

Looping == {"loop", "build", "create", "write", "rename"}
Working == {"build", "create", "write", "rename"}
Writing == {"create", "write", "rename"}

(* had knows what the files hold. *)
Recorded == \A o \in Originals : orig[o] \in had[o]

(* The step's registers: what was read is of the entry, what is written    *)
(* chains natra to it and is not there yet.                                *)
Registers ==
  /\ proc.at \notin {"down", "failed", "install"} => binary = "natra"
  /\ proc.at \in Working =>
       /\ proc.todo # {}
       /\ proc.data \in had[Entry] \cap Chains
       /\ ~disturbed => proc.data = orig[Entry]
  /\ proc.at \in Writing =>
       /\ env \in Valid
       /\ proc.out = Chain(proc.data, env)
       /\ sib[Entry] # proc.out
  /\ proc.at = "rename" => tmp[Entry] = proc.out

(* While upstream holds still, the entries behind the loop are done. *)
Behind ==
  proc.at \in Looping /\ ~disturbed =>
    \A o \in Originals \ proc.todo :
      orig[o] # Absent =>
        env \in Valid /\ orig[o] \in Chains /\ sib[o] = Chain(orig[o], env)

IInv == /\ TypeOK /\ Recorded /\ Registers
        /\ SiblingsAreChained /\ Behind /\ DoneMeansChained

----------------------------------------------------------------------------
LEMMA LeastExists ==
  ASSUME NEW S \in SUBSET Originals, S # {}
  PROVE  \E o \in S : \A p \in S : o <= p
<1> DEFINE R == OpToRel(<, Nat)
<1>1. S \subseteq Nat
  BY InstallerAssumption DEF Originals
<1>2. PICK o \in S : \A p \in S : ~(<<p, o>> \in R)
  BY <1>1, NatLessThanWellFounded, WFMin
<1>3. \A p \in S : ~(p < o)
  BY <1>1, <1>2 DEF OpToRel
<1> QED
  BY <1>1, <1>3

LEMMA FirstIsLeast ==
  ASSUME NEW S \in SUBSET Originals, S # {}
  PROVE  First(S) \in S /\ \A p \in S : First(S) <= p
  BY LeastExists DEF First

LEMMA FirstIsUnique ==
  ASSUME NEW S \in SUBSET Originals, NEW o \in S, \A p \in S : o <= p
  PROVE  First(S) = o
<1>1. First(S) \in S /\ \A p \in S : First(S) <= p
  BY FirstIsLeast
<1>2. S \subseteq Int
  BY InstallerAssumption DEF Originals
<1>3. ASSUME NEW x \in S, NEW y \in S, x <= y, y <= x PROVE x = y
  BY <1>2, <1>3
<1> QED
  BY <1>1, <1>3, Zenon

LEMMA EntryIsLeast ==
  ASSUME TypeOK, proc.todo # {}
  PROVE  /\ Entry \in proc.todo /\ Entry \in Originals
         /\ \A p \in proc.todo : Entry <= p
<1>1. proc.todo \in SUBSET Originals
  BY DEF TypeOK
<1>2. Entry = First(proc.todo)
  BY DEF Entry, First
<1> QED
  BY <1>1, <1>2, FirstIsLeast

(* What is written is one of the siblings there may be. *)
LEMMA ChainIsSibling ==
  ASSUME NEW c \in Chains, NEW e \in Valid
  PROVE  Chain(c, e) \in Siblings /\ Chain(c, e) # Absent /\ Chain(c, e) # Torn
  BY InstallerAssumption DEF Siblings

LEMMA EntryStays ==
  ASSUME proc'.todo = proc.todo
  PROVE  Entry' = Entry
  BY DEF Entry

LEMMA InitIInv == Init => IInv
<1> SUFFICES ASSUME Init PROVE IInv
  OBVIOUS
<1> USE DEF Init, Idle
<1>1. TypeOK
  <2>1. /\ orig \in [Originals -> {Absent} \cup Upstream]
        /\ had \in [Originals -> SUBSET ({Absent} \cup Upstream)]
    <3>1. orig \in [Originals -> {Absent} \cup Upstream]
      BY DEF Upstream
    <3>2. \A o \in Originals : {orig[o]} \in SUBSET ({Absent} \cup Upstream)
      BY <3>1
    <3> QED
      BY <3>1, <3>2
  <2>2. /\ sib \in [Originals -> {Absent, Torn} \cup Siblings]
        /\ tmp \in [Originals -> {Absent, Torn} \cup Siblings]
        /\ binary \in {Absent, Torn, "natra"} /\ env \in Envs
        /\ disturbed \in BOOLEAN
    OBVIOUS
  <2>3. count \in [writes : 0..MaxWrites, faults : 0..MaxFaults,
                   rollouts : 0..MaxRollouts]
    BY InstallerAssumption
  <2>4. proc \in [at : {"down", "install", "wait", "list", "loop", "build", "create",
                        "write", "rename", "done", "failed"},
                  todo : SUBSET Originals,
                  data : {Absent} \cup Chains, out : {Absent} \cup Siblings]
    OBVIOUS
  <2> QED
    BY <2>1, <2>2, <2>3, <2>4, Zenon DEF TypeOK
<1>2. Recorded /\ Registers /\ SiblingsAreChained /\ Behind /\ DoneMeansChained
  BY DEF Recorded, Registers, SiblingsAreChained, Behind, DoneMeansChained, Working, Writing, Looping
<1> QED
  BY <1>1, <1>2 DEF IInv

(* The entry's chain is a value that a file of natra's may have. *)
LEMMA OutIsSibling ==
  ASSUME IInv, proc.at = "build", env \in Valid
  PROVE  Chain(proc.data, env) \in Siblings
  BY ChainIsSibling DEF IInv, Registers, Working

LEMMA NextEntryTyped ==
  ASSUME TypeOK
  PROVE  NextEntry \in [at : {"down", "install", "wait", "list", "loop", "build",
                              "create", "write", "rename", "done", "failed"},
                        todo : SUBSET Originals,
                        data : {Absent} \cup Chains, out : {Absent} \cup Siblings]
  BY DEF TypeOK, NextEntry

(* An update of two fields stays a record of its type. *)
LEMMA Updates ==
  ASSUME NEW A, NEW T, NEW D, NEW O, NEW a \in A,
         NEW r \in [at : A, todo : T, data : D, out : O]
  PROVE  /\ \A t \in T : [r EXCEPT !.at = a, !.todo = t]
                           \in [at : A, todo : T, data : D, out : O]
         /\ \A d \in D : [r EXCEPT !.at = a, !.data = d]
                           \in [at : A, todo : T, data : D, out : O]
         /\ \A o \in O : [r EXCEPT !.at = a, !.out = o]
                           \in [at : A, todo : T, data : D, out : O]
<1>1. ASSUME NEW t \in T
      PROVE  [r EXCEPT !.at = a, !.todo = t] \in [at : A, todo : T, data : D, out : O]
  OBVIOUS
<1>2. ASSUME NEW d \in D
      PROVE  [r EXCEPT !.at = a, !.data = d] \in [at : A, todo : T, data : D, out : O]
  OBVIOUS
<1>3. ASSUME NEW o \in O
      PROVE  [r EXCEPT !.at = a, !.out = o] \in [at : A, todo : T, data : D, out : O]
  OBVIOUS
<1> QED
  BY <1>1, <1>2, <1>3

LEMMA TypeStep == IInv /\ [Next]_vars => TypeOK'
<1> SUFFICES ASSUME IInv, [Next]_vars PROVE TypeOK'
  OBVIOUS
<1> USE DEF IInv
<1> DEFINE Ats == {"down", "install", "wait", "list", "loop", "build", "create",
                   "write", "rename", "done", "failed"}
           Procs == [at : Ats, todo : SUBSET Originals,
                     data : {Absent} \cup Chains, out : {Absent} \cup Siblings]
<1>0. /\ Idle \in Procs /\ NextEntry \in Procs /\ proc \in Procs
      /\ [Idle EXCEPT !.at = "failed"] \in Procs /\ [Idle EXCEPT !.at = "done"] \in Procs
      /\ \A at \in Ats : [proc EXCEPT !.at = at] \in Procs
  <2>1. NextEntry \in Procs /\ proc \in Procs
    BY NextEntryTyped DEF TypeOK
  <2>2. Idle \in Procs
    BY DEF Idle
  <2> QED
    BY <2>1, <2>2
<1>a. ASSUME NEW at \in Ats
      PROVE  /\ \A t \in SUBSET Originals : [proc EXCEPT !.at = at, !.todo = t] \in Procs
             /\ \A d \in {Absent} \cup Chains :
                  [proc EXCEPT !.at = at, !.data = d] \in Procs
             /\ \A o \in {Absent} \cup Siblings :
                  [proc EXCEPT !.at = at, !.out = o] \in Procs
  <2> HIDE DEF Ats
  <2> QED
    BY <1>0, Updates, Zenon
<1>b. {"loop", "build", "create"} \subseteq Ats
  OBVIOUS
<1>1. CASE Start
  <2>1. proc' \in Procs /\ binary' \in {Absent, Torn, "natra"}
    BY <1>0, <1>1 DEF Start, Goto
  <2> QED
    BY <1>1, <2>1 DEF TypeOK, Start, World
<1>2. CASE InstallBinary
  <2>1. proc' \in Procs /\ binary' \in {Absent, Torn, "natra"}
    BY <1>0, <1>2 DEF InstallBinary, Goto
  <2> QED
    BY <1>2, <2>1 DEF TypeOK, InstallBinary, World
<1>3. CASE Wait
  <2>1. proc' \in Procs
    BY <1>0, <1>3 DEF Wait, Goto
  <2> QED
    BY <1>3, <2>1 DEF TypeOK, Wait, World, Files
<1>4. CASE ReadDir
  <2>1. proc' \in Procs
    <3> DEFINE todo == {o \in Originals : orig[o] # Absent}
    <3>1. todo \in SUBSET Originals
      OBVIOUS
    <3> HIDE DEF Ats, Procs
    <3>2. [proc EXCEPT !.at = "loop", !.todo = todo] \in Procs
      BY <1>a, <1>b, <3>1, Zenon
    <3> QED
      BY <1>4, <3>2, Zenon DEF ReadDir
  <2> QED
    BY <1>4, <2>1 DEF TypeOK, ReadDir, Files
<1>5. CASE ReadFile
  <2>1. proc' \in Procs
    <3> HIDE DEF Ats, Procs
    <3>1. CASE orig[Entry] \in Chains
      <4>1. [proc EXCEPT !.at = "build", !.data = orig[Entry]] \in Procs
        BY <1>a, <1>b, <3>1, Zenon
      <4> QED
        BY <1>5, <3>1, <4>1, Zenon DEF ReadFile
    <3>2. CASE orig[Entry] \notin Chains
      BY <1>0, <1>5, <3>2, Zenon DEF ReadFile, Failed
    <3> QED
      BY <3>1, <3>2
  <2> QED
    BY <1>5, <2>1 DEF TypeOK, ReadFile, World, Files
<1>6. CASE Finish
  <2>1. proc' \in Procs
    BY <1>0, <1>6 DEF Finish
  <2> QED
    BY <1>6, <2>1 DEF TypeOK, Finish, World, Files
<1>7. CASE Build
  <2>1. proc' \in Procs
    <3> HIDE DEF Ats, Procs
    <3>1. CASE env \in Valid
      <4>1. [proc EXCEPT !.at = "create", !.out = Chain(proc.data, env)] \in Procs
        BY <1>7, <1>a, <1>b, <3>1, OutIsSibling, Zenon DEF Build
      <4> QED
        BY <1>0, <1>7, <3>1, <4>1, Zenon DEF Build
    <3>2. CASE env \notin Valid
      BY <1>0, <1>7, <3>2, Zenon DEF Build, Failed
    <3> QED
      BY <3>1, <3>2
  <2> QED
    BY <1>7, <2>1 DEF TypeOK, Build, World, Files
<1>8. CASE CreateTemp
  <2>1. proc' \in Procs
    BY <1>0, <1>8 DEF CreateTemp, Goto, Failed
  <2>2. tmp' \in [Originals -> {Absent, Torn} \cup Siblings]
    BY <1>8 DEF TypeOK, CreateTemp
  <2> QED
    BY <1>8, <2>1, <2>2 DEF TypeOK, CreateTemp, World
<1>9. CASE WriteTemp
  <2>1. proc' \in Procs
    BY <1>0, <1>9 DEF WriteTemp, Goto
  <2>2. proc.out \in Siblings
    BY <1>9, ChainIsSibling DEF WriteTemp, Registers, Working, Writing
  <2>3. tmp' \in [Originals -> {Absent, Torn} \cup Siblings]
    BY <1>9, <2>2 DEF TypeOK, WriteTemp
  <2> QED
    BY <1>9, <2>1, <2>3 DEF TypeOK, WriteTemp, World
<1>10. CASE Rename
  <2>1. proc' \in Procs
    BY <1>0, <1>10 DEF Rename
  <2>2. Entry \in Originals
    BY <1>10, EntryIsLeast DEF Rename, Registers, Working
  <2>3. /\ sib' \in [Originals -> {Absent, Torn} \cup Siblings]
        /\ tmp' \in [Originals -> {Absent, Torn} \cup Siblings]
    BY <1>10, <2>2 DEF TypeOK, Rename
  <2> QED
    BY <1>10, <2>1, <2>3 DEF TypeOK, Rename, World
<1>11. CASE WriteFails \/ Crash
  <2>1. proc' \in Procs
    BY <1>0, <1>11 DEF WriteFails, Crash, Failed
  <2>2. tmp' \in [Originals -> {Absent, Torn} \cup Siblings]
    BY <1>11 DEF TypeOK, WriteFails, Crash
  <2>3. count' \in [writes : 0..MaxWrites, faults : 0..MaxFaults,
                    rollouts : 0..MaxRollouts]
    BY <1>11, InstallerAssumption DEF TypeOK, WriteFails, Crash, Fault
  <2> QED
    BY <1>11, <2>1, <2>2, <2>3 DEF TypeOK, WriteFails, Crash, Fault
<1>12. CASE Rollout
  <2>1. proc' \in Procs /\ env' \in Envs
    BY <1>0, <1>12 DEF Rollout
  <2>2. count' \in [writes : 0..MaxWrites, faults : 0..MaxFaults,
                    rollouts : 0..MaxRollouts]
    BY <1>12, InstallerAssumption DEF TypeOK, Rollout
  <2> QED
    BY <1>12, <2>1, <2>2 DEF TypeOK, Rollout, Files
<1>13. ASSUME NEW o \in Originals, NEW c \in {Absent} \cup Upstream, Holds(o, c)
       PROVE  /\ orig' \in [Originals -> {Absent} \cup Upstream]
              /\ had' \in [Originals -> SUBSET ({Absent} \cup Upstream)]
              /\ sib' = sib
  BY <1>13 DEF TypeOK, Holds
<1>14. ASSUME Writes
       PROVE  /\ count' \in [writes : 0..MaxWrites, faults : 0..MaxFaults,
                             rollouts : 0..MaxRollouts]
              /\ disturbed' \in BOOLEAN
              /\ UNCHANGED <<tmp, binary, env, proc>>
  BY <1>14, InstallerAssumption DEF TypeOK, Writes
<1>15. CASE \E o \in Originals : Replace(o) \/ Remove(o)
  BY <1>13, <1>14, <1>15 DEF TypeOK, Replace, Remove
<1>16. CASE \E o \in Originals : CompleteWrite(o)
  BY <1>13, <1>16 DEF TypeOK, CompleteWrite, Upstream
<1>17. CASE \E o \in Originals : TakeSibling(o)
  <2>1. sib' \in [Originals -> {Absent, Torn} \cup Siblings]
    BY <1>17 DEF TypeOK, TakeSibling
  <2> QED
    BY <1>14, <1>17, <2>1 DEF TypeOK, TakeSibling
<1>18. CASE UNCHANGED vars
  BY <1>18 DEF TypeOK, vars
<1> QED
  BY <1>1, <1>2, <1>3, <1>4, <1>5, <1>6, <1>7, <1>8, <1>9, <1>10, <1>11, <1>12,
     <1>15, <1>16, <1>17, <1>18 DEF Next, Run

(* Steps that leave the conflists alone. *)
LEMMA FilesStay ==
  ASSUME IInv, UNCHANGED <<orig, sib, had>>
  PROVE  Recorded' /\ SiblingsAreChained'
  BY DEF IInv, Recorded, SiblingsAreChained

(* Steps of the init container that do not reach a conflist of natra's. *)
LEMMA ProcStep ==
  ASSUME IInv,
         Start \/ InstallBinary \/ Wait \/ ReadDir \/ ReadFile \/ Finish \/ Build
           \/ CreateTemp \/ WriteTemp \/ WriteFails \/ Crash \/ Rollout
  PROVE  Recorded' /\ Registers' /\ SiblingsAreChained' /\ Behind' /\ DoneMeansChained'
<1> USE DEF IInv
<1>a. UNCHANGED <<orig, sib, had>>
  BY DEF Start, InstallBinary, Wait, ReadDir, ReadFile, Finish, Build, CreateTemp,
         WriteTemp, WriteFails, Crash, Rollout, Fault, World, Files
<1>b. Recorded' /\ SiblingsAreChained'
  BY <1>a, FilesStay
<1>c. proc.todo # {} => Entry \in Originals /\ Entry \in proc.todo
  BY EntryIsLeast
<1>1. CASE Start \/ InstallBinary \/ Wait
  <2>1. proc'.at \in {"install", "wait", "list"}
        /\ (proc'.at # "install" => binary' = "natra")
    BY <1>1 DEF TypeOK, Start, InstallBinary, Wait, Goto, Registers, Files
  <2> QED
    BY <1>b, <2>1 DEF Registers, Behind, DoneMeansChained, Working, Writing, Looping
<1>2. CASE ReadDir
  <2>1. /\ proc'.at = "loop" /\ proc'.todo = {o \in Originals : orig[o] # Absent}
        /\ binary' = "natra" /\ orig' = orig
    BY <1>2 DEF TypeOK, ReadDir, Registers, Files
  <2> QED
    BY <1>b, <2>1 DEF Registers, Behind, DoneMeansChained, Working, Writing, Looping
<1>3. CASE ReadFile
  <2>1. CASE orig[Entry] \in Chains
    <3>1. /\ proc'.at = "build" /\ proc'.todo = proc.todo /\ proc.todo # {}
          /\ proc'.data = orig[Entry] /\ proc.at = "loop"
          /\ UNCHANGED <<orig, sib, had, binary, env, disturbed>>
      BY <1>3, <2>1 DEF TypeOK, ReadFile, World, Files
    <3>2. Entry' = Entry
      BY <3>1, EntryStays
    <3>3. Registers'
      BY <1>c, <2>1, <3>1, <3>2 DEF Registers, Working, Writing, Recorded
    <3> QED
      BY <1>b, <3>1, <3>3 DEF Behind, DoneMeansChained, Looping
  <2>2. CASE orig[Entry] \notin Chains
    <3>1. proc'.at = "failed"
      BY <1>3, <2>2 DEF ReadFile, Failed, Idle
    <3> QED
      BY <1>b, <3>1 DEF Registers, Behind, DoneMeansChained, Working, Writing, Looping
  <2> QED
    BY <2>1, <2>2
<1>4. CASE Finish
  <2>1. /\ proc.at = "loop" /\ proc.todo = {} /\ proc'.at = "done"
        /\ UNCHANGED <<orig, sib, env, disturbed, binary>>
    BY <1>4 DEF Finish, Idle, World, Files
  <2>2. Registers'
    BY <2>1 DEF Registers, Working, Writing
  <2>3. Behind' /\ DoneMeansChained'
    BY <2>1 DEF Behind, DoneMeansChained, Looping
  <2> QED
    BY <1>b, <2>2, <2>3
<1>5. CASE Build
  <2>a. /\ proc.at = "build" /\ UNCHANGED <<orig, sib, had, binary, env, disturbed, tmp>>
        /\ proc.todo # {} /\ proc.data \in had[Entry] \cap Chains
        /\ (~disturbed => proc.data = orig[Entry]) /\ binary = "natra"
    BY <1>5 DEF Build, Registers, Working, World, Files
  <2>1. CASE proc'.at = "failed"
    BY <1>b, <2>1 DEF Registers, Behind, DoneMeansChained, Working, Writing, Looping
  <2>2. CASE env \in Valid /\ UpToDate(Entry, Chain(proc.data, env)) /\ proc' = NextEntry
    <3>1. /\ proc'.at = "loop" /\ proc'.todo = proc.todo \ {Entry}
          /\ sib[Entry] = Chain(proc.data, env)
      BY <2>2 DEF TypeOK, NextEntry, UpToDate
    <3>2. Registers'
      BY <2>a, <3>1 DEF Registers, Working, Writing
    <3>3. Behind' /\ DoneMeansChained'
      BY <2>a, <2>2, <3>1 DEF Behind, DoneMeansChained, Looping
    <3> QED
      BY <1>b, <3>2, <3>3
  <2>3. CASE /\ env \in Valid /\ ~UpToDate(Entry, Chain(proc.data, env))
             /\ proc' = [proc EXCEPT !.at = "create", !.out = Chain(proc.data, env)]
    <3>1. /\ proc'.at = "create" /\ proc'.todo = proc.todo /\ proc'.data = proc.data
          /\ proc'.out = Chain(proc.data, env) /\ sib[Entry] # Chain(proc.data, env)
      BY <2>3 DEF TypeOK, UpToDate
    <3>2. Entry' = Entry
      BY <3>1, EntryStays
    <3>3. Registers'
      BY <2>a, <2>3, <3>1, <3>2 DEF Registers, Working, Writing
    <3>4. Behind' /\ DoneMeansChained'
      BY <2>a, <3>1 DEF Behind, DoneMeansChained, Looping
    <3> QED
      BY <1>b, <3>3, <3>4
  <2> QED
    BY <1>5, <2>1, <2>2, <2>3 DEF Build, Failed, Idle
<1>6. CASE (CreateTemp \/ WriteTemp) /\ proc'.at # "failed"
  <2>1. /\ proc.at \in {"create", "write"} /\ proc'.at \in {"write", "rename"}
        /\ UNCHANGED <<proc.todo, proc.data, proc.out>>
        /\ UNCHANGED <<orig, sib, had, binary, env, disturbed>>
        /\ (proc'.at = "rename" => tmp' = [tmp EXCEPT ![Entry] = proc.out])
    BY <1>6 DEF TypeOK, CreateTemp, WriteTemp, Goto, CanCreate, World
  <2>2. Entry' = Entry
    BY <2>1, EntryStays
  <2>3. proc'.at = "rename" => tmp'[Entry] = proc.out
    BY <1>c, <2>1 DEF TypeOK, Registers, Working
  <2>4. Registers'
    BY <2>1, <2>2, <2>3 DEF Registers, Working, Writing
  <2>5. Behind' /\ DoneMeansChained'
    BY <2>1 DEF Behind, DoneMeansChained, Looping
  <2> QED
    BY <1>b, <2>4, <2>5
<1>7. CASE proc'.at \in {"down", "failed"}
  BY <1>b, <1>7 DEF Registers, Behind, DoneMeansChained, Working, Writing, Looping
<1> QED
  BY <1>1, <1>2, <1>3, <1>4, <1>5, <1>6, <1>7 DEF WriteFails, Crash, Rollout, Failed, Idle

(* The rename is the only step that writes a conflist of natra's. *)
LEMMA RenameStep ==
  ASSUME IInv, Rename
  PROVE  Recorded' /\ Registers' /\ SiblingsAreChained' /\ Behind' /\ DoneMeansChained'
<1> USE DEF IInv
<1>1. /\ proc.at = "rename" /\ proc.todo # {} /\ Entry \in Originals
      /\ proc.data \in had[Entry] \cap Chains /\ env \in Valid
      /\ tmp[Entry] = Chain(proc.data, env)
      /\ (~disturbed => proc.data = orig[Entry])
  BY EntryIsLeast DEF Rename, Registers, Working, Writing
<1>2. /\ sib' = [sib EXCEPT ![Entry] = Chain(proc.data, env)]
      /\ proc'.at = "loop" /\ proc'.todo = proc.todo \ {Entry}
      /\ UNCHANGED <<orig, binary, env, had, disturbed>>
  BY <1>1 DEF TypeOK, Rename, NextEntry, World
<1>3. /\ sib'[Entry] = Chain(proc.data, env)
      /\ \A o \in Originals \ {Entry} : sib'[o] = sib[o]
  BY <1>1, <1>2 DEF TypeOK
<1>4. Recorded'
  BY <1>2 DEF Recorded
<1>5. Registers'
  BY <1>1, <1>2 DEF Registers, Working, Writing
<1>6. SiblingsAreChained'
  BY <1>1, <1>2, <1>3 DEF SiblingsAreChained
<1>7. Behind'
  BY <1>1, <1>2, <1>3, Zenon DEF Behind, Looping
<1>8. DoneMeansChained'
  BY <1>2 DEF DoneMeansChained
<1> QED
  BY <1>4, <1>5, <1>6, <1>7, <1>8

(* Whatever upstream does makes the loop's work disturbed. *)
LEMMA UpstreamStep ==
  ASSUME IInv, NEW o \in Originals,
         Replace(o) \/ Remove(o) \/ CompleteWrite(o) \/ TakeSibling(o)
  PROVE  Recorded' /\ Registers' /\ SiblingsAreChained' /\ Behind' /\ DoneMeansChained'
<1> USE DEF IInv
<1>1. disturbed' = TRUE /\ UNCHANGED <<tmp, binary, env, proc>>
  BY DEF Replace, Remove, CompleteWrite, TakeSibling, Writes
<1>2. Entry' = Entry
  BY <1>1, EntryStays
<1>3. Behind' /\ DoneMeansChained'
  BY <1>1 DEF Behind, DoneMeansChained
<1>4. proc.todo # {} => Entry \in Originals
  BY EntryIsLeast
<1>5. CASE \E c \in {Absent} \cup Upstream : Holds(o, c)
  <2>1. /\ sib' = sib
        /\ \A p \in Originals : had[p] \subseteq had'[p]
        /\ \A p \in Originals : orig'[p] \in had'[p]
    BY <1>5 DEF Holds, TypeOK, Recorded
  <2>2. Recorded' /\ SiblingsAreChained'
    BY <2>1 DEF Recorded, SiblingsAreChained
  <2>3. Registers'
    BY <1>1, <1>2, <1>4, <2>1 DEF Registers, Working, Writing
  <2> QED
    BY <1>3, <2>2, <2>3
<1>6. CASE TakeSibling(o)
  <2>1. /\ UNCHANGED <<orig, had>> /\ sib'[o] = Absent
        /\ \A p \in Originals \ {o} : sib'[p] = sib[p]
    BY <1>6 DEF TakeSibling, TypeOK
  <2>2. Recorded' /\ SiblingsAreChained'
    BY <2>1 DEF Recorded, SiblingsAreChained
  <2>3. proc.at \in Writing => proc.out # Absent
    BY ChainIsSibling DEF Registers, Working, Writing
  <2>4. Registers'
    BY <1>1, <1>2, <1>4, <2>1, <2>3 DEF Registers, Working, Writing
  <2> QED
    BY <1>3, <2>2, <2>4
<1> QED
  BY <1>5, <1>6 DEF Replace, Remove, CompleteWrite, Upstream

LEMMA StepIInv == IInv /\ [Next]_vars => IInv'
<1> SUFFICES ASSUME IInv, [Next]_vars PROVE IInv'
  OBVIOUS
<1>1. CASE UNCHANGED vars
  <2>1. Recorded' /\ SiblingsAreChained'
    BY <1>1, FilesStay DEF vars
  <2>2. Entry' = Entry
    BY <1>1, EntryStays DEF vars
  <2>3. Registers' /\ Behind' /\ DoneMeansChained'
    BY <1>1, <2>2 DEF IInv, vars, Registers, Behind, DoneMeansChained
  <2> QED
    BY <2>1, <2>3, TypeStep DEF IInv
<1>2. CASE Next
  BY <1>2, TypeStep, ProcStep, RenameStep, UpstreamStep, Zenon DEF Next, Run, IInv
<1> QED
  BY <1>1, <1>2

LEMMA Invariance == Spec => []IInv
  BY InitIInv, StepIInv, PTL DEF Spec

----------------------------------------------------------------------------
(* TypeOK holds for every number of files and changes. *)
THEOREM TypeCorrect == Spec => []TypeOK
  BY Invariance, PTL DEF IInv

(* writeChainedSibling: at every moment, containerd finds under natra's     *)
(* name no file or a whole chain of a list that the original has held.     *)
THEOREM SiblingsChained == Spec => []SiblingsAreChained
  BY Invariance, PTL DEF IInv

(* installCNIChain: a run that succeeds undisturbed has chained every       *)
(* original, with the settings in force.                                   *)
THEOREM DoneChained == Spec => []DoneMeansChained
  BY Invariance, PTL DEF IInv

(* writeChainedSibling: no rename writes what is there already, nor before *)
(* the plugin is installed.                                                *)
THEOREM NoReloadInVain == Spec => NoIdleReload
<1>1. ASSUME IInv, Rename PROVE sib' # sib /\ binary = "natra"
  <2>1. /\ binary = "natra" /\ tmp[Entry] = proc.out /\ sib[Entry] # proc.out
        /\ Entry \in Originals
    BY <1>1, EntryIsLeast DEF IInv, Registers, Rename, Working, Writing
  <2>2. sib'[Entry] = proc.out
    BY <1>1, <2>1 DEF IInv, TypeOK, Rename
  <2> QED
    BY <2>1, <2>2
<1>2. IInv => [Rename => sib' # sib /\ binary = "natra"]_vars
  BY <1>1
<1> QED
  BY <1>2, Invariance, PTL DEF NoIdleReload

(* installCNIChain: an undisturbed rename that changes the conflist        *)
(* containerd loads makes it the chain of upstream's first one, and an     *)
(* undisturbed run ends with that one, or with one whose original is gone. *)
THEOREM DetourIsNone == Spec => NoDetour
<1> DEFINE Ours == {o \in Originals : sib[o] # Absent}
           Step == ~disturbed =>
                     /\ Rename /\ Pick' # Pick => Pick' = First(Present)
                     /\ Finish /\ Present # {} =>
                          Pick = First(Present) \/ orig[Pick] = Absent
<1> USE DEF Present
<1>1. ASSUME IInv, Rename, ~disturbed, Pick' # Pick
      PROVE  Pick' = First(Present)
  <2>1. /\ proc.at = "rename" /\ proc.todo # {} /\ Entry \in Originals
        /\ \A p \in proc.todo : Entry <= p
        /\ orig[Entry] \in Chains /\ env \in Valid /\ tmp[Entry] = proc.out
        /\ proc.out = Chain(proc.data, env) /\ proc.data \in Chains
    BY <1>1, EntryIsLeast DEF IInv, Registers, Rename, Working, Writing
  <2>2. orig[Entry] # Absent /\ proc.out # Absent
    BY <2>1, ChainIsSibling, InstallerAssumption
  <2>3. Ours' = Ours \cup {Entry}
    BY <1>1, <2>1, <2>2 DEF IInv, TypeOK, Rename
  <2>4. /\ First(Ours') \in Ours' /\ \A p \in Ours' : First(Ours') <= p
        /\ Pick' = First(Ours')
    BY <2>3, FirstIsLeast DEF Pick
  <2>5. CASE First(Ours') = Entry
    <3>1. \A p \in Present \ proc.todo : p \in Ours
      BY <1>1, <2>1, ChainIsSibling DEF IInv, Behind, Looping
    <3>2. \A p \in Present : Entry <= p
      BY <2>1, <2>3, <2>4, <2>5, <3>1
    <3>3. Entry \in Present
      BY <2>1, <2>2
    <3>4. First(Present) = Entry
      BY <3>2, <3>3, FirstIsUnique
    <3> QED
      BY <2>4, <2>5, <3>4
  <2>6. CASE First(Ours') # Entry
    <3>1. First(Ours') \in Ours /\ \A p \in Ours : First(Ours') <= p
      BY <2>3, <2>4, <2>6
    <3>2. First(Ours) = First(Ours')
      BY <3>1, FirstIsUnique
    <3>3. Pick = First(Ours)
      BY <3>1 DEF Pick
    <3> QED
      BY <1>1, <2>4, <3>2, <3>3
  <2> QED
    BY <2>5, <2>6
<1>2. ASSUME IInv, Finish, ~disturbed, Present # {}
      PROVE  Pick = First(Present) \/ orig[Pick] = Absent
  <2>1. proc.at = "loop" /\ proc.todo = {}
    BY <1>2 DEF Finish
  <2>2. Present \subseteq Ours
    BY <1>2, <2>1, ChainIsSibling DEF IInv, Behind, Looping
  <2>3. Ours # {} /\ Ours \subseteq Originals
    BY <1>2, <2>2
  <2>4. Pick \in Ours /\ \A p \in Ours : Pick <= p
    BY <2>3, FirstIsLeast DEF Pick
  <2>5. CASE Pick \in Present
    <3>1. \A p \in Present : Pick <= p
      BY <2>2, <2>4
    <3> QED
      BY <2>5, <3>1, FirstIsUnique
  <2>6. CASE Pick \notin Present
    BY <2>3, <2>4, <2>6
  <2> QED
    BY <2>5, <2>6
<1>3. IInv => [Step]_vars
  BY <1>1, <1>2
<1> QED
  BY <1>3, Invariance, PTL DEF NoDetour
=============================================================================
