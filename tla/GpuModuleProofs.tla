-------------------------- MODULE GpuModuleProofs ---------------------------
(***************************************************************************)
(* Whatever the number of processes and of runs, and whatever machines and *)
(* flags there are: a module that a process links is whole, and new if     *)
(* --recompile asks for it.  Only complete files are ever renamed, and no  *)
(* way to the link but the rename is open to --recompile.                  *)
(***************************************************************************)
EXTENDS GpuModule, TLAPS

Domains ==
    /\ DOMAIN dso = Module
    /\ DOMAIN pc = Process /\ DOMAIN mod = Process /\ DOMAIN flags = Process
    /\ DOMAIN tmp = Process /\ DOMAIN placed = Process
    /\ \A p \in Process : pc[p] # "idle" => mod[p] \in Module

OnlyWhole ==
    /\ \A m \in Module : dso[m] # None => dso[m].whole
    /\ \A p \in Process : pc[p] \in {"rename", "install"} => tmp[p].whole

OnlyNew ==
    \A p \in Process :
        pc[p] = "link" /\ flags[p].recompile /\ ~flags[p].nocompile => mod[p] \in placed[p]

IInv == Domains /\ OnlyWhole /\ OnlyNew

\* What a process does that neither renames a file nor is about to.
Elsewhere(p) ==
    /\ \E where : where \notin {"rename", "install", "link"} /\ Goto(p, where)
    /\ DOMAIN mod' = Process /\ DOMAIN flags' = Process /\ DOMAIN tmp' = Process
    /\ DOMAIN placed' = Process
    /\ pc'[p] = "idle" \/ mod'[p] \in Module
    /\ \A q \in Process \ {p} :
           /\ mod'[q] = mod[q] /\ flags'[q] = flags[q] /\ tmp'[q] = tmp[q]
           /\ placed'[q] = placed[q]
    /\ UNCHANGED dso

-----------------------------------------------------------------------------
LEMMA InitIInv == Init => IInv
BY DEF Init, IInv, Domains, OnlyWhole, OnlyNew, Module

LEMMA ElsewhereIInv ==
    ASSUME IInv, NEW p \in Process, Elsewhere(p)
    PROVE  IInv'
BY DEF Elsewhere, Goto, IInv, Domains, OnlyWhole, OnlyNew

\* The end of a run, and another module to try, are elsewhere.
LEMMA DoneElsewhere ==
    ASSUME IInv, NEW p \in Process, Done(p) \/ GiveUp(p) \/ Fail(p), UNCHANGED dso,
           UNCHANGED tmp \/ tmp' = [tmp EXCEPT ![p] = None],
           UNCHANGED placed \/ placed' = [placed EXCEPT ![p] = {}]
    PROVE  Elsewhere(p)
BY DEF Done, GiveUp, Fail, TryCuda, choice, Goto, Elsewhere, IInv, Domains, Module

LEMMA NextIInv == IInv /\ [Next]_vars => IInv'
<1> SUFFICES ASSUME IInv, [Next]_vars PROVE IInv'
  OBVIOUS
<1> USE DEF Goto, At, choice, disk, Module
<1>1. ASSUME NEW p \in Process, Begin(p) PROVE IInv'
  <2>1. PICK f \in Request : TryMetal(p, f) \/ TryCuda(p, f)
    BY <1>1 DEF Begin
  <2>2. UNCHANGED <<dso, tmp>> /\ placed' = [placed EXCEPT ![p] = {}]
    BY <1>1 DEF Begin
  <2>3. CASE TryMetal(p, f)
    BY <2>2, <2>3 DEF TryMetal, IInv, Domains, OnlyWhole, OnlyNew
  <2>4. CASE TryCuda(p, f)
    <3>1. Elsewhere(p)
      BY <2>2, <2>4 DEF TryCuda, Done, Elsewhere, IInv, Domains
    <3> QED
      BY <3>1, ElsewhereIInv
  <2> QED
    BY <2>1, <2>3, <2>4
<1>2. ASSUME NEW p \in Process,
             Compare(p) \/ Extract(p) \/ Replace(p) \/ CompileBegins(p) \/ CompileAgain(p)
      PROVE  IInv'
  <2>1. Elsewhere(p)
    BY <1>2 DEF Compare, Extract, Replace, CompileBegins, CompileAgain, NextFile, Elsewhere,
                IInv, Domains
  <2> QED
    BY <2>1, ElsewhereIInv
<1>3. ASSUME NEW p \in Process, SourceFails(p) \/ SettleFails(p) \/ Link(p) \/ Killed(p)
      PROVE  IInv'
  <2>1. Elsewhere(p)
    BY <1>3, DoneElsewhere DEF SourceFails, SettleFails, Link, Killed
  <2> QED
    BY <2>1, ElsewhereIInv
<1>4. ASSUME NEW p \in Process,
             CompileFails(p) \/ Bundle(p) \/ UnpackFails(p) \/ LinkFails(p)
      PROVE  IInv'
  <2>1. CASE GiveUp(p)
    BY <1>4, <2>1, DoneElsewhere, ElsewhereIInv
    DEF CompileFails, Bundle, UnpackFails, LinkFails
  <2>2. CASE (Goto(p, "bundle") \/ Goto(p, "unpack") \/ Goto(p, "settle")) /\ UNCHANGED choice
    <3>1. Elsewhere(p)
      BY <1>4, <2>2 DEF CompileFails, Bundle, UnpackFails, LinkFails, Elsewhere, IInv, Domains
    <3> QED
      BY <3>1, ElsewhereIInv
  <2> QED
    BY <1>4, <2>1, <2>2 DEF CompileFails, Bundle, UnpackFails, LinkFails, MoveOn
<1>5. ASSUME NEW p \in Process, Look(p) PROVE IInv'
  <2>1. CASE GiveUp(p)
    BY <1>5, <2>1, DoneElsewhere, ElsewhereIInv DEF Look
  <2>2. CASE ~GiveUp(p)
    BY <1>5, <2>2 DEF Look, IInv, Domains, OnlyWhole, OnlyNew
  <2> QED
    BY <2>1, <2>2
<1>6. ASSUME NEW p \in Process, Settle(p) PROVE IInv'
  BY <1>6 DEF Settle, Settled, IInv, Domains, OnlyWhole, OnlyNew
<1>7. ASSUME NEW p \in Process, CompileEnds(p) \/ Unpack(p) PROVE IInv'
  BY <1>7 DEF CompileEnds, Unpack, IInv, Domains, OnlyWhole, OnlyNew
<1>8. ASSUME NEW p \in Process, Rename(p) PROVE IInv'
  BY <1>8 DEF Rename, IInv, Domains, OnlyWhole, OnlyNew
<1>9. CASE UNCHANGED vars
  BY <1>9 DEF vars, IInv, Domains, OnlyWhole, OnlyNew
<1> QED
  BY <1>1, <1>2, <1>3, <1>4, <1>5, <1>6, <1>7, <1>8, <1>9 DEF Next

THEOREM InductiveInvariant == Spec => []IInv
<1>1. Init => IInv
  BY InitIInv
<1>2. IInv /\ [Next]_vars => IInv'
  BY NextIInv
<1> QED
  BY <1>1, <1>2, PTL DEF Spec

\* Whichever process crashes or fails, and whoever writes at the same time, nobody
\* links half a module.
THEOREM Atomicity == Spec => []LinkedWhole
<1>1. IInv => LinkedWhole
  BY DEF IInv, Domains, OnlyWhole, LinkedWhole, Links
<1> QED
  BY <1>1, InductiveInvariant, PTL

\* --recompile never ends with the module that was there before.
THEOREM Recompilation == Spec => []RecompileHonoured
<1>1. IInv => RecompileHonoured
  BY DEF IInv, OnlyNew, RecompileHonoured, Links
<1> QED
  BY <1>1, InductiveInvariant, PTL

-----------------------------------------------------------------------------
(***************************************************************************)
(* Whoever crashes where, a process that may compile links a Metal module  *)
(* made of its own ggml-metal.m.  The sources never go back to an earlier  *)
(* build's, and ggml-metal.m is written last: a module that is not made of *)
(* the sources at hand is the one that the earlier build left, and it is   *)
(* older than ggml-metal.m unless that file is as the earlier build left   *)
(* it, too.                                                                *)
(***************************************************************************)
OnDisk(p, s) == src[Family(mod[p])][s] # None

Shape(p) ==
    /\ pc[p] = "idle" => mod[p] = None /\ file[p] = "header"
    /\ pc[p] # "idle" => mod[p] \in Module /\ flags[p] \in Request
    /\ pc[p] = "replace" => tmp[p] \in File
    /\ pc[p] \in {"rename", "install"} => tmp[p] \in Library
    /\ pc[p] \in {"compare", "extract", "replace"} /\ file[p] = "main" => OnDisk(p, "header")
    /\ \/ pc[p] \in {"idle", "compare", "extract", "replace"}
       \/ pc[p] = "link" /\ mod[p] = "metal"
       \/ OnDisk(p, "header") /\ OnDisk(p, "main")

Shapes == TypeOK /\ \A p \in Process : Shape(p)

LEMMA ShapesInit == Init => Shapes
<1> SUFFICES ASSUME Init PROVE Shapes
  OBVIOUS
<1>1. TypeOK
  <2>1. machine \in Machine /\ MaxRuns[machine.mac] \in Nat
    BY MachineAssumption, RunsAssumption DEF Init
  <2>2. src \in [{"metal", "cuda"} -> [Source -> File \cup {None}]]
    BY DEF Init, Left, Made, Source, File, Old, New
  <2>3. dso \in [Module -> Library \cup {None}]
    <3>1. Left \subseteq [Source -> {Old, New}]
      BY DEF Left, Made, Source, Old, New
    <3>2. \A left \in Left : [v |-> left, whole |-> TRUE, at |-> 1] \in Library
      BY <3>1 DEF Library
    <3> QED
      BY <3>2 DEF Init
  <2> QED
    BY <2>1, <2>2, <2>3 DEF Init, TypeOK, Source
<1> QED
  BY <1>1 DEF Init, Shapes, Shape

\* Where the other processes are, and what they have, does not change.
Others(p) ==
    /\ \A s \in Source, f \in {"metal", "cuda"} : src[f][s] # None => src'[f][s] # None
    /\ \A q \in Process \ {p} :
        /\ pc'[q] = pc[q] /\ mod'[q] = mod[q] /\ flags'[q] = flags[q] /\ tmp'[q] = tmp[q]
        /\ file'[q] = file[q]

LEMMA OthersShapes ==
    ASSUME Shapes, NEW p \in Process, Others(p), TypeOK', Shape(p)'
    PROVE  Shapes'
<1>1. ASSUME NEW q \in Process \ {p} PROVE Shape(q)'
  <2>1. Shape(q)
    BY DEF Shapes
  <2>2. \A s \in Source : OnDisk(q, s) => OnDisk(q, s)'
    BY DEF Others, OnDisk, Family
  <2> QED
    BY <2>1, <2>2 DEF Shape, Others, Source
<1> QED
  BY <1>1 DEF Shapes

LEMMA GiveUpShapes ==
    ASSUME Shapes, NEW p \in Process, pc[p] # "idle",
           Done(p) \/ Fail(p) \/ (GiveUp(p) /\ pc[p] \notin {"compare", "extract", "replace"}),
           tmp' = tmp \/ tmp' = [tmp EXCEPT ![p] = None],
           UNCHANGED <<src, dso, clock, machine, runs>>, placed' \in [Process -> SUBSET Module]
    PROVE  Shapes'
<1>1. TypeOK'
  <2>1. mod[p] \in Module /\ flags[p] \in Request /\ flags[p].recompile \in BOOLEAN
    BY RequestAssumption DEF Shapes, Shape
  <2>2. CASE Done(p)
    BY <2>2 DEF Done, Goto, Shapes, TypeOK, Source
  <2>3. CASE TryCuda(p, flags[p]) /\ ~Done(p)
    BY <2>1, <2>3 DEF TryCuda, Goto, Shapes, TypeOK, Source, Module
  <2>4. CASE GiveUp(p) /\ ~TryCuda(p, flags[p]) /\ ~Done(p)
    BY <2>1, <2>4 DEF GiveUp, Goto, Shapes, TypeOK, Module
  <2> QED
    BY <2>2, <2>3, <2>4 DEF Fail, GiveUp
<1>2. Others(p)
  BY DEF Shapes, TypeOK, GiveUp, Fail, Done, TryCuda, Goto, Others
<1>3. Shape(p)'
  BY RequestAssumption
  DEF Shapes, Shape, TypeOK, GiveUp, Fail, Done, TryCuda, Goto, Module, Source, OnDisk,
      Family
<1> QED
  BY <1>1, <1>2, <1>3, OthersShapes

LEMMA ShapesNext == Shapes /\ [Next]_vars => Shapes'
<1> SUFFICES ASSUME Shapes, [Next]_vars PROVE Shapes'
  OBVIOUS
<1> USE DEF Goto, At, choice, disk, Module, Source
<1>1. ASSUME NEW p \in Process, Begin(p) PROVE Shapes'
  <2>1. TypeOK'
    <3>1. PICK f \in Request : TryMetal(p, f) \/ TryCuda(p, f)
      BY <1>1 DEF Begin
    <3>2. f.recompile \in BOOLEAN /\ MaxRuns[machine.mac] \in Nat /\ UNCHANGED <<disk, machine, tmp>>
      BY <1>1, RequestAssumption, RunsAssumption, MachineAssumption
      DEF Begin, Shapes, TypeOK
    <3>3. runs' \in 0..MaxRuns'[machine'.mac] /\ placed' \in [Process -> SUBSET Module]
      BY <1>1, <3>2 DEF Begin, Shapes, TypeOK
    <3>4. CASE TryMetal(p, f)
      BY <3>2, <3>3, <3>4 DEF TryMetal, Shapes, TypeOK
    <3>5. CASE Done(p)
      BY <3>2, <3>3, <3>5 DEF Done, Shapes, TypeOK
    <3>6. CASE TryCuda(p, f) /\ ~Done(p)
      BY <3>2, <3>3, <3>6 DEF TryCuda, Shapes, TypeOK
    <3> QED
      BY <3>1, <3>4, <3>5, <3>6
  <2>2. Others(p)
    BY <1>1 DEF Begin, TryMetal, TryCuda, Done, Others, Shapes, TypeOK
  <2>3. Shape(p)'
    <3>1. PICK f \in Request : TryMetal(p, f) \/ TryCuda(p, f)
      BY <1>1 DEF Begin
    <3>2. file[p] = "header"
      BY <1>1 DEF Begin, Shapes, Shape
    <3> QED
      BY <1>1, <3>1, <3>2 DEF TryMetal, TryCuda, Done, Shapes, TypeOK, Shape, OnDisk
  <2> QED
    BY <2>1, <2>2, <2>3, OthersShapes
<1>2. ASSUME NEW p \in Process, Compare(p) PROVE Shapes'
  <2>1. TypeOK'
    <3>1. CASE Same(p)
      <4>1. /\ NextFile(p)
            /\ UNCHANGED <<disk, machine, runs, mod, flags, phase, tmp, placed, rebuild>>
        BY <1>2, <3>1 DEF Compare
      <4> QED
        BY <1>2, <4>1 DEF NextFile, Shapes, TypeOK
    <3>2. CASE ~Same(p)
      BY <1>2, <3>2 DEF Compare, Shapes, TypeOK
    <3> QED
      BY <3>1, <3>2
  <2>2. Others(p)
    BY <1>2 DEF Compare, NextFile, Others, Shapes, TypeOK
  <2>3. Shape(p)'
    BY <1>2 DEF Compare, Same, NextFile, Shapes, TypeOK, Shape, OnDisk
  <2> QED
    BY <2>1, <2>2, <2>3, OthersShapes
<1>3. ASSUME NEW p \in Process, Extract(p) PROVE Shapes'
  <2>1. TypeOK'
    BY <1>3 DEF Extract, Shapes, TypeOK, File, New, Old
  <2>2. Others(p)
    BY <1>3 DEF Extract, Others, Shapes, TypeOK
  <2>3. Shape(p)'
    BY <1>3 DEF Extract, Shapes, TypeOK, Shape, OnDisk, File, New, Old
  <2> QED
    BY <2>1, <2>2, <2>3, OthersShapes
<1>4. ASSUME NEW p \in Process, Replace(p) PROVE Shapes'
  <2>0. Shape(p) /\ tmp[p] \in File /\ tmp[p] # None /\ Family(mod[p]) \in {"metal", "cuda"}
    BY <1>4, NoneAssumption DEF Replace, Shapes, Shape, Family
  <2>1. TypeOK'
    BY <1>4, <2>0 DEF Replace, NextFile, Shapes, TypeOK
  <2>2. Others(p)
    BY <1>4, <2>0 DEF Replace, NextFile, Others, Shapes, TypeOK
  <2>3. Shape(p)'
    BY <1>4, <2>0 DEF Replace, NextFile, Shapes, TypeOK, Shape, OnDisk
  <2> QED
    BY <2>1, <2>2, <2>3, OthersShapes
<1>5. ASSUME NEW p \in Process, SourceFails(p) \/ SettleFails(p) \/ Link(p) \/ Killed(p) PROVE Shapes'
  BY <1>5, GiveUpShapes DEF SourceFails, SettleFails, Link, Killed, Shapes, TypeOK
<1>6. ASSUME NEW p \in Process, CompileFails(p) \/ Bundle(p) \/ UnpackFails(p) \/ LinkFails(p) \/ Look(p)
      PROVE Shapes'
  <2>1. CASE GiveUp(p)
    BY <1>6, <2>1, GiveUpShapes
    DEF CompileFails, Bundle, UnpackFails, LinkFails, Look, Shapes, TypeOK
  <2>2. CASE ~GiveUp(p)
    <3>1. TypeOK'
      BY <1>6, <2>2
      DEF CompileFails, Bundle, UnpackFails, LinkFails, Look, MoveOn, Shapes, TypeOK
    <3>2. Others(p)
      BY <1>6, <2>2
      DEF CompileFails, Bundle, UnpackFails, LinkFails, Look, MoveOn, Others, Shapes,
          TypeOK
    <3>3. Shape(p)'
      BY <1>6, <2>2
      DEF CompileFails, Bundle, UnpackFails, LinkFails, Look, MoveOn, Shapes, TypeOK,
          Shape, OnDisk
    <3> QED
      BY <3>1, <3>2, <3>3, OthersShapes
  <2> QED
    BY <2>1, <2>2
<1>7. ASSUME NEW p \in Process, Settle(p) \/ CompileBegins(p) \/ CompileAgain(p) PROVE Shapes'
  <2>1. TypeOK'
    <3>1. [v |-> Made(Old, Old), whole |-> FALSE, at |-> clock] \in Library
      BY DEF Made, Old, New, Library, Shapes, TypeOK
    <3>2. CASE Settle(p)
      BY <3>2 DEF Settle, Shapes, TypeOK
    <3>3. CASE CompileBegins(p)
      BY <3>1, <3>3 DEF CompileBegins, Shapes, TypeOK
    <3>4. CASE CompileAgain(p)
      BY <3>4 DEF CompileAgain, Shapes, TypeOK
    <3> QED
      BY <1>7, <3>2, <3>3, <3>4
  <2>2. Others(p)
    BY <1>7 DEF Settle, CompileBegins, CompileAgain, Others, Shapes, TypeOK
  <2>3. Shape(p)'
    BY <1>7 DEF Settle, CompileBegins, CompileAgain, Shapes, TypeOK, Shape, OnDisk
  <2> QED
    BY <2>1, <2>2, <2>3, OthersShapes
<1>9. ASSUME NEW p \in Process, CompileEnds(p) PROVE Shapes'
  <2>0. Shape(p) /\ OnDisk(p, "header") /\ OnDisk(p, "main") /\ Family(mod[p]) \in {"metal", "cuda"}
    BY <1>9 DEF CompileEnds, Shapes, Shape, Family
  <2>4. tmp'[p] \in Library /\ clock' \in Nat
    BY <1>9, <2>0 DEF CompileEnds, Shapes, TypeOK, OnDisk, Made, File, Library
  <2>1. TypeOK'
    BY <1>9, <2>4 DEF CompileEnds, Shapes, TypeOK
  <2>2. Others(p)
    BY <1>9 DEF CompileEnds, Others, Shapes, TypeOK
  <2>3. Shape(p)'
    BY <1>9, <2>0, <2>4 DEF CompileEnds, Shapes, TypeOK, Shape, OnDisk
  <2> QED
    BY <2>1, <2>2, <2>3, OthersShapes
<1>10. ASSUME NEW p \in Process, Unpack(p) PROVE Shapes'
  <2>4. tmp'[p] \in Library /\ clock' \in Nat
    BY <1>10 DEF Unpack, Shapes, TypeOK, Made, New, Old, Library
  <2>1. TypeOK'
    BY <1>10, <2>4 DEF Unpack, Shapes, TypeOK
  <2>2. Others(p)
    BY <1>10 DEF Unpack, Others, Shapes, TypeOK
  <2>3. Shape(p)'
    BY <1>10, <2>4 DEF Unpack, Shapes, TypeOK, Shape, OnDisk
  <2> QED
    BY <2>1, <2>2, <2>3, OthersShapes
<1>11. ASSUME NEW p \in Process, Rename(p) PROVE Shapes'
  <2>1. TypeOK'
    BY <1>11 DEF Rename, Shapes, TypeOK, Shape
  <2>2. Others(p)
    BY <1>11 DEF Rename, Others, Shapes, TypeOK
  <2>3. Shape(p)'
    BY <1>11 DEF Rename, Shapes, TypeOK, Shape, OnDisk
  <2> QED
    BY <2>1, <2>2, <2>3, OthersShapes
<1>12. CASE UNCHANGED vars
  BY <1>12 DEF vars, Shapes, TypeOK, Shape, OnDisk
<1> QED
  BY <1>1, <1>2, <1>3, <1>4, <1>5, <1>6, <1>7, <1>9, <1>10, <1>11, <1>12 DEF Next

\* The variables keep their types; above all, the compiler finds the sources there.
THEOREM TypeCorrect == Spec => []TypeOK
<1>1. Shapes => TypeOK
  BY DEF Shapes
<1> QED
  BY <1>1, ShapesInit, ShapesNext, PTL DEF Spec

-----------------------------------------------------------------------------
\* The source of Metal has the bytes that the processes carry.
Fresh(s) == src["metal"][s] # None /\ src["metal"][s].v = New

\* ggml-metal.m is as the earlier build left it, and the update did not touch it.
Untouched == Fresh("main") /\ src["metal"]["main"].at = 0

Times ==
    LET main == src["metal"]["main"] IN
    /\ clock >= 1
    /\ main # None => main.at = 0 \/ (main.at >= 2 /\ main.v = New)

\* A module not made of the sources at hand is as the earlier build left it.
Modules ==
    LET main == src["metal"]["main"]
        made == dso["metal"]
    IN  made # None =>
            \/ made.v = Made(New, New)
            \/ /\ made.at = 1 /\ main # None
               /\ main.at = 0 => made.v["main"] = main.v

Copies(p) ==
    pc[p] = "replace" => tmp[p].v = New /\ (file[p] = "main" => tmp[p].at >= 2)

LinkOK(p) ==
    LET made == dso["metal"].v IN
    /\ Fresh("header") /\ Fresh("main")
    /\ dso["metal"] # None /\ made["main"] = New
    /\ made["header"] = New \/ (~rebuild[p] /\ Untouched)

OnMetal(p) ==
    mod[p] = "metal" =>
        /\ pc[p] \in {"idle", "compare", "extract", "replace", "settle", "compile", "compiling", "rename", "link"}
        /\ pc[p] # "link" => ~flags[p].nocompile
        /\ pc[p] \in {"compare", "extract", "replace"} /\ file[p] = "main" => Fresh("header")
        /\ pc[p] \in {"extract", "replace"} /\ file[p] = "main" => ~Untouched
        /\ pc[p] \in {"settle", "compile", "compiling", "rename"} => Fresh("header") /\ Fresh("main")
        /\ pc[p] = "rename" => tmp[p].v = Made(New, New)
        /\ pc[p] = "link" /\ ~flags[p].nocompile => LinkOK(p)

FInv == Shapes /\ Times /\ Modules /\ \A p \in Process : Copies(p) /\ OnMetal(p)

LEMMA FreshInit == Init => FInv
<1> SUFFICES ASSUME Init PROVE FInv
  OBVIOUS
<1>1. Shapes
  BY ShapesInit
<1>2. Times
  BY NoneAssumption DEF Init, Times, Source
<1>3. Modules
  <2>1. ASSUME NEW left \in Left, NEW had \in SUBSET {m \in Module : Family(m) = Here},
             src = [f \in {"metal", "cuda"} |->
                       [s \in Source |-> IF f = Here THEN [v |-> left[s], at |-> 0] ELSE None]],
             dso = [m \in Module |->
                       IF m \in had THEN [v |-> left, whole |-> TRUE, at |-> 1] ELSE None],
             dso["metal"] # None
        PROVE Modules
    <3>1. "metal" \in had /\ Here = "metal" /\ dso["metal"] = [v |-> left, whole |-> TRUE, at |-> 1]
      BY <2>1 DEF Family, Module
    <3>2. src["metal"]["main"] = [v |-> left["main"], at |-> 0]
      BY <2>1, <3>1 DEF Source
    <3>3. left["main"] \in {Old, New}
      BY DEF Left, Made
    <3>4. src["metal"]["main"] \in File
      BY <3>2, <3>3 DEF File
    <3> QED
      BY <3>1, <3>2, <3>4, NoneAssumption DEF Modules
  <2> QED
    BY <2>1 DEF Init, Modules, Module
<1>4. \A p \in Process : Copies(p) /\ OnMetal(p)
  BY NoneAssumption DEF Init, Copies, OnMetal, Module
<1> QED
  BY <1>1, <1>2, <1>3, <1>4 DEF FInv

\* Whatever p does to the directory disturbs none of the others.
Keeps ==
    /\ \A s \in Source : Fresh(s) => Fresh(s)'
    /\ Untouched' <=> Untouched
    /\ \/ dso'["metal"] = dso["metal"]
       \/ dso'["metal"] # None /\ dso'["metal"].v = Made(New, New)

Rest(p) ==
    \A q \in Process \ {p} :
        /\ pc'[q] = pc[q] /\ mod'[q] = mod[q] /\ flags'[q] = flags[q] /\ tmp'[q] = tmp[q]
        /\ file'[q] = file[q] /\ rebuild'[q] = rebuild[q]

LEMMA RestFresh ==
    ASSUME FInv, Shapes', Times', Modules', NEW p \in Process, Rest(p), Keeps, Copies(p)', OnMetal(p)'
    PROVE  FInv'
<1>1. ASSUME NEW q \in Process \ {p} PROVE Copies(q)' /\ OnMetal(q)'
  <2>1. Copies(q) /\ OnMetal(q)
    BY DEF FInv
  <2>2. Copies(q)'
    BY <2>1 DEF Copies, Rest
  <2>3. LinkOK(q) => LinkOK(q)'
    BY DEF LinkOK, Keeps, Rest, Made, Source
  <2>4. OnMetal(q)'
    BY <2>1, <2>3 DEF OnMetal, Rest, Keeps, Source
  <2> QED
    BY <2>2, <2>4
<1> QED
  BY <1>1 DEF FInv

\* ... and what leaves the directory alone disturbs nobody.
LEMMA AsideFresh ==
    ASSUME FInv, Shapes', NEW p \in Process, Rest(p), UNCHANGED <<src, dso>>, clock' \in {clock, clock + 1},
           Copies(p)', OnMetal(p)'
    PROVE  FInv'
<1>1. Times' /\ Modules'
  BY DEF FInv, Times, Modules, Shapes, TypeOK
<1>2. Keeps
  BY DEF Keeps, Untouched, Fresh
<1> QED
  BY <1>1, <1>2, RestFresh

LEMMA GiveUpFresh ==
    ASSUME FInv, Shapes', NEW p \in Process, pc[p] # "idle",
           Done(p) \/ Fail(p) \/ GiveUp(p),
           tmp' = tmp \/ tmp' = [tmp EXCEPT ![p] = None],
           UNCHANGED <<src, dso, clock>>
    PROVE  FInv'
<1>1. Rest(p)
  BY DEF FInv, Shapes, TypeOK, GiveUp, Fail, Done, TryCuda, Goto, Rest
<1>2. mod'[p] # "metal" /\ pc'[p] # "replace"
  BY NoneAssumption DEF FInv, Shapes, TypeOK, GiveUp, Fail, Done, TryCuda, Goto, Module
<1> QED
  BY <1>1, <1>2, AsideFresh DEF Copies, OnMetal

LEMMA FreshNext == FInv /\ [Next]_vars => FInv'
<1> SUFFICES ASSUME FInv, [Next]_vars PROVE FInv'
  OBVIOUS
<1>0. Shapes /\ Shapes' /\ TypeOK
  BY ShapesNext DEF FInv, Shapes
<1> USE DEF Goto, At, choice, disk
<1>1. ASSUME NEW p \in Process, Begin(p) PROVE FInv'
  <2>1. PICK f \in Request : TryMetal(p, f) \/ TryCuda(p, f)
    BY <1>1 DEF Begin
  <2>2. Rest(p)
    BY <1>0, <1>1, <2>1 DEF Begin, TryMetal, TryCuda, Done, Rest, TypeOK
  <2>3. UNCHANGED <<src, dso, clock>> /\ file[p] = "header"
    BY <1>0, <1>1 DEF Begin, Shapes, Shape
  <2>4. Copies(p)' /\ OnMetal(p)'
    BY <1>0, <2>1, <2>3, NoneAssumption
    DEF TryMetal, TryCuda, Done, TypeOK, Copies, OnMetal, Module
  <2> QED
    BY <1>0, <2>2, <2>3, <2>4, AsideFresh
<1>2. ASSUME NEW p \in Process, Compare(p) PROVE FInv'
  <2>1. Rest(p) /\ UNCHANGED <<src, dso, clock>>
    BY <1>0, <1>2 DEF Compare, NextFile, Rest, TypeOK
  <2>2. OnMetal(p) /\ file[p] \in Source
    BY <1>0 DEF FInv, TypeOK
  <2>3. mod[p] = "metal" => (Same(p) <=> Fresh(file[p]))
    BY DEF Same, Fresh, Family
  <2>4. Copies(p)' /\ OnMetal(p)'
    BY <1>0, <1>2, <2>2, <2>3
    DEF Compare, NextFile, TypeOK, Copies, OnMetal, Fresh, Untouched, Source
  <2> QED
    BY <1>0, <2>1, <2>4, AsideFresh
<1>3. ASSUME NEW p \in Process, Extract(p) PROVE FInv'
  <2>1. Rest(p) /\ UNCHANGED <<src, dso>> /\ clock' \in {clock, clock + 1}
    BY <1>0, <1>3 DEF Extract, Rest, TypeOK
  <2>2. OnMetal(p) /\ clock \in Nat /\ clock >= 1
    BY <1>0 DEF FInv, Times, TypeOK
  <2>3. Copies(p)'
    BY <1>0, <1>3, <2>2 DEF Extract, TypeOK, Copies
  <2>4. OnMetal(p)'
    BY <1>0, <1>3, <2>2 DEF Extract, TypeOK, OnMetal, Fresh, Untouched
  <2> QED
    BY <1>0, <2>1, <2>3, <2>4, AsideFresh
<1>4. ASSUME NEW p \in Process, Replace(p) PROVE FInv'
  <2>1. Rest(p) /\ UNCHANGED <<dso, clock, mod, flags, rebuild>> /\ tmp[p] \in File /\ tmp[p] # None
    BY <1>0, <1>4, NoneAssumption DEF Replace, NextFile, Rest, TypeOK, Shapes, Shape
  <2>2. OnMetal(p) /\ Copies(p) /\ Times /\ Modules /\ file[p] \in Source /\ mod[p] \in Module
    BY <1>0, <1>4 DEF FInv, TypeOK, Replace, Shapes, Shape
  <2>3. CASE mod[p] # "metal"
    <3>1. src'["metal"] = src["metal"]
      BY <1>0, <1>4, <2>3 DEF Replace, Family, TypeOK
    <3>2. Times' /\ Modules'
      BY <2>1, <2>2, <3>1 DEF Times, Modules
    <3>3. Keeps
      BY <2>1, <3>1 DEF Keeps, Untouched, Fresh
    <3>4. Copies(p)' /\ OnMetal(p)'
      BY <1>0, <1>4, <2>1, <2>3 DEF Replace, NextFile, TypeOK, Copies, OnMetal
    <3> QED
      BY <1>0, <2>1, <3>2, <3>3, <3>4, RestFresh
  <2>4. CASE mod[p] = "metal"
    <3>1. src'["metal"] = [src["metal"] EXCEPT ![file[p]] = tmp[p]]
      BY <1>0, <1>4, <2>4 DEF Replace, Family, TypeOK
    <3>2. tmp[p].v = New /\ (file[p] = "main" => tmp[p].at >= 2)
      BY <1>4, <2>2 DEF Replace, Copies
    <3>3. /\ src'["metal"][file[p]] = tmp[p]
          /\ \A s \in Source \ {file[p]} : src'["metal"][s] = src["metal"][s]
      BY <1>0, <2>2, <3>1 DEF TypeOK
    <3>4. Times'
      BY <2>1, <2>2, <3>2, <3>3 DEF Times, Source
    <3>5. tmp[p].at \in Nat
      BY <2>1 DEF File
    <3>6. Modules'
      BY <2>1, <2>2, <3>2, <3>3, <3>5 DEF Modules, Source
    <3>7. \A s \in Source : (Fresh(s) => Fresh(s)') /\ (s = file[p] => Fresh(s)')
      BY <2>1, <3>2, <3>3 DEF Fresh
    <3>8. file[p] = "main" => ~Untouched
      BY <1>4, <2>2, <2>4 DEF Replace, OnMetal
    <3>9. Untouched' <=> Untouched
      BY <2>2, <3>2, <3>3, <3>5, <3>8 DEF Untouched, Fresh, Source
    <3>10. Keeps
      BY <2>1, <3>7, <3>9 DEF Keeps
    <3>11. Copies(p)' /\ OnMetal(p)'
      BY <1>0, <1>4, <2>1, <2>2, <2>4, <3>7
      DEF Replace, NextFile, TypeOK, Copies, OnMetal, Source
    <3> QED
      BY <1>0, <2>1, <3>4, <3>6, <3>10, <3>11, RestFresh
  <2> QED
    BY <2>3, <2>4
<1>5. ASSUME NEW p \in Process, SourceFails(p) \/ SettleFails(p) \/ Link(p) \/ Killed(p) PROVE FInv'
  BY <1>0, <1>5, GiveUpFresh DEF SourceFails, SettleFails, Link, Killed
<1>6. ASSUME NEW p \in Process, CompileFails(p) \/ Bundle(p) \/ UnpackFails(p) \/ LinkFails(p) \/ Look(p)
      PROVE FInv'
  <2>1. CASE GiveUp(p)
    BY <1>0, <1>6, <2>1, GiveUpFresh
    DEF CompileFails, Bundle, UnpackFails, LinkFails, Look
  <2>2. CASE ~GiveUp(p)
    <3>1. Rest(p) /\ UNCHANGED <<src, dso, clock>>
      BY <1>0, <1>6, <2>2
      DEF CompileFails, Bundle, UnpackFails, LinkFails, Look, MoveOn, Rest, TypeOK
    <3>2. OnMetal(p)
      BY DEF FInv
    <3>3. mod'[p] # "metal" /\ pc'[p] # "replace"
      BY <1>0, <1>6, <2>2, <3>2
      DEF CompileFails, Bundle, UnpackFails, LinkFails, Look, MoveOn, TypeOK, OnMetal
    <3> QED
      BY <1>0, <3>1, <3>3, AsideFresh DEF Copies, OnMetal
  <2> QED
    BY <2>1, <2>2
<1>7. ASSUME NEW p \in Process, Settle(p) PROVE FInv'
  <2>1. Rest(p) /\ UNCHANGED <<src, dso, clock, mod, flags, rebuild>>
    BY <1>0, <1>7 DEF Settle, Rest, TypeOK
  <2>2. OnMetal(p) /\ Times /\ Modules
    BY DEF FInv
  <2>3. mod[p] = "metal" /\ Settled(p) => LinkOK(p)
    <3> SUFFICES ASSUME mod[p] = "metal", Settled(p) PROVE LinkOK(p)
      OBVIOUS
    <3>1. Fresh("header") /\ Fresh("main")
      BY <1>7, <2>2 DEF Settle, OnMetal
    <3>2. ~rebuild[p] /\ dso["metal"] # None /\ ~(src["metal"]["main"].at > dso["metal"].at)
      BY DEF Settled, Outdated, Family
    <3>3. CASE dso["metal"].v = Made(New, New)
      BY <3>1, <3>2, <3>3 DEF LinkOK, Made
    <3>4. CASE dso["metal"].v # Made(New, New)
      <4>1. dso["metal"].at = 1 /\ src["metal"]["main"] # None
        BY <2>2, <3>2, <3>4 DEF Modules
      <4>2. src["metal"]["main"].at = 0
        <5>1. src["metal"]["main"].at \in Nat
          BY <1>0, <4>1 DEF TypeOK, Source, File
        <5> QED
          BY <2>2, <3>2, <4>1, <5>1 DEF Times
      <4>3. dso["metal"].v["main"] = New
        BY <2>2, <3>1, <3>2, <3>4, <4>2 DEF Modules, Fresh
      <4> QED
        BY <3>1, <3>2, <4>2, <4>3 DEF LinkOK, Untouched
    <3> QED
      BY <3>3, <3>4
  <2>4. LinkOK(p) => LinkOK(p)'
    BY <2>1 DEF LinkOK, Fresh, Untouched
  <2>5. Copies(p)' /\ OnMetal(p)'
    BY <1>0, <1>7, <2>1, <2>2, <2>3, <2>4 DEF Settle, TypeOK, Copies, OnMetal, Fresh
  <2> QED
    BY <1>0, <2>1, <2>5, AsideFresh
<1>8. ASSUME NEW p \in Process, CompileBegins(p) \/ CompileAgain(p) \/ Unpack(p) PROVE FInv'
  <2>1. Rest(p) /\ UNCHANGED <<src, dso>> /\ clock' \in {clock, clock + 1}
    BY <1>0, <1>8 DEF CompileBegins, CompileAgain, Unpack, Rest, TypeOK
  <2>2. OnMetal(p)
    BY DEF FInv
  <2>3. Copies(p)' /\ OnMetal(p)'
    BY <1>0, <1>8, <2>1, <2>2
    DEF CompileBegins, CompileAgain, Unpack, TypeOK, Copies, OnMetal, Fresh
  <2> QED
    BY <1>0, <2>1, <2>3, AsideFresh
<1>9. ASSUME NEW p \in Process, CompileEnds(p) PROVE FInv'
  <2>1. Rest(p) /\ UNCHANGED <<src, dso>> /\ clock' \in {clock, clock + 1}
    BY <1>0, <1>9 DEF CompileEnds, Rest, TypeOK
  <2>2. OnMetal(p)
    BY DEF FInv
  <2>3. mod[p] = "metal" => tmp'[p].v = Made(New, New)
    BY <1>0, <1>9, <2>2 DEF CompileEnds, TypeOK, OnMetal, Fresh, Family
  <2>4. Copies(p)' /\ OnMetal(p)'
    BY <1>0, <1>9, <2>1, <2>2, <2>3 DEF CompileEnds, TypeOK, Copies, OnMetal, Fresh
  <2> QED
    BY <1>0, <2>1, <2>4, AsideFresh
<1>10. ASSUME NEW p \in Process, Rename(p) PROVE FInv'
  <2>1. /\ Rest(p) /\ UNCHANGED <<src, clock, mod, flags, rebuild>>
        /\ tmp[p] # None /\ mod[p] \in Module
    BY <1>0, <1>10, NoneAssumption DEF Rename, Rest, TypeOK, Shapes, Shape
  <2>2. OnMetal(p) /\ Times /\ Modules
    BY DEF FInv
  <2>3. \/ mod[p] # "metal" /\ dso'["metal"] = dso["metal"]
        \/ mod[p] = "metal" /\ dso'["metal"] # None /\ dso'["metal"].v = Made(New, New)
    BY <1>0, <1>10, <2>1, <2>2 DEF Rename, TypeOK, OnMetal, Module
  <2>4. Times' /\ Modules'
    BY <2>1, <2>2, <2>3 DEF Times, Modules
  <2>5. Keeps
    BY <2>1, <2>3 DEF Keeps, Untouched, Fresh
  <2>6. Copies(p)' /\ OnMetal(p)'
    BY <1>0, <1>10, <2>1, <2>2, <2>3
    DEF Rename, TypeOK, Copies, OnMetal, LinkOK, Fresh, Made
  <2> QED
    BY <1>0, <2>1, <2>4, <2>5, <2>6, RestFresh
<1>11. CASE UNCHANGED vars
  BY <1>0, <1>11
  DEF vars, FInv, Times, Modules, Copies, OnMetal, LinkOK, Fresh, Untouched
<1> QED
  BY <1>1, <1>2, <1>3, <1>4, <1>5, <1>6, <1>7, <1>8, <1>9, <1>10, <1>11 DEF Next

\* Nobody who may compile is left with a Metal module of an earlier ggml-metal.m.
THEOREM Freshness == Spec => []MetalFresh
<1>1. FInv => MetalFresh
  <2> SUFFICES ASSUME FInv, NEW p \in Process, Links(p), mod[p] = "metal", ~flags[p].nocompile
               PROVE  /\ dso["metal"].v["main"] = New
                      /\ \/ dso["metal"].v["header"] = New
                         \/ ~rebuild[p] /\ src["metal"]["main"].at = 0
    BY DEF MetalFresh
  <2>1. LinkOK(p)
    BY DEF FInv, OnMetal, Links
  <2> QED
    BY <2>1 DEF LinkOK, Untouched
<1> QED
  BY <1>1, FreshInit, FreshNext, PTL DEF Spec
=============================================================================
