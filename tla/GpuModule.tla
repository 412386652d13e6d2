------------------------------ MODULE GpuModule -----------------------------
(***************************************************************************)
(* How a process gets its GPU module, a shared library that it links at    *)
(* run time (metal.c, cuda.c, extract.c, is_file_newer_than.c).            *)
(*                                                                         *)
(* The processes of a user share a directory.  A process extracts the      *)
(* sources it carries, unless the files there have the same bytes, compiles*)
(* them if it finds that it must, or extracts a module that it carries,    *)
(* and links the module.  Nothing is locked: a file is written under a     *)
(* temporary name and renamed.  A process may crash at any point, any      *)
(* operation on files, any compilation and any link may fail, and another  *)
(* process may do the same at the same time.                               *)
(*                                                                         *)
(* The directory begins as a process of an earlier build left it, with the *)
(* modules that it had or without; every process that runs is of one later *)
(* build.  Of the sources, "header" stands for all but the last of srcs.   *)
(* A Mac has Metal, and what cuda.c needs is found elsewhere only.         *)
(***************************************************************************)
EXTENDS Integers, Sequences

CONSTANTS
    Process, None,
    Machine,    \* the kinds of machine
    Request,    \* the flags that a process may be given
    MaxRuns     \* how often a process is begun on a Mac and elsewhere (a bound)

VARIABLES
    src,        \* src[f][s]: a source of the family f on disk, None if missing
    dso,        \* dso[m]: a module on disk
    clock,      \* the time of the last write
    machine,
    runs,
    pc, mod, flags, rebuild, file, phase, tmp,
    placed      \* the modules put in place since the process began

disk == <<src, dso, clock>>
choice == <<mod, flags, rebuild, file, phase>>
vars == <<disk, machine, runs, pc, choice, tmp, placed>>

Module == {"metal", "rocm", "cuda"}
Source == {"header", "main"}
Family(m) == IF m = "metal" THEN "metal" ELSE "cuda"
Gpu == {"auto", "apple", "amd", "nvidia"}

\* Is it a Mac, for which modules is there a compiler, which modules does the build
\* carry ready-made?
ASSUME MachineAssumption ==
    Machine \subseteq [mac : BOOLEAN, tools : SUBSET Module, bundled : SUBSET Module]
ASSUME RequestAssumption ==
    Request \subseteq [gpu : Gpu, nocompile : BOOLEAN, recompile : BOOLEAN]
ASSUME RunsAssumption == MaxRuns \in [BOOLEAN -> Nat]

Old == 1
New == 2
Made(h, m) == [header |-> h, main |-> m]

\* What an earlier build left: its sources, or nothing, and modules made of them.
\* The update changed the header, the main source or both.
Left == {Made(Old, Old), Made(Old, New), Made(New, Old)}

Here == IF machine.mac THEN "metal" ELSE "cuda"

Init ==
    /\ machine \in Machine
    /\ \E left \in Left, had \in SUBSET {m \in Module : Family(m) = Here} :
        \/ /\ src = [f \in {"metal", "cuda"} |->
                       [s \in Source |-> IF f = Here THEN [v |-> left[s], at |-> 0] ELSE None]]
           /\ dso = [m \in Module |->
                       IF m \in had THEN [v |-> left, whole |-> TRUE, at |-> 1] ELSE None]
        \/ /\ src = [f \in {"metal", "cuda"} |-> [s \in Source |-> None]]
           /\ dso = [m \in Module |-> None]
    /\ clock = 1
    /\ runs = 0
    /\ pc = [p \in Process |-> "idle"]
    /\ mod = [p \in Process |-> None]
    /\ flags = [p \in Process |-> None]
    /\ rebuild = [p \in Process |-> FALSE]
    /\ file = [p \in Process |-> "header"]
    /\ phase = [p \in Process |-> "look"]
    /\ tmp = [p \in Process |-> None]
    /\ placed = [p \in Process |-> {}]

Goto(p, where) == pc' = [pc EXCEPT ![p] = where]

At(p, here, there) == pc[p] = here /\ Goto(p, there)

\* The process goes on, with the module or without it, or is killed.
Done(p) ==
    /\ Goto(p, "idle")
    /\ mod' = [mod EXCEPT ![p] = None]
    /\ flags' = [flags EXCEPT ![p] = None]
    /\ rebuild' = [rebuild EXCEPT ![p] = FALSE]
    /\ file' = [file EXCEPT ![p] = "header"]
    /\ phase' = [phase EXCEPT ![p] = "look"]

\* import_cuda_impl begins.
TryCuda(p, f) ==
    IF f.gpu = "apple" THEN Done(p)
    ELSE /\ Goto(p, "compare")
         /\ mod' = [mod EXCEPT ![p] = IF f.gpu = "nvidia" THEN "cuda" ELSE "rocm"]
         /\ flags' = [flags EXCEPT ![p] = f]
         /\ rebuild' = [rebuild EXCEPT ![p] = f.recompile]
         /\ file' = [file EXCEPT ![p] = "header"]
         /\ phase' = [phase EXCEPT ![p] = "look"]

TryMetal(p, f) ==
    /\ Goto(p, IF f.nocompile THEN "link" ELSE "compare")
    /\ mod' = [mod EXCEPT ![p] = "metal"]
    /\ flags' = [flags EXCEPT ![p] = f]
    /\ UNCHANGED <<rebuild, file, phase>>

\* One module does not work out.  Metal is followed by cuda.c, which begins anew;
\* ROCm by CUDA, unless AMD is asked for.
GiveUp(p) ==
    \/ mod[p] = "metal" /\ TryCuda(p, flags[p])
    \/ /\ mod[p] = "rocm" /\ flags[p].gpu = "auto"
       /\ mod' = [mod EXCEPT ![p] = "cuda"]
       /\ phase' = [phase EXCEPT ![p] = "look"]
       /\ Goto(p, "look")
       /\ UNCHANGED <<flags, rebuild, file>>
    \/ mod[p] = "rocm" /\ flags[p].gpu # "auto" /\ Done(p)
    \/ mod[p] = "cuda" /\ Done(p)

\* `return false', of import_cuda_impl or of ImportMetalImpl.
Fail(p) ==
    IF mod[p] = "metal" THEN GiveUp(p) ELSE Done(p)

-----------------------------------------------------------------------------
\* A process begins: llamafile_has_cuda, which asks llamafile_has_metal first.
Begin(p) ==
    /\ pc[p] = "idle" /\ runs < MaxRuns[machine.mac]
    /\ runs' = runs + 1
    /\ \E f \in Request :
           IF machine.mac /\ f.gpu \in {"auto", "apple"} THEN TryMetal(p, f) ELSE TryCuda(p, f)
    /\ placed' = [placed EXCEPT ![p] = {}]
    /\ UNCHANGED <<disk, machine, tmp>>

\* The source is done with; the module comes after the last of them.
NextFile(p) ==
    IF file[p] = "header"
    THEN Goto(p, "compare") /\ file' = [file EXCEPT ![p] = "main"]
    ELSE Goto(p, IF mod[p] = "metal" THEN "settle" ELSE "look") /\ UNCHANGED file

\* is_file_newer_than_bytes.
Same(p) ==
    LET there == src[Family(mod[p])][file[p]]
    IN  there # None /\ there.v = New

Compare(p) ==
    /\ pc[p] = "compare"
    /\ IF Same(p) THEN NextFile(p) /\ UNCHANGED rebuild
       ELSE /\ Goto(p, "extract")
            /\ rebuild' = [rebuild EXCEPT ![p] = TRUE]
            /\ UNCHANGED file
    /\ UNCHANGED <<disk, machine, runs, mod, flags, phase, tmp, placed>>

\* llamafile_extract: the copy is complete, under its temporary name ...
Extract(p) ==
    /\ At(p, "extract", "replace")
    /\ clock' = IF file[p] = "main" THEN clock + 1 ELSE clock
    /\ tmp' = [tmp EXCEPT ![p] = [v |-> New, at |-> IF file[p] = "main" THEN clock' ELSE 0]]
    /\ UNCHANGED <<src, dso, machine, runs, choice, placed>>

\* ... and replaces the source.
Replace(p) ==
    /\ pc[p] = "replace"
    /\ src' = [src EXCEPT ![Family(mod[p])][file[p]] = tmp[p]]
    /\ tmp' = [tmp EXCEPT ![p] = None]
    /\ NextFile(p)
    /\ UNCHANGED <<dso, clock, machine, runs, mod, flags, rebuild, phase, placed>>

\* A source can be neither compared nor extracted; the temporary file is removed.
SourceFails(p) ==
    /\ pc[p] \in {"compare", "extract", "replace"}
    /\ Fail(p)
    /\ tmp' = [tmp EXCEPT ![p] = None]
    /\ UNCHANGED <<disk, machine, runs, placed>>

-----------------------------------------------------------------------------
\* (faulty variant of Look) --recompile is forgotten.
LookAnyway(p) ==
    /\ pc[p] = "look"
    /\ IF dso[mod[p]] # None THEN Goto(p, "link") /\ UNCHANGED choice
       ELSE Goto(p, "settle") /\ UNCHANGED choice
    /\ UNCHANGED <<disk, machine, runs, tmp, placed>>

\* Without --recompile, cuda.c takes the module that is there, or that it carries.
Look(p) ==
    /\ pc[p] = "look"
    /\ IF flags[p].recompile /\ ~flags[p].nocompile THEN Goto(p, "settle") /\ UNCHANGED choice
       ELSE IF dso[mod[p]] # None THEN Goto(p, "link") /\ UNCHANGED choice
       ELSE IF mod[p] \in machine.bundled THEN Goto(p, "unpack") /\ UNCHANGED choice
       ELSE IF flags[p].nocompile THEN GiveUp(p)
       ELSE Goto(p, "settle") /\ UNCHANGED choice
    /\ UNCHANGED <<disk, machine, runs, tmp, placed>>

\* is_file_newer_than_time, of the last source and the module.
Outdated(p) ==
    LET m == mod[p] IN dso[m] = None \/ src[Family(m)]["main"].at > dso[m].at

\* (faulty variant of Settled) The bytes say it all.
SettledByBytes(p) == ~rebuild[p] /\ ~flags[p].recompile /\ dso[mod[p]] # None

\* Nothing is to be compiled.
Settled(p) == ~rebuild[p] /\ ~flags[p].recompile /\ ~Outdated(p)

Settle(p) ==
    /\ pc[p] = "settle"
    /\ phase' = [phase EXCEPT ![p] = "build"]
    /\ Goto(p, IF Settled(p) THEN "link"
               ELSE IF mod[p] = "metal" \/ mod[p] \in machine.tools THEN "compile"
               ELSE "bundle")
    /\ UNCHANGED <<disk, machine, runs, mod, flags, rebuild, file, tmp, placed>>

SettleFails(p) ==
    /\ pc[p] = "settle"
    /\ ~rebuild[p] /\ ~flags[p].recompile
    /\ Fail(p)
    /\ UNCHANGED <<disk, machine, runs, tmp, placed>>

\* (faulty variant of CompileBegins) The compiler writes the module in its place.
CompileInPlace(p) ==
    /\ At(p, "compile", "compiling")
    /\ mod[p] \in machine.tools
    /\ tmp' = [tmp EXCEPT ![p] = [v |-> Made(Old, Old), whole |-> FALSE, at |-> clock]]
    /\ dso' = [dso EXCEPT ![mod[p]] = tmp'[p]]
    /\ UNCHANGED <<src, clock, machine, runs, choice, placed>>

\* The compiler begins to write the temporary file, and reads the sources ...
CompileBegins(p) ==
    /\ At(p, "compile", "compiling")
    /\ mod[p] \in machine.tools
    /\ tmp' = [tmp EXCEPT ![p] = [v |-> Made(Old, Old), whole |-> FALSE, at |-> clock]]
    /\ UNCHANGED <<disk, machine, runs, choice, placed>>

\* ... and ends.
CompileEnds(p) ==
    /\ At(p, "compiling", "rename")
    /\ clock' = clock + 1
    /\ LET there == src[Family(mod[p])]
       IN  tmp' = [tmp EXCEPT ![p] = [v |-> Made(there["header"].v, there["main"].v),
                                      whole |-> TRUE, at |-> clock']]
    /\ UNCHANGED <<src, dso, machine, runs, choice, placed>>

\* The second call of Compile in compile_nvidia.
CompileAgain(p) ==
    /\ pc[p] \in {"compile", "compiling", "rename"} /\ mod[p] = "cuda" /\ phase[p] = "build"
    /\ Goto(p, "compile")
    /\ phase' = [phase EXCEPT ![p] = "again"]
    /\ tmp' = [tmp EXCEPT ![p] = None]
    /\ UNCHANGED <<disk, machine, runs, mod, flags, rebuild, file, placed>>

\* No temporary file, no compiler, a nonzero status or no rename.
CompileFails(p) ==
    /\ pc[p] \in {"compile", "compiling", "rename"}
    /\ IF mod[p] = "metal" THEN GiveUp(p) ELSE Goto(p, "bundle") /\ UNCHANGED choice
    /\ tmp' = [tmp EXCEPT ![p] = None]
    /\ UNCHANGED <<disk, machine, runs, placed>>

\* extract_cuda_dso: is there a module to extract?
Bundle(p) ==
    /\ pc[p] = "bundle"
    /\ IF mod[p] \in machine.bundled THEN Goto(p, "unpack") /\ UNCHANGED choice ELSE GiveUp(p)
    /\ UNCHANGED <<disk, machine, runs, tmp, placed>>

\* llamafile_extract writes the module ...
Unpack(p) ==
    /\ At(p, "unpack", "install")
    /\ clock' = clock + 1
    /\ tmp' = [tmp EXCEPT ![p] = [v |-> Made(New, New), whole |-> TRUE, at |-> clock']]
    /\ UNCHANGED <<src, dso, machine, runs, choice, placed>>

\* What follows when a module cannot be extracted or linked: another is tried; but
\* cuda.c goes on with this one if it has only looked so far and may compile.
MoveOn(p) ==
    IF phase[p] # "look" \/ flags[p].nocompile \/ mod[p] = "metal" THEN GiveUp(p)
    ELSE Goto(p, "settle") /\ UNCHANGED choice

UnpackFails(p) ==
    /\ pc[p] \in {"unpack", "install"}
    /\ MoveOn(p)
    /\ tmp' = [tmp EXCEPT ![p] = None]
    /\ UNCHANGED <<disk, machine, runs, placed>>

\* The rename, after Compile or llamafile_extract.
Rename(p) ==
    /\ pc[p] \in {"rename", "install"} /\ Goto(p, "link")
    /\ dso' = [dso EXCEPT ![mod[p]] = tmp[p]]
    /\ placed' = [q \in Process |-> IF pc[q] = "idle" THEN {} ELSE placed[q] \cup {mod[p]}]
    /\ tmp' = [tmp EXCEPT ![p] = None]
    /\ UNCHANGED <<src, clock, machine, runs, choice>>

-----------------------------------------------------------------------------
\* LinkMetal, link_cuda_dso.
Link(p) ==
    /\ pc[p] = "link" /\ dso[mod[p]] # None
    /\ Done(p)
    /\ placed' = [placed EXCEPT ![p] = {}]
    /\ UNCHANGED <<disk, machine, runs, tmp>>

\* It does not load, lacks a symbol or finds no GPU.
LinkFails(p) ==
    /\ pc[p] = "link"
    /\ MoveOn(p)
    /\ UNCHANGED <<disk, machine, runs, tmp, placed>>

\* The process is killed; the temporary file stays, under a name nobody else uses.
Killed(p) ==
    /\ pc[p] # "idle"
    /\ Done(p)
    /\ tmp' = [tmp EXCEPT ![p] = None]
    /\ placed' = [placed EXCEPT ![p] = {}]
    /\ UNCHANGED <<disk, machine, runs>>

Next ==
    \E p \in Process :
        \/ Begin(p) \/ Compare(p) \/ Extract(p) \/ Replace(p) \/ SourceFails(p)
        \/ Look(p) \/ Settle(p) \/ SettleFails(p) \/ Bundle(p) \/ Unpack(p) \/ UnpackFails(p)
        \/ CompileBegins(p) \/ CompileEnds(p) \/ CompileAgain(p) \/ CompileFails(p)
        \/ Rename(p) \/ Link(p) \/ LinkFails(p) \/ Killed(p)

Spec == Init /\ [][Next]_vars
-----------------------------------------------------------------------------
File == [v : {Old, New}, at : Nat]
Library == [v : [Source -> {Old, New}], whole : BOOLEAN, at : Nat]

ASSUME NoneAssumption == None \notin Module \cup File \cup Library

TypeOK ==
    /\ src \in [{"metal", "cuda"} -> [Source -> File \cup {None}]]
    /\ dso \in [Module -> Library \cup {None}]
    /\ clock \in Nat /\ runs \in 0..MaxRuns[machine.mac]
    /\ machine \in Machine
    /\ pc \in [Process -> {"idle", "compare", "extract", "replace", "look", "settle", "compile",
                           "compiling", "rename", "bundle", "unpack", "install", "link"}]
    /\ mod \in [Process -> Module \cup {None}]
    /\ flags \in [Process -> Request \cup {None}]
    /\ rebuild \in [Process -> BOOLEAN]
    /\ file \in [Process -> Source]
    /\ phase \in [Process -> {"look", "build", "again"}]
    /\ tmp \in [Process -> File \cup Library \cup {None}]
    /\ placed \in [Process -> SUBSET Module]

\* Where a process is about to link a module.
Links(p) == pc[p] = "link" /\ dso[mod[p]] # None

\* A process never links a module that another is writing, or of which a crash
\* left the first half, though nobody waits for anybody.
LinkedWhole == \A p \in Process : Links(p) => dso[mod[p]].whole

\* With --recompile, the module that a process links was put in its place after
\* the process began, by the process or by another one.
RecompileHonoured ==
    \A p \in Process :
        Links(p) /\ flags[p].recompile /\ ~flags[p].nocompile => mod[p] \in placed[p]

\* A process that may compile links a Metal module made of its own ggml-metal.m,
\* though runs before it extracted the sources and crashed, or failed to compile
\* them, and others are about to; and one made of all its sources, if this run
\* extracted any of them or the update touched ggml-metal.m.  (If it touched only
\* headers, a run that extracted them and got no further leaves nothing that tells
\* the next one that the old module is stale.)
MetalFresh ==
    \A p \in Process :
        Links(p) /\ mod[p] = "metal" /\ ~flags[p].nocompile =>
            LET made == dso["metal"].v IN
            /\ made["main"] = New
            /\ made["header"] = New \/ (~rebuild[p] /\ src["metal"]["main"].at = 0)
=============================================================================
