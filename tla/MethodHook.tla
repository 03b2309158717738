------------------------------ MODULE MethodHook ------------------------------
(***************************************************************************)
(* YafyaMain.backupAndHook and doBackupAndHook (hook_main.c) rewriting     *)
(* ArtMethod structures that the runtime uses and rewrites at the same     *)
(* time: the JIT compiler installs code and the class linker resets entry  *)
(* points when a class becomes visibly initialized.  One thread hooks.     *)
(* An entry point is a record: the code it runs first and the method whose *)
(* body that code ends in.                                                 *)
(***************************************************************************)
EXTENDS Integers, Sequences

CONSTANTS
  Abi,               \* the ABI the library is built for
  Sdks,              \* API levels to consider
  Builds,            \* how the application and the runtime may be built
  Requests,          \* the calls of backupAndHook the program may make
  MaxCalls,          \* bound: how many of those calls it makes
  None,              \* no backup method
  MmapMayFail,       \* whether mmap can fail
  InitClassMayFail,  \* whether the symbols of libart.so can be missing
  MayRepeat          \* whether a request is made more than once

Targets == {r.target : r \in Requests}
Hooks == {r.hook : r \in Requests}
Backups == {r.backup : r \in Requests} \ {None}
Methods == Targets \cup Hooks \cup Backups

(***************************************************************************)
(* A method has one role, as in demoApp, demoPlugin and the tests; hook    *)
(* and backup methods serve one request.                                   *)
(***************************************************************************)
ASSUME MethodHookAssumption ==
  /\ Sdks \subseteq 21 .. 33
  /\ Builds \subseteq [debuggable : BOOLEAN, inlined : SUBSET Methods]
  /\ MaxCalls \in Nat
  /\ {MmapMayFail, InitClassMayFail, MayRepeat} \subseteq BOOLEAN
  /\ \A r \in Requests : r = [target |-> r.target, hook |-> r.hook,
                              backup |-> r.backup]
  /\ None \notin Requests \cup Targets \cup Hooks
  /\ Targets \cap Hooks = {} /\ Targets \cap Backups = {}
  /\ Hooks \cap Backups = {}
  /\ \A r, s \in Requests :
       r # s => r.hook # s.hook /\ (r.backup # s.backup \/ r.backup = None)

VARIABLES
  sdk,            \* SDKVersion
  build,          \* debuggable or not, and the methods with inlined copies
  entry,          \* entry_point_from_quick_compiled_code of each ArtMethod
  interp,         \* entry_point_from_interpreter: which bridge it is
  flags,          \* access flags of each ArtMethod
  visible,        \* methods whose class is visibly initialized
  linker,         \* classLinker and MakeInitialized... have been found
  initOk,         \* Utils.initClass returned 0 in this call
  space,          \* the statics of trampoline.c
  pc, req,        \* where the hooking thread is, on behalf of which request
  halves,         \* the calls of replaceMethod left to do, first one first
  newEntrypoint,  \* what genTrampoline returned
  res,            \* failed halves so far
  pinned,         \* methods with a JNI global reference
  log,            \* the finished calls, with their results (history)
  crashed         \* the process died

art == <<entry, interp, flags, visible>>
vars == <<sdk, build, entry, interp, flags, visible, linker, initOk, space,
          pc, req, halves, newEntrypoint, res, pinned, log, crashed>>

-----------------------------------------------------------------------------
\* What ART itself puts in an entry point.
Own(m) == [kind |-> "own", body |-> m]
Jitted(m) == [kind |-> "jit", body |-> m]

\* A trampoline jumps through the entry point found in the hook's ArtMethod,
\* a backup trampoline to the entry point hard-coded in it.
HookTrampoline(hook) == [kind |-> "hook", body |-> hook]
BackupTrampoline(original) == [kind |-> "backup", body |-> original.body]

Entries == [kind : {"own", "jit", "hook", "backup"}, body : Methods]

IsTrampoline(e) == e.kind \in {"hook", "backup"}

\* ArtMethod::IsCompilable, as setNonCompilable relies on it.
Compilable(m) ==
  /\ sdk >= 24
  /\ "dontBother" \notin flags[m] \/ (sdk >= 30 /\ "preCompiled" \in flags[m])

\* The interpreter may run the method's own code without its entry point:
\* until M the interpreter entry point says so, from O to Q unless the method
\* is native (hook_main.c:174), from Q on by the cached fast path (line 179);
\* from R on, where replaceMethod does not set native, always in debug mode
\* (lines 185-191).
MayBypass(m) ==
  \/ sdk <= 23 /\ interp[m] = "interpret"
  \/ sdk \in 26 .. 29 /\ "native" \notin flags[m]
  \/ sdk >= 29 /\ "fastInterp" \in flags[m]
  \/ sdk >= 30 /\ build.debuggable

\* The bodies that an invocation of m can end up in: a caller compiled with
\* m inlined runs its copy of m (README.md:86-100).
Bodies(m) == {entry[m].body} \cup
             (IF MayBypass(m) \/ m \in build.inlined THEN {m} ELSE {})

\* Classes of the process become visibly initialized some time after they
\* are initialized from R on; never late on x86.
LateVisible == sdk >= 30 /\ Abi \in {"arm", "aarch64"}

(***************************************************************************)
(* Dex2oat compiled the installed methods before Android N, except for     *)
(* placeholders; later methods start with every flag that makes ART take   *)
(* an optimization.                                                        *)
(***************************************************************************)
Init ==
  /\ sdk \in Sdks
  /\ build \in Builds
  /\ entry = [m \in Methods |-> Own(m)]
  /\ interp = [m \in Methods |->
                 IF m \in Backups THEN "interpret" ELSE "compiled"]
  /\ flags = [m \in Methods |-> {"preCompiled", "fastInterp"}]
  /\ visible = IF LateVisible THEN {} ELSE Methods
  /\ linker = FALSE
  /\ initOk = FALSE
  /\ space = "none"
  /\ pc = "idle" /\ req = None /\ halves = <<>>
  /\ newEntrypoint = None
  /\ res = 0
  /\ pinned = {}
  /\ log = <<>>
  /\ crashed = FALSE

-----------------------------------------------------------------------------
\* What the runtime does on its own.

\* The JIT compiler installs code for a method it may compile.
JitCompile(m) ==
  /\ ~crashed
  /\ Compilable(m)
  /\ entry' = [entry EXCEPT ![m] = Jitted(m)]
  /\ UNCHANGED <<sdk, build, interp, flags, visible, linker, initOk, space,
                 pc, req, halves, newEntrypoint, res, pinned, log, crashed>>

\* The entry points once the classes of ms are visibly initialized: those of
\* classes that were not are set to the method's own code.
Fixup(ms) == [m \in Methods |-> IF m \in ms \ visible THEN Own(m) ELSE entry[m]]

MakeVisible(m) ==
  /\ ~crashed
  /\ m \notin visible
  /\ entry' = Fixup({m})
  /\ visible' = visible \cup {m}
  /\ UNCHANGED <<sdk, build, interp, flags, linker, initOk, space, pc, req,
                 halves, newEntrypoint, res, pinned, log, crashed>>

-----------------------------------------------------------------------------
\* The hooking thread.

At(label) == ~crashed /\ pc = label

\* The method whose ArtMethod is rewritten in this half.
From == IF Head(halves) = "backup" THEN req.backup ELSE req.target

backupAndHook(r) ==
  /\ At("idle")
  /\ Len(log) < MaxCalls
  /\ MayRepeat \/ \A i \in DOMAIN log : log[i].req # r
  /\ req' = r
  /\ res' = 0
  /\ pc' = "initClass"
  /\ UNCHANGED <<sdk, build, art, linker, initOk, space, halves,
                 newEntrypoint, pinned, log, crashed>>

ShouldVisiblyInit_BelowR == sdk > 30 /\ Abi \in {"arm", "aarch64"}

\* shouldVisiblyInit.
ShouldVisiblyInit == sdk >= 30 /\ Abi \in {"arm", "aarch64"}

\* Utils.initClass; a failure is logged and hooking goes on.
InitClass ==
  /\ At("initClass")
  /\ \/ /\ ~ShouldVisiblyInit
        /\ initOk' = TRUE
        /\ UNCHANGED <<entry, visible, linker>>
     \/ /\ ShouldVisiblyInit
        /\ initOk' = TRUE
        /\ linker' = TRUE
        /\ entry' = Fixup(Methods)
        /\ visible' = Methods
     \/ /\ ShouldVisiblyInit /\ ~linker /\ InitClassMayFail
        /\ initOk' = FALSE
        /\ UNCHANGED <<entry, visible, linker>>
  /\ pc' = "setNonCompilable"
  /\ UNCHANGED <<sdk, build, interp, flags, space, req, halves, newEntrypoint,
                 res, pinned, log, crashed>>

NonCompilable_KeepingPreCompiled(fs) ==
  IF sdk < 24 THEN fs ELSE fs \cup {"dontBother"}

\* setNonCompilable on the flags of one method.
NonCompilable(fs) ==
  IF sdk < 24 THEN fs
  ELSE (fs \cup {"dontBother"}) \ (IF sdk >= 30 THEN {"preCompiled"} ELSE {})

Halves_TargetFirst(r) ==
  IF r.backup # None THEN <<"target", "backup">> ELSE <<"target">>

\* The calls of replaceMethod in doBackupAndHook.
Halves(r) == IF r.backup # None THEN <<"backup", "target">> ELSE <<"target">>

\* doBackupAndHook makes both methods non-compilable first.
SetNonCompilable ==
  /\ At("setNonCompilable")
  /\ flags' = [m \in Methods |-> IF m \in {req.target, req.backup}
                                 THEN NonCompilable(flags[m]) ELSE flags[m]]
  /\ halves' = Halves(req)
  /\ pc' = "genTrampoline"
  /\ UNCHANGED <<sdk, build, entry, interp, visible, linker, initOk, space,
                 req, newEntrypoint, res, pinned, log, crashed>>

\* replaceMethod is over; doBackupAndHook goes on to the target whatever the
\* result of the backup half was.
EndHalf ==
  /\ halves' = Tail(halves)
  /\ pc' = IF Tail(halves) = <<>> THEN "return" ELSE "genTrampoline"

\* replaceMethod gets a trampoline.
GenTrampoline ==
  /\ At("genTrampoline")
  /\ space \in {"none", "open"}
  /\ space' = "open"
  /\ newEntrypoint' = IF Head(halves) = "backup"
                      THEN BackupTrampoline(entry[req.target])
                      ELSE HookTrampoline(req.hook)
  /\ pc' = "writeEntry"
  /\ UNCHANGED <<sdk, build, art, linker, initOk, req, halves, res, pinned,
                 log, crashed>>

GenTrampolineFails_NoReturn ==
  /\ At("genTrampoline")
  /\ MmapMayFail
  /\ space \in {"none", "open"}
  /\ space' = IF space = "open" THEN "stale" ELSE "none"
  /\ newEntrypoint' = None
  /\ res' = res + 1
  /\ pc' = "writeEntry"
  /\ UNCHANGED <<sdk, build, art, linker, initOk, req, halves, pinned, log,
                 crashed>>

\* allocTrampolineSpace failed and replaceMethod returns 1.  The end of an
\* earlier space stays in trampolineSpaceEnd (module Trampoline).
GenTrampolineFails ==
  /\ At("genTrampoline")
  /\ MmapMayFail
  /\ space \in {"none", "open"}
  /\ space' = IF space = "open" THEN "stale" ELSE "none"
  /\ newEntrypoint' = None
  /\ res' = res + 1
  /\ EndHalf
  /\ UNCHANGED <<sdk, build, art, linker, initOk, req, pinned, log, crashed>>

\* The next call copies the template to NULL.
GenTrampolineFaults ==
  /\ At("genTrampoline")
  /\ space = "stale"
  /\ crashed' = TRUE
  /\ UNCHANGED <<sdk, build, art, linker, initOk, space, pc, req, halves,
                 newEntrypoint, res, pinned, log>>

WriteEntry ==
  /\ At("writeEntry")
  /\ entry' = [entry EXCEPT ![From] = newEntrypoint]
  /\ pc' = "setMode"
  /\ UNCHANGED <<sdk, build, interp, flags, visible, linker, initOk, space,
                 req, halves, newEntrypoint, res, pinned, log, crashed>>

Mode_KeepingFastPath(fs) ==
  IF sdk < 26 THEN fs
  ELSE fs \cup (IF sdk <= 29 THEN {"native"} ELSE {})

\* The flags replaceMethod leaves, so that the interpreter uses the entry
\* point.
Mode(fs) ==
  IF sdk < 26 THEN fs
  ELSE (fs \ (IF sdk >= 29 THEN {"fastInterp"} ELSE {}))
         \cup (IF sdk <= 29 THEN {"native"} ELSE {})

\* The interpreter entry point of m once it has been copied from method to;
\* ArtMethod has that field until M.
Interp(m, to) == IF sdk <= 23 THEN interp[to] ELSE interp[m]

SetMode ==
  /\ At("setMode")
  /\ LET to == IF Head(halves) = "backup" THEN req.target ELSE req.hook
     IN  interp' = [interp EXCEPT ![From] = Interp(From, to)]
  /\ flags' = [flags EXCEPT ![From] = Mode(flags[From])]
  /\ EndHalf
  /\ UNCHANGED <<sdk, build, entry, visible, linker, initOk, space, req,
                 newEntrypoint, res, pinned, log, crashed>>

\* The global references that backupAndHookNative keeps.
Refs(r) == {r.hook, r.backup} \ {None}

\* backupAndHookNative pins the methods and returns true, or returns false
\* and backupAndHook throws.
Return ==
  /\ At("return")
  /\ pinned' = pinned \cup (IF res = 0 THEN Refs(req) ELSE {})
  /\ log' = Append(log, [req |-> req, ok |-> res = 0, init |-> initOk])
  /\ req' = None
  /\ pc' = "idle"
  /\ UNCHANGED <<sdk, build, art, linker, initOk, space, halves,
                 newEntrypoint, res, crashed>>

Hooking ==
  \/ \E r \in Requests : backupAndHook(r)
  \/ InitClass \/ SetNonCompilable
  \/ GenTrampoline \/ GenTrampolineFails \/ GenTrampolineFaults
  \/ WriteEntry \/ SetMode \/ Return

Runtime == \E m \in Methods : JitCompile(m) \/ MakeVisible(m)

Next == Hooking \/ Runtime

Spec == Init /\ [][Next]_vars

-----------------------------------------------------------------------------
\* r succeeded, classes were initialized before, and its target has not been
\* hooked again, nor is being.
Latest(r) ==
  /\ pc = "idle" \/ req.target # r.target
  /\ \E i \in DOMAIN log :
       /\ log[i] = [req |-> r, ok |-> TRUE, init |-> TRUE]
       /\ \A j \in DOMAIN log : j > i => log[j].req.target # r.target

\* Neither a half of a call nor Utils.initClass has failed.
AllWell ==
  /\ ~crashed /\ res = 0
  /\ req = None \/ pc = "initClass" \/ initOk
  /\ \A i \in DOMAIN log : log[i].ok /\ log[i].init

\* Where hooking is said to work: not up to 6.0, nor in debug mode from R on,
\* nor for callers with m inlined (README.md:31, 88, hook_main.c:187).
Supported(m) ==
  /\ sdk >= 24
  /\ ~(sdk >= 30 /\ build.debuggable)
  /\ m \notin build.inlined

\* The methods invoked next when m is invoked and a hook that runs calls its
\* backup.
Leads(m) == {r.backup : r \in {q \in Requests : q.hook \in Bodies(m)}} \ {None}

(***************************************************************************)
(* Shape of the state; in particular every entry point a caller can load   *)
(* is code, never the NULL of a failed genTrampoline (hook_main.c:160).    *)
(***************************************************************************)
TypeOK ==
  /\ sdk \in Sdks
  /\ build \in Builds
  /\ entry \in [Methods -> Entries]
  /\ interp \in [Methods -> {"interpret", "compiled"}]
  /\ flags \in [Methods ->
                  SUBSET {"native", "dontBother", "preCompiled", "fastInterp"}]
  /\ visible \subseteq Methods
  /\ linker \in BOOLEAN /\ initOk \in BOOLEAN
  /\ space \in {"none", "open", "stale"}
  /\ pc \in {"idle", "initClass", "setNonCompilable", "genTrampoline",
             "writeEntry", "setMode", "return"}
  /\ req \in Requests \cup {None}
  /\ halves \in {<<>>, <<"target">>, <<"backup", "target">>}
  /\ newEntrypoint \in Entries \cup {None}
  /\ res \in 0 .. 2
  /\ pinned \subseteq Methods
  /\ log \in Seq([req : Requests, ok : BOOLEAN, init : BOOLEAN])
  /\ crashed \in BOOLEAN

(***************************************************************************)
(* After a backupAndHook in which Utils.initClass and both halves          *)
(* succeeded every invocation of a target runs the hook and no invocation  *)
(* of a backup runs the placeholder, whatever the JIT compiler, the class  *)
(* linker and the interpreter do afterwards and whatever fails in other    *)
(* calls: what the flag changes of hook_main.c:126-137 and 174-193 and     *)
(* Utils.initClass are for.  Only where the repository says that hooking   *)
(* works at all: API level 24 and later, not in debug mode from R on, and  *)
(* for a method that no compiled caller has inlined.                       *)
(***************************************************************************)
HookEffective ==
  \A r \in Requests :
    Latest(r) =>
      /\ Supported(r.target) => Bodies(r.target) = {r.hook}
      /\ r.backup # None /\ Supported(r.backup)
           => r.backup \notin Bodies(r.backup)

(***************************************************************************)
(* As soon as an invocation of a target can run the hook, in the middle of *)
(* doBackupAndHook too, the hook can call its backup: it never runs the    *)
(* body of the placeholder (hook_main.c:215-223 does the backup first), as *)
(* long as nothing fails and where hooking the backup works.               *)
(***************************************************************************)
HookHasBackup ==
  \A r \in Requests :
    /\ AllWell /\ r.backup # None /\ Supported(r.backup)
    /\ r.hook \in Bodies(r.target)
    => r.backup \notin Bodies(r.backup)

(***************************************************************************)
(* A method that jumps to a trampoline is one the JIT compiler leaves      *)
(* alone (hook_main.c:207-213, comment).                                   *)
(***************************************************************************)
TrampolineNotCompiled ==
  \A m \in Methods : IsTrampoline(entry[m]) => ~Compilable(m)

(***************************************************************************)
(* Invoking a target never comes back to the same method through hooks     *)
(* that call their backups, in any state: README.md:82 presents the backup *)
(* as the way to invoke the target.                                        *)
(***************************************************************************)
NoRecursion ==
  \A S \in (SUBSET Methods) \ {{}} : \E m \in S : Leads(m) \cap S = {}

(***************************************************************************)
(* If backupAndHook throws "Failed to hook" (YafyaMain.java:167), the      *)
(* target does not run the hook of that call.                              *)
(***************************************************************************)
FailureLeavesTarget ==
  \A i \in DOMAIN log :
    ~log[i].ok => log[i].req.hook \notin Bodies(log[i].req.target)

\* The abstract state.
Dest == [m \in Methods |-> entry[m].body]

Broken == res > 0 \/ (pc \notin {"idle", "initClass"} /\ ~initOk)

Abs == INSTANCE HookAbs WITH
         dest <- Dest, settled <- visible, broken <- Broken

(***************************************************************************)
(* backupAndHook as HookAbs sees it: nothing but the two writes of entry   *)
(* points (hook_main.c:161) and the class linker changes where a method    *)
(* leads, and unless something failed the backup leads to where the target *)
(* led before the target leads to the hook ("hook backup method and        *)
(* redirect back to the original target method", hook_main.c:217).         *)
(***************************************************************************)
ImplementsHook == Abs!Spec
=============================================================================
