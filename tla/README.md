# TLA+ models and proofs of YAHFA with xHook

The repository hooks code in an Android process in two ways. *Method hooking* rewrites the
`ArtMethod` structures of the Android runtime so that a Java method runs another one
(`library/src/main/jni/{hook_main,trampoline,utils,fake_dlopen}.c`, `YafyaMain.java`).
*PLT hooking* is a copy of xHook: it walks over `/proc/self/maps` and replaces function pointers
in loaded ELF libraries (`jni/xhook/`). `start` in `hook_main.c` ties them together only as an
example of use. Both rewrite memory that other threads, the runtime or the dynamic linker use and
change at the same time. That, what happens when one step of several fails, and long
sequences of calls are what these models are about.

Line numbers below are those of the files under `src/library/src/main/`; `src/README.md` is the repository's own README.

## Inventory

| Component | State it keeps | Operations | Hard behaviour | What makes it correct |
|---|---|---|---|---|
| Trampoline allocator (`trampoline.c`) | `currentTrampolineOff`, `trampolineSpaceEnd`, code pages | `genTrampoline`, `allocTrampolineSpace`, `setupTrampoline` | statics without a lock; a failed `mmap` leaves the two statics inconsistent; the last bytes of a page; an offset squeezed into the bits of an instruction | each returned trampoline owns its bytes for good, lies in mapped memory and loads the right word |
| Method hooking, native (`hook_main.c`) | entry points, flags, interpreter entry point of each `ArtMethod`; offsets per API level | `init`, `findMethodNative`, `backupAndHookNative`, `doBackupAndHook`, `replaceMethod`, `setNonCompilable` | the JIT compiler, class linker and interpreter use and rewrite the same fields; two halves, one can fail; hooking again | a successful hook stays effective where hooking is supported; the backup works as soon as the hook can run; backups end in the target |
| Method hooking, Java (`YafyaMain.java`) | none of its own | `doHookDefault`, `findAndHook`, `findAndBackupAndHook`, `backupAndHook`, `checkCompatibleMethods` | items that fail in the middle of a list, Exceptions and Errors, chains of hooks | each valid item is handed over once; nothing gets arguments it cannot take |
| Annotations (`PookAnnotation.java`) | two maps by target during a call | `hookClass` | methods come in any order; six blocks that are almost alike | as above |
| Visible initialization (`utils.c`) | `classLinker`, `MakeInitializedClassesVisiblyInitialized` | `shouldVisiblyInit`, `visiblyInit`, the search of the class linker in `Runtime` | from API level 30 entry points are reset late; several threads search at once; words that look like the JavaVM or the class linker | no entry point is reset after it was hooked; only the class linker is passed on |
| Hidden linker access (`fake_dlopen.c`) | addresses of three functions | `init_dlopen`, `callback`, `art_dlopen`, `art_dlsym` | libraries reported in any order, an iteration that stops early | all that is there is found |
| xhook core, threads (`xh_core.c`) | four flags, two mutexes, the worker, the action for SIGSEGV, lists of infos | `register`, `ignore`, `refresh` (two modes), `clear`, `enable_sigsegv_protection` | double-checked flags, a worker with a condition variable, `pthread_join` in clear, a process-wide signal handler | lists do not change under a walk; handler there when needed, unless it took itself away, and gone afterwards; one worker; every call returns |
| xhook core, refresh (`xh_core.c:223-483`) | `xh_core_map_info` and the map being built | `xh_core_refresh_impl`, `xh_core_hook_impl`, header check | libraries come and go between any two lines that are read; matching and ignoring; libraries that moved | what stays mapped is hooked, nothing else; entries freed once |
| xhook ELF (`xh_elf.c`) | `xh_elf_t`, function pointers in libraries | `xh_elf_check_elfheader`, `xh_elf_init`, `xh_elf_hook`, relocation iterators, hash lookups, sleb128 | packed relocations with state from group to group, two hash tables, widths and signs, failures in the middle | exactly the pointers bound to the symbol are replaced |
| xhook memory protection (`xh_util.c`) | page permissions | `get_mem_protect`, `get_addr_protect`, `set_addr_protect` | a pointer on two pages, `mprotect` that fails | stores hit writable pages; the permissions come back |
| Replacement functions, logging, version, `queue.h`/`tree.h`, demos | none or third-party | – | – | not modelled |

Interactions: `doHookDefault`, `hookClass` and the application call `YafyaMain.backupAndHook`, which calls
`Utils.initClass` (`utils.c`), then `backupAndHookNative`, which calls `genTrampoline` once per half. `visiblyInit` looks its
functions up through `fake_dlopen.c`. The xhook API calls `xh_core`; a refresh runs in the caller or in the worker, under
`xh_core_refresh_mutex`, and calls `xh_elf_*` and `xh_util_*` inside `sigsetjmp`. The rest are shared structures:
`ArtMethod` and `Runtime` with the runtime, `/proc/self/maps` and library images with the dynamic linker, the SIGSEGV
action with the whole process.

## Modules

| Module | Models | Notes |
|---|---|---|
| `TrampolineSpace` | sizes, rounding, space test and overlap of trampolines | operators only |
| `Trampoline` | `genTrampoline`, `allocTrampolineSpace` | a step per access to the two statics |
| `TrampolineAbs` | the promise: aligned trampolines that share no byte | refined by `Trampoline` |
| `MethodHook`, `MC_MethodHook` | `backupAndHook` down to `replaceMethod`, next to the runtime | a step per store other threads can see |
| `HookAbs` | the promise: where methods lead, changed one at a time | refined by `MethodHook`, used by `HookItems` |
| `HookItems`, `MC_HookItems` | the Java side: items, annotations, reflection, checks | composed with `HookAbs` |
| `ArtLayout` | offsets of `init`, patches of `setupTrampoline`, `ArtMethod` as ART declares it | operators only |
| `YafyaInit`, `MC_YafyaInit` | `YafyaMain.init` and `visiblyInit` | a step per library, per access to a static |
| `XhCore` | the control of `xh_core.c` | a step per access to a flag or per critical section |
| `XhRefresh`, `MC_XhRefresh` | one refresh, with hooking, next to the dynamic linker | a step per line read, per header, per hook info, and per access to a pointer |
| `XhElfFormat` | how `xh_elf.c` reads tables and relocation sections | operators only |
| `XhElf`, `MC_XhElf` | `xh_core_hook` of one library, relocation by relocation, and `xh_util.c` | a step per relocation, per system call, per store |
| `XhElfWritten` | what a link editor writes, stated without the loops that read it: a hypothesis of proofs | operators only |
| `*_proofs` | theorems | see [Proofs](#proofs) |

Each module keeps the names of the source. Definitions with a suffix after an underscore
(`Fits_IgnoringSize`, `Clear_NoStop`, ...) are faulty variants of the definition that follows;
no specification uses them. Put in the place of the correct one, each makes the checker
report the property that `PROJECT.json` names with it.

### Trampoline

`currentTrampolineOff` and `trampolineSpaceEnd` are the two statics; `mapped` is what `mmap`
returned, `tramps` the trampolines whose bytes are intact, `issued` those that were returned (history).
Actions follow `genTrampoline` in order: `Call` (lines 126-130), `Map` / `MapFails` (131-133, 215-227),
`SetEnd` (134-136), `Emit` / `Fault` (139-187), `Bump` (189-198). A value that the code reads again
inside a call may come from the register of the first read: `Reread` is that choice. Machine code is
abstracted to the method it loads and the entry point it hard-codes, with the real template sizes of each ABI; `Bump` leaves out
that the address returned for a target skips the four bytes of `code_size_` (lines 189-192): a trampoline is identified by where its bytes begin.

### MethodHook and HookAbs

State per method: `entry`, `interp`, `flags` and `visible`. An entry point is the kind of code and
the method whose body it ends in, so `Bodies(m)` says what an invocation can run at that moment.
`backupAndHook` → `InitClass` → `SetNonCompilable` → for the backup, then for the target,
`GenTrampoline` (or its failure or its fault) → `WriteEntry` → `SetMode` → `Return`.
`JitCompile` and `MakeVisible` are the runtime's own steps, between any two of these. They are
external: modelled from what the code and its comments rely on (`setNonCompilable`, `hook_main.c:174-193`,
`YafyaMain.java:160`). One thread hooks; `Trampoline` shows why two cannot.

An invocation does not always use the entry point. `MayBypass` is the interpreter: up to 6.0 its own entry point decides, from O to Q whether the method
is native, from Q on also the cached fast path. From R on `replaceMethod` does not set native, and in debug mode the interpreter
is used all the same ("hook would fail on debug mode though", `hook_main.c:185-191`). A caller that was compiled with the method inlined runs its copy
(`src/README.md:86-102`). `build`, chosen initially from `Builds`, says which of these a process has. The repository itself gives up some cases:
API levels up to 6.0 (`src/README.md:31`), inlined methods (line 88), and debug mode from R on. `Supported(m)` is the rest, and `HookEffective` and `HookHasBackup`
claim something of supported methods only. The other properties and the refinement hold on every level and in every build.

`HookAbs` keeps only `dest`, the method each method leads to, `settled`, the methods whose class can no longer reset entry points, and
`broken`, whether something failed in the call under way. `MethodHook!Abs` is its instance with `dest` the body of the entry point,
`settled` the visibly initialized methods and `broken` a failed half or a failed `Utils.initClass`.

### HookItems

The same `HookAbs`, now as the lower layer: `native` is its state, and `Read`, `Backup`, `Target`, `InitClass` and `Return` take its
steps in the order of `backupAndHookNative`. Above it are the three ways in: `LoadInfo` and `Item` (`doHookDefault`, `doHookItemDefault`),
`DeclaredMethods`, `Collect` and `Install` (`hookClass`), `FindMethod` (`findAndBackupAndHook`). `Check` is `backupAndHook` up to
`checkCompatibleMethods`. `Resume` is where the exception of a failed call is caught: in both loops, but not by
`findAndBackupAndHook`. `Escape` is an `Error`, which no `catch (Exception e)` stops. Which methods a class declares, what types can
be assigned to what, and what loading a class ends in are constants. `log` is the sequence of the calls of `backupAndHookNative`, each with the call under way
and its `Slot`: the position of the hook item in the list or the annotated target. `HandedOver` counts by these, so that the same arguments twice are two.

### ArtLayout and YafyaInit

`ArtLayout!Layout` translates the `switch` of `init`; `Fields` is the declaration of `ArtMethod` in ART for each level and
size of a pointer, from which `OffsetOf` computes offsets by alignment alone, so that two different descriptions are
compared. `Patched` and `Displacement` are the bytes `setupTrampoline` writes and what the processor reads from them.
In `YafyaInit`, `SetOffsets`, `Callback` and `EndOfLibs` are `YafyaMain.init` with `dl_iterate_phdr`; then threads run
`visiblyInit` → `Check` → `Find` → `SetLinker` → `SetMake` → `Invoke` or `Fail`, one step per access to the two
statics. Memory is words at offsets of objects. `isValidAddress` may answer "invalid" for everything when `/dev/random` cannot be opened.
It looks at four bytes of a candidate, and the test then reads up to 499 more (`utils.c:110-112`): `LooksLikeLinker` takes them to be there, so that
a fault at the end of a mapping is not modelled. `missed`, the excuse of `FailsForReason`, is one flag for the process: after one wrong answer of
`isValidAddress` nothing is claimed about failures of any thread.

### XhCore

Clients call any of the API operations, at most `MaxOps` each; workers are threads made by
`pthread_create`. The flags `xh_core_inited` and so on are read without the mutex, so each
read is a step. Critical sections in which nothing can be seen from outside are one step.
Others (`xh_core_init_once`, `xh_core_init_async_once`, `xh_core_clear`) hold `mutex` over several.
`SwitchInited` says whether the program switches the protection while the library is initialized, `Disciplined` whether its threads wait
for each other before they clear, and between registering and refreshing: the code needs both, see the hazards.
The inside of a refresh is reduced to *traversing* the lists, protected or not.
`Fault` is a SIGSEGV anywhere in the process while `xh_core_sigsegv_flag` is 0: the handler puts the old action back and leaves `xh_core_init_ok` at 1
(`xh_core.c:97-98`), so that every refresh up to the next clear is inside `sigsetjmp` without it. `ProtectedInstalled` says that this is the only way to get there.

### XhRefresh

Takes over where `XhCore` stops: `InUseAlone` there allows one refresh at a time here.
`image` is what is mapped at each of a few bases; `Load` and `Unload` are the linker's steps, at any time.
`ReadLine` reads the next line of the maps as they are *then* and does everything up to the
header check (lines 333-403). `HeaderOk` is the bookkeeping of lines 408-459. `ElfInit` and the
`Hook...` actions are `xh_core_hook_impl` and `xh_elf_hook` for one hook info; of these `HookFinds`, `HookQueries`, `HookSaves` and
`HookStores` are `xh_elf_replace_function`: the test whether the pointer is replaced already, the query of its protection, `*old_func` and the store (`xh_elf.c:455-481`),
with the linker's steps between them. The query takes any mapping whose line *contains* the path (`strstr`, `xh_util.c:62`): `contains` of a library are the
paths that its own contains. What is mapped at the address after that is used unchecked: `checked` is the library the query found,
and `wild` records that the address of a pointer was used in a library other than the one whose tables were parsed. There it may be any word (`Words`). A read of
memory that is gone ends the work on the library (SIGSEGV, `siglongjmp`); memory
of another library there may or may not fault. `EndRefresh` frees what was not found again.
`Verdict` and `Match` are the two searches of the ignore infos; `Wanted` states what they are for
and shares nothing with them but the test of one ignore info.

Abstractions: a regular expression is the set of paths it matches; a library has one pointer per
imported symbol; `mprotect` fails only where nothing is mapped (`XhElf` has the other failures); `malloc`
and `fopen` succeed; only the first mapping of a library has offset 0.

### XhElfFormat and XhElf

The opposite abstraction: one library that stays mapped, with its tables. `Parse` is `xh_elf_init`, `FindSymidx` the lookups in
`DT_HASH` and `DT_GNU_HASH`, `PlainNext` and `PackedNext` the iterators over Rel, Rela and packed sections, with `Sleb128` at the width of
`size_t`. `XhElf` hooks with them: `CheckHeader`, `ElfInit`, `StartHook`, `OpenSection`, `Reloc`, and for a pointer that is to be
replaced `Query` → `Protect` → `Save` → `Store` → `Restore`, with the two `mprotect` calls that may fail.
`MC_XhElf` *writes* libraries from a list of relocations the way a link editor does, so that reading is checked against
writing. Addresses count words, the two hash functions are constants with collisions, and the dump functions are left out.

`XhElfWritten` says the same of libraries of any size, as a hypothesis for the proofs: `HashRight` (chains of `DT_HASH` end, symbols of
`DT_GNU_HASH` lie in the order of their buckets, the last one of a bucket is marked, the Bloom filter has their bits), `PackedRight` (the values of a
packed section are its groups, each with the values its relocations share before those they have of their own) and `SectionRight` (an entry describes a relocation
or points before the library). A library is `Readable` if it is refused or what is read of it is what was written, as far as that is there: a packed
section may be cut off. It is `Complete` if it is not a damaged one, or all relocations are there and the PLT has at most one of a symbol.
That `Parse` finds the tables and `Sleb128` turns the bytes of a packed section into its values is part of the hypotheses.
`MC_XhElf` assumes (`AllWritten`), and TLC evaluates, that every library of `XhElf_all`, the damaged ones included, is `Readable` and `Complete`,
and that the library of `XhElf_noplt`, which the code reads with the wrong stride, is not `Readable`. `Suited` has it evaluate the hypotheses of single
theorems, `StraddleAlike`, `OneOriginal` and `NoReturn`, on the libraries and hooks of each run.

## Runs

| Run | What it asks | Result |
|---|---|---|
| `Trampoline_one` | one thread, failing `mmap`, aarch64 (two sizes, one not a multiple of the pointer size); 10,889 states | intact, refinement of `TrampolineAbs`, faults only at NULL |
| `Trampoline_race` | two threads | **violated**: two threads get the same memory |
| `MethodHook_all` | API levels 21-33 on arm, four builds, one target, two hooks (one with, one without backup), every failure; 343,000 states | holds, refinement of `HookAbs` included |
| `MethodHook_failed` | a target is not hooked when `backupAndHook` throws | **violated**: the target half goes on after the backup half failed |
| `MethodHook_repeat` | the same call twice | **violated**: hook and backup call each other for ever |
| `HookItems_all` | any two of eleven calls of the Java API, every failure; 66,988 states | holds |
| `YafyaInit_all` | API levels 21-34, four ABIs, eight processes, two threads; 38,762 states | holds |
| `XhCore_all` | two clients with the whole API and the worker; safety and liveness; 323,119 states | holds |
| `XhRefresh_all` | loads, unloads, two refreshes, one clear; three registrations; 3,382,599 states | holds |
| `XhRefresh_ignored` | first matching hook is ignored by symbol | **violated**: the library is not hooked for any symbol |
| `XhElf_all` | valid and damaged libraries, three lists of hooks, `mprotect` may fail; 60,778 states | holds |
| `XhElf_noplt` | a 64-bit library without PLT relocations | **violated**: read with the stride of Rel, not hooked |

Bounds, and why they are enough:

* `Trampoline_one`: a space of 64 bytes holds two or three trampolines, two pages: every way of
  filling a space, the switch to a new one, and a failed `mmap` before, between and after occur.
* `MethodHook_all`: `MaxCalls = 2` gives each order of the two hooks of one target;
  every API level is an initial state, so each branch on `SDKVersion` is taken; so is each of four builds: optimized, optimized with the target
  or the placeholder inlined somewhere, and debuggable. The theorems do not depend on either.
* `HookItems_all`: two calls in a row, since calls meet only in what the first one has hooked. The plugins have items of every outcome before valid ones;
  the annotated classes have two hooks for one target, a backup without a hook, a wrong kind and wrong types.
  Hooks of one target share no backup with those of another, nor is a backup a target: the code does not check that, and such a
  backup ends up leading to the target hooked last.
* `YafyaInit_all`: 34 is the first level the `switch` does not know. The eight processes put the JavaVM and the class linker at both ends of the ranges
  that are searched, next to decoys, in runtimes with and without the symbol of the virtual table, and lack one thing each.
  Two threads with two calls each: a call that begins after, during and before a successful one.
* `XhCore_all`: `MaxOps = 3` gives each client register, refresh and clear, and any other three; together six calls, so a refresh
  after a clear and a second worker occur; two workers, as a new one may exist while the old one exits.
* `XhRefresh_all`: two bases and four loads: a library can move, a copy can be mapped below
  it, another library can take its place in the middle of a refresh and in the middle of `xh_elf_replace_function`. The path of one library contains that of another. The four libraries are two
  layouts, a file that is not ELF and a damaged one. `MayReload = FALSE` keeps a library from
  coming back at the base that xhook remembers: xhook does not notice such a reload
  (`xh_core.c:428`), and with `TRUE` TLC finds `Hooked` violated.
* `XhElf_all`: `WordBits = 16` is the least width at which a sleb128 value can end inside, at and beyond it. Groups of packed relocations share info, delta and addend
  in all combinations that matter; a pointer lies on two pages; the hash tables have a collision and an imported symbol; each damaged file differs from a valid one in one place.
* The violations need no more than one or two calls.

Deadlock checking is off: each program makes a bounded number of calls and stops, and a crashed
process takes no step. Further disagreements that have no run of their own are in the notes of the hazards in `PROJECT.json`:
with the constants named there TLC finds them too. With `SwitchInited = TRUE` the handler of xhook stays installed after a clear, or a zeroed
`sigaction` is (`SigRestored`); with `Disciplined = FALSE` a clear that overlaps with a refresh removes the handler under it or leaves two workers, and
a registration overlaps with a walk.

Fairness (`XhCore!Fairness`): a thread inside a call and a running worker keep running, which is what the
scheduler does. Weak fairness is enough for the mutexes: discipline leaves the worker and clients that refresh or register as contenders,
clients make a bounded number of calls, and the worker cannot take a mutex again and again without a new post: it waits, refreshes
once per post, or ends. Nobody is forced to call anything, and a spurious wakeup is possible and never relied on.

## Proofs

Checked by TLAPS for every value of the constants that satisfies the named assumptions. Every hypothesis of a theorem
on what the code is given (`FirstDecides`, `StraddleAlike`, ...) is true in the instances of the passing runs.

* `Trampoline_proofs`, for one thread (`OneThread`): `TypeCorrect`, `TrampolinesStayIntact`, `OnlyNullFaults`,
  `NoFaultUnlessMmapFails` and `Implementation` (the specification implies `TrampolineAbs!Spec`),
  for any ABI, sizes and addresses. The inductive invariant says that every intact trampoline lies in a mapped
  space and, within the current one, below `currentTrampolineOff`; and that either the two statics
  delimit the rest of one mapped space or the offset is NULL. Without that an overlap cannot be excluded.
* `MethodHook_proofs`: `TypeCorrect` (no entry point is ever NULL) and `TrampolinesNeverCompiled`, for any
  requests and API levels. `TrampolineNotCompiled` is not inductive: between `setNonCompilable` and the store one must know
  that the method about to be rewritten stays non-compilable (`Prepared`) and is one of the request's (`HalvesLeft`).
  `HookImplemented`: `MethodHook` implements `HookAbs`. The invariant `JInv` adds
  that an entry point the runtime installs leads to the method itself (`OwnBody`), that no hooked method is still to be
  initialized unless something failed (`NothingLate`), what the new entry point of a half leads to (`Aimed`),
  and that the target half starts with the backup in place (`BackedUp`). Each action then maps to one step or to a stutter.
* `HookEffective_proofs`: `HookStaysEffective` and `HookAlwaysHasBackup`, of supported methods. `HookAlwaysHasBackup` is only about calls in which nothing failed and only
  says that the placeholder is not run; where the backup leads instead is part of `HookImplemented`. The invariant `EInv` follows a request through its halves: what
  is already written stays written, cannot be compiled over or bypassed by the interpreter, and the latest successful request of each target is
  the one in place, however many there are.
  `NeverRecursive`, if no call is made twice (`MayRepeat = FALSE`; `MethodHook_repeat` shows the other case): each backup
  leads to the hook of an *earlier* call or to the target. The proof takes the earliest call in an alleged cycle, by well-foundedness of the natural numbers.
* `HookItems_proofs`: `TypeInvariance`, and `ArgumentsAlwaysFit`, for any classes, plugins, annotations and calls that `HookItemsAssumption` and
  `CallsAssumption` allow (a type can be assigned to itself; of the methods a class has, one overrides the others; calls pass methods or null).
  It holds while `BackupsApart`: no backup is shared by two targets or a target itself, which the code leaves to its users. The invariant
  `IInv` has that a method leads to itself, to the hook of a request or is a backup (`Redirected`), and that every request past the checks satisfies
  them (`Checked`); `BackupsFit` follows a destination from where it is read to where it is stored, while a class initialization may come between.
  `AlwaysHandedOver`, which says what a call has handed over by the time it ends, unless in an `Error`: its invariant follows each kind of call from
  step to step (`Progress`: the requests made so far are those of the items or targets already passed), keeps a call from ending twice (`Once`) and
  what has ended as it was (`Completed`); that no slot is served twice (`OncePerSlot`) follows from where the loop is. An item that is listed twice, or two items that lead to the same
  methods, are two slots.
* `XhCore_proofs`: `TypeCorrect` (`pthread_join` gets the identifier of a created thread) and `RefreshExclusive`,
  for any numbers of clients and workers and all operations. The invariant ties each lock to the places
  where its owner can be, and `tid` to `asyncInitOk`. For disciplined clients, `WorkerIsAlone`, `WorkerIsStopped` and `ListsStayFrozen`: `DInv`
  says which places two clients can be at together (`Apart`), what the flags are at each place (`Stages`), and that a worker that is
  not joined is the one in `tid` with all flags set (`WorkerKnown`). With `SwitchInited = FALSE` also `HandlerWhenNeeded` and
  `HandlerRestored`: the handler is xhook's exactly while `xh_core_init_ok` and the protection are set and it has not put the old one back (`yielded`).
* `XhRefresh_proofs`: `TypeCorrect`, `MapsNeverShare` (the branch "repeated map info when update", `xh_core.c:418-426`, is
  dead code, and nothing in use is freed) and `OnlyWanted`, an action property: while the library that the query of the protection found is still there, a pointer of it
  is replaced only by the function of a hook info that matches a path which the library's own contains, and is not ignored for it. That it is the pointer of that hook info's symbol is
  claimed if it is the library whose tables were parsed. `AtWork` carries what was tested before (`xh_core.c:255-278`, the query) to the store. Nothing is claimed about
  what is swapped in after the query: the code overwrites it.
  `OriginalReached`: while no two hook infos are about one symbol and no library takes the place of another one in the middle of `xh_elf_replace_function` (`wild`), `*old_func` is unset or
  the original function, and a pointer that is not the original was put there by a hook info whose `*old_func` is set (`OldInv`, with `NotYetReplaced` and `Saved` between the test and the store).
  `StableHooked`: `HookedInv` says where the walk over the maps is (`WalkOK`), that nothing it remembers confuses a library that stays mapped with
  another one (`StableOK`), which hook infos have been taken (`HookingOK`), that a library that came to a place it remembers for another one has no entry there (`Stranger`), that a library with an entry is hooked (`EntriesDone`), and that one
  that stays mapped has an entry once the walk has passed it (`StableSeen`). It needs `FirstDecides`, that the first hook info
  for a library is to be applied to it: `XhRefresh_ignored` is the other case; and `MayReload = FALSE`, since with `TRUE` TLC finds `Hooked` violated.
* `XhElf_proofs`, for any library, hooks, and sizes of pages and pointers, and any failure of `mprotect`. What hooking makes of a file that is
  read right (premise `[]ReadsRight`): `TypeCorrect`, `StoresWritable`, `OnlySoughtReplaced`, `ProtComesBack` and `CallsAlwaysEnd`.
  `EInv`: the pointer under replacement is a sought one, its pages are known and writable at the store. `PInv`: every page but those being changed has
  its old permissions or is in `unrestored` (`Kept`, `OldKnown`, `Elsewhere`). The code keeps one `old_prot` for both pages of a pointer that
  straddles them, therefore `StraddleAlike`. `CInv`: a word holds its original or the new function of a hook that was started, whose `*old_func` is the original
  or a hook before it (`WordsKnown`, `OldsKnown`, `Fresh`), so that the *earliest* hook a call can get to calls the original. `OneOriginal` is needed
  because all words of a symbol share one `*old_func`, and `NoReturn` because a function that is hooked again after another one (`n1`, `n2`, `n1`)
  would be called by the one it calls: with such a list TLC finds `CallsEnd` violated.

  That files are read right, `AlwaysReadsRight`, is proved of the tables themselves, for libraries that are all `Readable`. Both lookups are recursive functions that follow
  chains; `SearchExists` shows that such a function exists when the chains end (the least `m` at which there is none of the members of rank up to `m`),
  and `SearchGives` that it yields where the symbol is. `SysvFound` and `GnuFound` apply this: a search that starts in the bucket of a hash
  comes by the symbol, and one for a symbol the library does not have stops. For the iterators, `IterAt(..., m)` says where an iterator is that has returned `m`
  relocations: for a packed section in which group, how far into its values, and with which offset so far (`Within`). `IterSteps`: it returns relocation `m + 1` next, or nothing
  when the section is cut off there or over. `RInv` keeps both along the run. `SafeFromFile` and `TransparentFromFile` put the parts together, so that `TypeOK`,
  `OnlySought`, `StoreWritable`, `ProtRestored` and `CallsEnd` hold under hypotheses on the constants alone.

  `AlwaysAllReplaced`, for libraries that are also `Complete`: `VInv` says what is done at each place. Hooks that are over and did not fail have left their
  function, or that of a later hook of the symbol, in every word bound to the symbol (`HooksDone`); the hook that is made has stored its own in the words of
  the sections before (`SectionsDone`) and of the relocations up to the iterator (`EntriesDone`), the one under replacement excepted. `BoundEntry` then turns the end of
  a section into all of its relocations. That the code leaves `.rel(a).plt` at the first hit is right because a symbol has one word there, and a store for one symbol takes
  nothing from another one because a word is bound to one symbol: both are in `Whole`.
* `YafyaInit_proofs`, for any process and any number of threads: `TypeCorrect`, `LoaderComplete`, `NoSuccessLost`; `LinkerCalled`, which says of
  every process in which the test of a candidate for the class linker is right (`TestIsRight`) that nothing else is ever passed on; and
  `FailsOnlyForReason`, for every process in which something passes that test (`LinkerThere`). The test reads
  memory of the runtime, so that nothing can be proved about it; `YafyaInit_all` checks both on decoys.
  `EntryPointAlwaysFound`: `init` computes the offset at which ART declares the entry point, on every API level from 21 to 33 and with pointers of either size.
  The layout of ART is a recursive function over the fields; that it exists and what it adds up to is shown by the least field at which it would not.

Only model-checked: liveness (`CallsReturn`, `PostedIsTaken`) and anything about ENABLED, which the prover
does not handle; the decoding of sleb128 bytes to the values of a packed section and the reading of the dynamic section (`Sleb128`, `Parse`), which
the theorems about `XhElf` take as given and `XhElf_all` computes from bytes and words; and the faulty cases, which are what the runs with a violation are for.

## Not modelled

* The replacement functions (`hook_main.c:310-545`) filter arguments of libc calls and keep no state. `start` (546-640) is
  a use of the xhook API that `XhRefresh`'s first registration resembles.
* Logging, version and error numbers; `queue.h` and `tree.h`, third-party containers that are sets, sequences and functions here; `dlfunc.c`, which is
  commented out; the demos. `yafyaPookApi.java` is a decompiled fragment that refers to classes and native methods the repository does not have and does not compile.
* Inside ART: when a JIT compilation that was under way installs its code, the life of JIT code, and
  concurrent changes of other bits of `access_flags_`.
* A SIGSEGV of another thread while a refresh is protected (`Fault` of `XhCore` is the other case) jumps to the wrong stack (`xh_core.c:95`): undefined behaviour that these models exclude.
  So is the endless search in the symbol table of a linker without the sought functions, which is a crash here (`fake_dlopen.c:48`).
* `malloc` that returns NULL in `xh_core.c`, and an unprotected refresh inside `XhRefresh`. What a store does to a mapping that is not a library is not followed further.
* `HookItems` compares the return types as `checkCompatibleMethods` does and claims nothing about returned values, nor about what a hook itself passes to its backup.
