------------------------------ MODULE YafyaInit ------------------------------
(***************************************************************************)
(* How the library finds its way in the runtime: YafyaMain.init with the   *)
(* layout of ArtMethod and the linker's hidden functions (hook_main.c,     *)
(* fake_dlopen.c), and visiblyInit, which threads call at the same time    *)
(* and which looks for the class linker in the memory of the runtime       *)
(* (utils.c).                                                              *)
(***************************************************************************)
EXTENDS ArtLayout, FiniteSetsExt

CONSTANTS
  Threads,   \* threads that hook methods
  Sdks,      \* API levels
  Devices,   \* for each size of a pointer what the process may look like:
             \*   libs     the libraries in the order of dl_iterate_phdr,
             \*   exports  what libart.so exports,
             \*   runtime  the address in Runtime::instance_, or Null,
             \*   vm       the address of the JavaVM,
             \*   memory   the words of objects, by address and offset,
             \*   linker   the address of the class linker
  MaxCalls,  \* bound: calls of visiblyInit by one thread
  OpenMayFail,  \* whether /dev/random cannot be opened at times
  Null

\* What the linker offers to those who know where to look.
LoaderNames == {"__loader_dlopen", "__loader_dlsym", "libnativeloader"}

ASSUME YafyaInitAssumption ==
  /\ MaxCalls \in Nat /\ OpenMayFail \in BOOLEAN
  /\ Sdks \subseteq Nat
  /\ Null # "make"
  /\ \A p \in {4, 8} : \A d \in Devices[p] :
       /\ Null \notin DOMAIN d.memory
       /\ d.runtime \in DOMAIN d.memory \cup {Null}
       /\ \A a \in DOMAIN d.memory : DOMAIN d.memory[a] \subseteq Nat
       /\ d.libs \in Seq([name : {"linker", "nativeloader", "other"},
                          exports : SUBSET LoaderNames])

VARIABLES
  sdk, abi, device,  \* chosen at the start; sdk becomes SDKVersion
  layout,            \* the OFFSET_... variables
  template,          \* the patched bytes of the trampoline
  loader,            \* which of the linker's functions have been found
  phase,             \* of YafyaMain.init: "start", "libs", "ready", "crashed"
  k,                 \* the library that dl_iterate_phdr reports next
  classLinker, makeVisible,  \* statics of utils.c
  pc,                \* where each thread is in visiblyInit
  offset,            \* class_linker_offset_in_Runtime of each thread
  calls,             \* the calls of each thread
  sure,              \* a call succeeded before this thread's began (history)
  missed,            \* a valid address was taken for an invalid one (history)
  called             \* what has been called, with its argument (history)

input == <<sdk, abi, device>>
setup == <<layout, template, loader, phase, k>>
statics == <<classLinker, makeVisible>>
vars == <<sdk, abi, device, layout, template, loader, phase, k, classLinker,
          makeVisible, pc, offset, calls, sure, missed, called>>

P == PointerSize(abi)

Init ==
  /\ sdk \in Sdks
  /\ abi \in Abis
  /\ device \in Devices[P]
  /\ layout = Unset
  /\ template = Patched(abi, 0)
  /\ loader = {}
  /\ phase = "start" /\ k = 1
  /\ classLinker = Null /\ makeVisible = Null
  /\ pc = [t \in Threads |-> "idle"]
  /\ offset = [t \in Threads |-> 0]
  /\ calls = [t \in Threads |-> 0]
  /\ sure = [t \in Threads |-> FALSE]
  /\ missed = FALSE
  /\ called = {}

-----------------------------------------------------------------------------
(***************************************************************************)
(* YafyaMain.init, which the static initializer of the class runs before   *)
(* any other method of it.                                                 *)
(***************************************************************************)
SetOffsets ==
  /\ phase = "start"
  /\ layout' = Layout(sdk, P)
  /\ template' = Patched(abi, layout'.quick)
  /\ phase' = "libs"
  /\ UNCHANGED <<input, loader, k, statics, pc, offset, calls, sure, missed, called>>

\* The last branch of callback: whether the iteration stops.
Stops_AnyFunction == loader # {}
Stops == loader = LoaderNames

\* callback for one library.  The symbol table of the linker is searched
\* without an end: a linker that lacks one of the functions is a crash.
Callback ==
  /\ phase = "libs" /\ k <= Len(device.libs)
  /\ LET lib == device.libs[k] IN
     \/ /\ lib.name = "nativeloader"
        /\ loader' = loader \cup {"libnativeloader"}
        /\ k' = k + 1
        /\ UNCHANGED phase
     \/ /\ lib.name = "linker"
        /\ loader' = loader \cup lib.exports
        /\ phase' = IF LoaderNames \ {"libnativeloader"} \subseteq loader'
                    THEN phase ELSE "crashed"
        /\ k' = k + 1
     \/ /\ lib.name = "other"
        /\ phase' = IF Stops THEN "ready" ELSE phase
        /\ k' = k + 1
        /\ UNCHANGED loader
  /\ UNCHANGED <<input, layout, template, statics, pc, offset, calls, sure,
                 missed, called>>

\* dl_iterate_phdr has reported every library.
EndOfLibs ==
  /\ phase = "libs" /\ k > Len(device.libs)
  /\ phase' = "ready"
  /\ UNCHANGED <<input, layout, template, loader, k, statics, pc, offset,
                 calls, sure, missed, called>>

-----------------------------------------------------------------------------
(***************************************************************************)
(* searchClassLinkerOffset.  valid is the set of addresses that            *)
(* isValidAddress accepts.                                                 *)
(***************************************************************************)
\* The word at an offset of an object; other words hold no address.
WordAt(address, off) ==
  LET object == device.memory[address] IN
  IF off \in DOMAIN object THEN object[off] ELSE Null

\* commonFindOffset in steps of 4 bytes.
commonFindOffset(start, max, value, from) ==
  LET at == {i \in DOMAIN device.memory[start] :
               /\ i \in from .. max /\ (i - from) % 4 = 0
               /\ WordAt(start, i) = value}
  IN  IF at = {} THEN -1 ELSE Min(at)

\* The JavaVM is searched from 200 on ("on xiaomi android7.1.2 we would get
\* jvm_offset 184", utils.c:76).
JvmOffset_FromStart == commonFindOffset(device.runtime, 2000, device.vm, 0)
JvmOffset == commonFindOffset(device.runtime, 2000, device.vm, 200)

\* The first virtual function comes after kVTablePosition words.
VTable == <<"ClassLinker", 2 * P>>

\* The answers of isValidAddress: no address is valid when its descriptor
\* cannot be opened.
Answers ==
  IF OpenMayFail THEN SUBSET DOMAIN device.memory ELSE {DOMAIN device.memory}

\* Whether the word at offset i of the runtime is taken for class_linker_.
LooksLikeLinker(valid, i) ==
  LET candidate == WordAt(device.runtime, i)
      internTable == WordAt(device.runtime, i - P)
  IN  /\ candidate \in valid
      /\ IF "vtable" \in device.exports
         THEN WordAt(candidate, 0) = VTable
         ELSE /\ internTable \in valid
              /\ \E j \in DOMAIN device.memory[candidate] :
                   /\ j \in 200 .. 499 /\ j % 4 = 0
                   /\ WordAt(candidate, j) = internTable

searchClassLinkerOffset(valid) ==
  LET at == {i \in DOMAIN device.memory[device.runtime] :
               /\ i > 0 /\ i <= JvmOffset - 4 /\ (JvmOffset - i) % 4 = 0
               /\ LooksLikeLinker(valid, i)}
  IN  IF JvmOffset < 0 \/ at = {} THEN -1 ELSE Max(at)

-----------------------------------------------------------------------------
(***************************************************************************)
(* visiblyInit.                                                            *)
(***************************************************************************)
shouldVisiblyInit == sdk >= 30 /\ abi \in {"arm", "aarch64"}

Goto(t, label) == pc' = [pc EXCEPT ![t] = label]

visiblyInit(t) ==
  /\ phase = "ready"
  /\ pc[t] = "idle" /\ calls[t] < MaxCalls
  /\ calls' = [calls EXCEPT ![t] = @ + 1]
  /\ sure' = [sure EXCEPT ![t] = called # {}]
  /\ Goto(t, IF shouldVisiblyInit THEN "check" ELSE "idle")
  /\ UNCHANGED <<input, setup, statics, offset, missed, called>>

Known_Never == FALSE
Known_Either == classLinker # Null \/ makeVisible # Null
Known == classLinker # Null /\ makeVisible # Null

Check(t) ==
  /\ pc[t] = "check"
  /\ Goto(t, IF Known THEN "invoke" ELSE "find")
  /\ UNCHANGED <<input, setup, statics, offset, calls, sure, missed, called>>

\* art_dlopen and art_dlsym give NULL without the linker's functions.
CanFind == loader = LoaderNames /\ "instance" \in device.exports
             /\ device.runtime # Null

Found_Unchecked(off) == TRUE
Found(off) == off >= 0

\* The part of findInitClassSymbols that leaves the statics alone.
Find(t) ==
  /\ pc[t] = "find"
  /\ \/ /\ ~CanFind
        /\ Goto(t, "fail")
        /\ UNCHANGED <<offset, missed>>
     \/ /\ CanFind
        /\ \E valid \in Answers :
             \E off \in {searchClassLinkerOffset(valid)} :
               /\ Goto(t, IF Found(off) THEN "setLinker" ELSE "fail")
               /\ offset' = [offset EXCEPT ![t] = IF Found(off) THEN off ELSE @]
               /\ missed' = (missed \/ valid # DOMAIN device.memory)
  /\ UNCHANGED <<input, setup, statics, calls, sure, called>>

SetLinker(t) ==
  /\ pc[t] = "setLinker"
  /\ classLinker' = WordAt(device.runtime, offset[t])
  /\ Goto(t, "setMake")
  /\ UNCHANGED <<input, setup, makeVisible, offset, calls, sure, missed, called>>

SetMake(t) ==
  /\ pc[t] = "setMake"
  /\ makeVisible' = IF "make" \in device.exports THEN "make" ELSE Null
  /\ Goto(t, IF makeVisible' = Null THEN "fail" ELSE "invoke")
  /\ UNCHANGED <<input, setup, classLinker, offset, calls, sure, missed, called>>

\* MakeInitializedClassesVisiblyInitialized(classLinker, thread, 1).
Invoke(t) ==
  /\ pc[t] = "invoke"
  /\ called' = called \cup {<<makeVisible, classLinker>>}
  /\ Goto(t, "idle")
  /\ UNCHANGED <<input, setup, statics, offset, calls, sure, missed>>

\* visiblyInit returns 1.
Fail(t) ==
  /\ pc[t] = "fail"
  /\ Goto(t, "idle")
  /\ UNCHANGED <<input, setup, statics, offset, calls, sure, missed, called>>

Setup == SetOffsets \/ Callback \/ EndOfLibs

Step(t) ==
  \/ visiblyInit(t) \/ Check(t) \/ Find(t) \/ SetLinker(t) \/ SetMake(t)
  \/ Invoke(t) \/ Fail(t)

Next == Setup \/ \E t \in Threads : Step(t)

Spec == Init /\ [][Next]_vars

-----------------------------------------------------------------------------
(***************************************************************************)
(* Shape of the state; in particular readAddr only follows an offset that  *)
(* was found (utils.c:161).                                                *)
(***************************************************************************)
TypeOK ==
  /\ sdk \in Sdks /\ abi \in Abis /\ device \in Devices[P]
  /\ layout \in [{"flags", "interp", "quick"} -> Nat]
  /\ template \in Seq(0 .. 255)
  /\ loader \subseteq LoaderNames
  /\ phase \in {"start", "libs", "ready", "crashed"}
  /\ k \in 1 .. Len(device.libs) + 1
  /\ classLinker \in DOMAIN device.memory \cup {Null}
  /\ makeVisible \in {"make", Null}
  /\ pc \in [Threads -> {"idle", "check", "find", "setLinker", "setMake",
                         "invoke", "fail"}]
  /\ offset \in [Threads -> Nat]
  /\ calls \in [Threads -> 0 .. MaxCalls]
  /\ sure \in [Threads -> BOOLEAN]
  /\ missed \in BOOLEAN

(***************************************************************************)
(* When methods can be hooked, the offsets are those of the fields of      *)
(* ArtMethod on API levels 21 to 33, and a hook's trampoline jumps through *)
(* the very word that replaceMethod writes and the runtime reads           *)
(* (hook_main.c:51-112, trampoline.c:200-213).                             *)
(***************************************************************************)
EntryPointFound ==
  phase \in {"libs", "ready"} /\ sdk \in 21 .. 33 =>
    /\ layout.quick = OffsetOf("quick", sdk, P)
    /\ layout.interp = OffsetOf("interp", sdk, P)
    /\ sdk >= 24 => layout.flags = OffsetOf("flags", sdk, P)
    /\ Displacement(abi, template) = layout.quick

(***************************************************************************)
(* Whatever the order of the libraries, all that the process has of the    *)
(* linker's functions is found: "all found, stop the dl_iterate_phdr       *)
(* iteration" (fake_dlopen.c:72).                                          *)
(***************************************************************************)
AllFound ==
  phase = "ready" =>
    \A i \in DOMAIN device.libs :
      /\ device.libs[i].name = "linker" => device.libs[i].exports \subseteq loader
      /\ device.libs[i].name = "nativeloader" => "libnativeloader" \in loader

(***************************************************************************)
(* Whichever threads look for them at the same time and whatever was       *)
(* found before, only the function of libart.so is called, with the class  *)
(* linker (utils.c:224-233).                                               *)
(***************************************************************************)
CallsLinker == called \subseteq {<<"make", device.linker>>}

(***************************************************************************)
(* visiblyInit only fails on a process where something it looks for is     *)
(* missing or no file can be opened: it finds the JavaVM and the class     *)
(* linker, with or without its virtual table, wherever they lie in the     *)
(* runtime (utils.c:66-126).                                               *)
(***************************************************************************)
FailsForReason ==
  \A t \in Threads : pc[t] = "fail" =>
    \/ loader # LoaderNames
    \/ ~({"instance", "make"} \subseteq device.exports)
    \/ device.runtime = Null \/ missed

(***************************************************************************)
(* Once a call of visiblyInit has succeeded no call that begins later      *)
(* fails, whatever calls of other threads are under way: the statics keep  *)
(* what was found (utils.c:224).                                           *)
(***************************************************************************)
SuccessLasts == \A t \in Threads : sure[t] => pc[t] # "fail"
=============================================================================
