------------------------------ MODULE Trampoline ------------------------------
(***************************************************************************)
(* genTrampoline and allocTrampolineSpace (trampoline.c) run by threads    *)
(* that hook methods.  currentTrampolineOff and trampolineSpaceEnd are     *)
(* plain statics with no lock, so one call is split at every access to     *)
(* them.  A later read of currentTrampolineOff inside a call may be served *)
(* by the memory or by the register that holds the first read, as the      *)
(* compiler likes: Reread is that choice.                                  *)
(***************************************************************************)
EXTENDS TrampolineSpace

CONSTANTS
  Threads,      \* threads that call genTrampoline
  EntryPoints,  \* entry points a backup trampoline can hard-code
  MmapMayFail   \* whether mmap can return MAP_FAILED

ASSUME TrampolineAssumption ==
  None \notin EntryPoints /\ MmapMayFail \in BOOLEAN

VARIABLES
  currentTrampolineOff, trampolineSpaceEnd,  \* the statics of trampoline.c
  mapped,   \* spaces obtained from mmap
  tramps,   \* trampolines intact in memory
  issued,   \* trampolines returned to callers so far (history)
  pc,       \* where each thread is in genTrampoline
  arg,      \* its arguments: the ArtMethod and the entry point or None
  off,      \* its register copy of currentTrampolineOff, then targetAddr
  crashed   \* a write hit unmapped memory and the process died

vars == <<currentTrampolineOff, trampolineSpaceEnd, mapped, tramps, issued,
          pc, arg, off, crashed>>

Args == [to : Methods, orig : EntryPoints \cup {None}]

Init ==
  /\ currentTrampolineOff = NULL
  /\ trampolineSpaceEnd = NULL
  /\ mapped = {}
  /\ tramps = {}
  /\ issued = {}
  /\ pc = [t \in Threads |-> "idle"]
  /\ arg \in [Threads -> {[to |-> None, orig |-> None]}]
  /\ off = [t \in Threads |-> NULL]
  /\ crashed = FALSE

-----------------------------------------------------------------------------
At(t, label) == ~crashed /\ pc[t] = label

Goto(t, label) == pc' = [pc EXCEPT ![t] = label]

Reread(t) == {off[t], currentTrampolineOff}

Size(t) == Length(arg[t].orig)

\* The trampoline thread t is producing at address a.
Produced(t, a) == Trampoline(a, arg[t].to, arg[t].orig)

\* The call and its test for available space.
Call(t) ==
  /\ At(t, "idle")
  /\ \E x \in Args :
       /\ arg' = [arg EXCEPT ![t] = x]
       /\ Goto(t, IF Fits(currentTrampolineOff, trampolineSpaceEnd,
                          TrampolineSize(x.orig))
                  THEN "emit" ELSE "mmap")
  /\ off' = [off EXCEPT ![t] = currentTrampolineOff]
  /\ UNCHANGED <<currentTrampolineOff, trampolineSpaceEnd, mapped, tramps,
                 issued, crashed>>

\* allocTrampolineSpace returned a new space.
Map(t) ==
  /\ At(t, "mmap")
  /\ \E p \in Pages \ mapped :
       /\ mapped' = mapped \cup {p}
       /\ currentTrampolineOff' = p
       /\ off' = [off EXCEPT ![t] = p]
  /\ Goto(t, "setend")
  /\ UNCHANGED <<trampolineSpaceEnd, tramps, issued, arg, crashed>>

\* mmap failed: currentTrampolineOff has become NULL, trampolineSpaceEnd keeps
\* its old value, and the caller gets NULL.
MapFails(t) ==
  /\ At(t, "mmap")
  /\ MmapMayFail
  /\ currentTrampolineOff' = NULL
  /\ Goto(t, "idle")
  /\ UNCHANGED <<trampolineSpaceEnd, mapped, tramps, issued, arg, off, crashed>>

SetEnd(t) ==
  /\ At(t, "setend")
  /\ \E a \in Reread(t) : trampolineSpaceEnd' = SpaceEnd(a)
  /\ Goto(t, "emit")
  /\ UNCHANGED <<currentTrampolineOff, mapped, tramps, issued, arg, off,
                 crashed>>

\* The template and the patched addresses are copied to targetAddr.
Emit(t) ==
  /\ At(t, "emit")
  /\ \E a \in Reread(t) :
       /\ Writable(mapped, a, Size(t))
       /\ tramps' = Overwrite(tramps, Produced(t, a))
       /\ off' = [off EXCEPT ![t] = a]
  /\ Goto(t, "bump")
  /\ UNCHANGED <<currentTrampolineOff, trampolineSpaceEnd, mapped, issued, arg,
                 crashed>>

\* The copy goes to unmapped memory.
Fault(t) ==
  /\ At(t, "emit")
  /\ \E a \in Reread(t) :
       /\ ~Writable(mapped, a, Size(t))
       /\ off' = [off EXCEPT ![t] = a]
  /\ crashed' = TRUE
  /\ UNCHANGED <<currentTrampolineOff, trampolineSpaceEnd, mapped, tramps,
                 issued, pc, arg>>

\* currentTrampolineOff moves past the trampoline and the call returns it.
Bump(t) ==
  /\ At(t, "bump")
  /\ \E a \in Reread(t) :
       currentTrampolineOff' = a + roundUpToPtrSize(TrampolineSize(arg[t].orig))
  /\ issued' = issued \cup {Produced(t, off[t])}
  /\ Goto(t, "idle")
  /\ UNCHANGED <<trampolineSpaceEnd, mapped, tramps, arg, off, crashed>>

Next ==
  \E t \in Threads : \/ Call(t) \/ Map(t) \/ MapFails(t) \/ SetEnd(t)
                     \/ Emit(t) \/ Fault(t) \/ Bump(t)

Spec == Init /\ [][Next]_vars

-----------------------------------------------------------------------------
(***************************************************************************)
(* Shape of the state.  trampolineSpaceEnd is always NULL or the end of a  *)
(* space that mmap can return (trampoline.c:135).                          *)
(***************************************************************************)
TypeOK ==
  /\ currentTrampolineOff \in Nat
  /\ trampolineSpaceEnd \in {NULL} \cup {p + SpaceSize : p \in Pages}
  /\ mapped \subseteq Pages
  /\ tramps \subseteq [at : Nat, to : Methods, orig : EntryPoints \cup {None}]
  /\ issued \subseteq [at : Nat, to : Methods, orig : EntryPoints \cup {None}]
  /\ pc \in [Threads -> {"idle", "mmap", "setend", "emit", "bump"}]
  /\ arg \in [Threads -> Args \cup {[to |-> None, orig |-> None]}]
  /\ off \in [Threads -> Nat]
  /\ crashed \in BOOLEAN

(***************************************************************************)
(* Every trampoline ever returned by genTrampoline still is, byte for      *)
(* byte, what was written for its caller: methods keep jumping through it  *)
(* for the rest of the process (trampoline.c:139-195).                     *)
(***************************************************************************)
IssuedIntact == issued \subseteq tramps

(***************************************************************************)
(* The space check of genTrampoline (trampoline.c:129-137) keeps every     *)
(* copy inside memory that was mapped for trampolines.                     *)
(***************************************************************************)
NoFault == ~crashed

(***************************************************************************)
(* Whatever mmap does, the only address genTrampoline can fault on is      *)
(* NULL, the value a failed allocation left in currentTrampolineOff        *)
(* (trampoline.c:131): it never runs off the end of a space.               *)
(***************************************************************************)
FaultsOnlyAtNull == crashed => \E t \in Threads : off[t] = NULL

Abs == INSTANCE TrampolineAbs

(***************************************************************************)
(* The calls of genTrampoline implement TrampolineAbs: each trampoline     *)
(* returned is aligned and shares no byte with those returned before       *)
(* ("keep each trampoline aligned", trampoline.c:194).                     *)
(***************************************************************************)
ImplementsAbs == Abs!Spec
=============================================================================
