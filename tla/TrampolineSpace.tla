--------------------------- MODULE TrampolineSpace ---------------------------
(***************************************************************************)
(* Layout of the executable memory that trampoline.c hands out: the size   *)
(* of the two machine-code templates of each ABI, rounding to the pointer  *)
(* size, the test for room in the current space, and what a write of a     *)
(* trampoline does to the trampolines already in memory.  Memory is        *)
(* abstracted to the set of trampolines that are still byte for byte what  *)
(* was last written at their place; addresses and sizes are in bytes.      *)
(***************************************************************************)
EXTENDS Integers

CONSTANTS
  Abi,        \* the ABI the library is built for
  SpaceSize,  \* TRAMPOLINE_SPACE_SIZE; 4096 in the code, scaled down for TLC
  Pages,      \* addresses mmap can return for a new space
  Methods,    \* the ArtMethod structures of the process
  None        \* a null pointer to an ArtMethod or to an entry point

\* NULL as a code address.
NULL == 0

\* pointer_size.
PtrSize == IF Abi \in {"i386", "arm"} THEN 4 ELSE 8

\* sizeof(trampoline): 4 bytes of code_size_, then code that loads the hook
\* ArtMethod and jumps to the entry point stored in it.
HookSize == CASE Abi = "i386" -> 13 [] Abi = "x86_64" -> 18
              [] Abi = "arm" -> 16  [] OTHER -> 24

\* sizeof(trampolineForBackup): loads the target ArtMethod and jumps to the
\* entry point hard-coded in the template.
BackupSize == CASE Abi = "i386" -> 11 [] Abi = "x86_64" -> 22
                [] Abi = "arm" -> 24  [] OTHER -> 28

(***************************************************************************)
(* mmap returns page-aligned, pairwise disjoint ranges, never page zero,   *)
(* and one space holds at least one trampoline.                            *)
(***************************************************************************)
ASSUME SpaceAssumption ==
  /\ Abi \in {"i386", "x86_64", "arm", "aarch64"}
  /\ SpaceSize \in Nat /\ SpaceSize >= 28
  /\ Pages \subseteq Nat
  /\ \A p \in Pages : p >= SpaceSize /\ p % PtrSize = 0
  /\ \A p, q \in Pages : p # q => p + SpaceSize <= q \/ q + SpaceSize <= p

ASSUME NoneAssumption == None \notin Methods

-----------------------------------------------------------------------------
roundUpToPtrSize_Identity(v) == v

\* roundUpToPtrSize(v); the mask by pointer_size - 1 is a remainder.
roundUpToPtrSize(v) == v + PtrSize - 1 - ((v + PtrSize - 1) % PtrSize)

TrampolineSize_AlwaysHook(orig) == HookSize

\* trampolineSize, the room that genTrampoline asks for: the template is chosen
\* by entrypoint != NULL.
TrampolineSize(orig) == IF orig # None THEN BackupSize ELSE HookSize

\* The bytes that genTrampoline copies: the whole template of that kind.
Length(orig) == IF orig = None THEN HookSize ELSE BackupSize

Fits_IgnoringSize(off, end, n) == off < end

\* Negation of currentTrampolineOff+trampolineSize > trampolineSpaceEnd.
Fits(off, end, n) == off + n <= end

SpaceEnd_Short(start) == start + SpaceSize - 1

\* trampolineSpaceEnd of a freshly mapped space.
SpaceEnd(start) == start + SpaceSize

\* A trampoline in memory: where it starts, the ArtMethod it loads, and the
\* entry point hard-coded in it (None for a hook trampoline).
Trampoline(a, to, orig) == [at |-> a, to |-> to, orig |-> orig]

\* First byte after trampoline r.
After(r) == r.at + Length(r.orig)

Disjoint(r, s) == After(r) <= s.at \/ After(s) <= r.at

\* The memory after r was copied over whatever was there.
Overwrite(mem, r) == {s \in mem : Disjoint(r, s)} \cup {r}

\* The bytes a .. a+n-1 are mapped read-write-execute.
Writable(spaces, a, n) ==
  \A x \in a .. (a + n - 1) : \E p \in spaces : p <= x /\ x < p + SpaceSize
=============================================================================
