------------------------------ MODULE ArtLayout ------------------------------
(***************************************************************************)
(* Where hook_main.c finds the fields of an ArtMethod, for each API level, *)
(* and how trampoline.c puts the offset of the entry point into the        *)
(* machine code of a trampoline.  Offsets count bytes; p is the size of a  *)
(* pointer.                                                                *)
(***************************************************************************)
EXTENDS Integers, Sequences

Abis == {"i386", "x86_64", "arm", "aarch64"}
PointerSize(abi) == IF abi \in {"i386", "arm"} THEN 4 ELSE 8

\* roundUpToPtrSize.
RoundUp_Down(p, v) == v - (v % p)
RoundUp(p, v) == v + p - 1 - ((v + p - 1) % p)

(***************************************************************************)
(* What init stores in the OFFSET_... variables; they stay 0 when an API   *)
(* level does not set them.                                                *)
(***************************************************************************)
Unset == [flags |-> 0, interp |-> 0, quick |-> 0]

Layout(sdk, p) ==
  CASE sdk \in 31 .. 33 -> [Unset EXCEPT !.flags = 4,
                                         !.quick = RoundUp(p, 16) + p]
    [] sdk \in 28 .. 30 -> [Unset EXCEPT !.flags = 4,
                                         !.quick = RoundUp(p, 20) + p]
    [] sdk \in 26 .. 27 -> [Unset EXCEPT !.flags = 4,
                                         !.quick = RoundUp(p, 20) + 2 * p]
    [] sdk \in 24 .. 25 -> [Unset EXCEPT !.flags = 4,
                                         !.quick = RoundUp(p, 20) + 3 * p]
    [] sdk = 23 -> [Unset EXCEPT !.interp = RoundUp(p, 28),
                                 !.quick = RoundUp(p, 28) + 2 * p]
    [] sdk = 22 -> [Unset EXCEPT !.interp = RoundUp(p, 36),
                                 !.quick = RoundUp(p, 36) + 2 * p]
    [] sdk = 21 -> [Unset EXCEPT !.interp = 24, !.quick = 40]
    [] OTHER -> Unset

-----------------------------------------------------------------------------
(***************************************************************************)
(* The bytes of the template that hold the displacement of its load, as    *)
(* setupTrampoline leaves them; its parameter is a byte.  On aarch64 they  *)
(* are bytes 9 and 10, of which the template already has the rest.         *)
(***************************************************************************)
Patched(abi, offset) ==
  LET byte == offset % 256 IN
  IF abi = "aarch64" THEN <<(byte % 16) * 16, 64 + (byte \div 16)>> ELSE <<byte>>

Signed(bits, n) == IF n < 2^(bits - 1) THEN n ELSE n - 2^bits

(***************************************************************************)
(* The displacement that the processor reads from them: 8 bits with a sign *)
(* on x86, 12 bits on arm, of which the template clears the highest 4, and *)
(* bits 12 to 20 with a sign of an aarch64 instruction.                    *)
(***************************************************************************)
Displacement(abi, code) ==
  CASE abi \in {"i386", "x86_64"} -> Signed(8, code[1])
    [] abi = "arm" -> code[1]
    [] abi = "aarch64" -> Signed(9, (code[1] \div 16) + (code[2] % 32) * 16)

-----------------------------------------------------------------------------
(***************************************************************************)
(* ArtMethod as ART declares it: the sizes of its fields in order, where a *)
(* pointer has size p.  "declaring class", "flags", ...: only the names of *)
(* the fields the code uses matter.  Before M it is a Java object with a   *)
(* header of two words; in L its pointers are 64 bits wide everywhere.     *)
(***************************************************************************)
Fields(sdk, p) ==
  LET words(n) == [k \in 1 .. n |-> <<"word", 4>>]
      start == <<<<"word", 4>>, <<"flags", 4>>>>
      halves == <<<<"half", 2>>, <<"half", 2>>>>
      pointers(n) == [k \in 1 .. n |-> <<"pointer", p>>]
      quick == <<<<"quick", p>>>>
      interp == <<<<"interp", p>>>>
  IN
  CASE sdk \in 31 .. 33 -> start \o words(1) \o halves \o pointers(1) \o quick
    [] sdk \in 28 .. 30 -> start \o words(2) \o halves \o pointers(1) \o quick
    [] sdk \in 26 .. 27 -> start \o words(2) \o halves \o pointers(2) \o quick
    [] sdk \in 24 .. 25 -> start \o words(2) \o halves \o pointers(3) \o quick
    [] sdk = 23 -> words(7) \o interp \o pointers(1) \o quick
    [] sdk = 22 -> words(9) \o interp \o pointers(1) \o quick
    [] sdk = 21 -> words(6) \o <<<<"interp", 8>>, <<"pointer", 8>>, <<"quick", 8>>>>

\* The offset of the k-th field: each is aligned to its size.
FieldOffset(fields, k) ==
  LET Align(n, size) == n + ((size - (n % size)) % size)
      Start[j \in 1 .. k] ==
        IF j = 1 THEN 0
        ELSE Align(Start[j - 1] + fields[j - 1][2], fields[j][2])
  IN  Start[k]

\* The offset of a field, 0 if there is none.
OffsetOf(name, sdk, p) ==
  LET fields == Fields(sdk, p)
      at == {k \in DOMAIN fields : fields[k][1] = name}
  IN  IF at = {} THEN 0 ELSE FieldOffset(fields, CHOOSE k \in at : TRUE)
=============================================================================
