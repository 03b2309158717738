-------------------------- MODULE Trampoline_proofs --------------------------
(***************************************************************************)
(* Proofs about genTrampoline when one thread at a time hooks methods,     *)
(* which is what its unprotected statics require: for every ABI, space     *)
(* size and number of spaces and methods.                                  *)
(***************************************************************************)
EXTENDS Trampoline, TLAPS

OneThread == \E t : Threads = {t}

-----------------------------------------------------------------------------
(* The inductive invariant.                                                *)

\* A thread inside a call has chosen its arguments.
Argued == \A t \in Threads : pc[t] # "idle" => arg[t] \in Args

\* trampolineSpaceEnd as it will be once an allocation has been completed.
End(t) == IF pc[t] = "setend" THEN currentTrampolineOff + SpaceSize
                              ELSE trampolineSpaceEnd

\* With one thread the register copy is always current.
Cached ==
  \A t \in Threads :
    ~crashed /\ pc[t] \in {"setend", "emit", "bump"}
      => off[t] = currentTrampolineOff

Aligned == currentTrampolineOff % PtrSize = 0

\* currentTrampolineOff points into the space that trampolineSpaceEnd ends.
Room ==
  currentTrampolineOff # NULL =>
    \A t \in Threads :
      \E p \in mapped : p <= currentTrampolineOff /\ End(t) = p + SpaceSize

\* A call about to copy, or having copied, has room up to the end.
Fitting ==
  \A t \in Threads :
    /\ pc[t] \in {"setend", "bump"} => currentTrampolineOff # NULL
    /\ pc[t] \in {"emit", "bump"} /\ currentTrampolineOff # NULL =>
         currentTrampolineOff + Size(t) <= trampolineSpaceEnd

\* Every trampoline lies within one mapped space.
Placed ==
  \A r \in tramps : \E p \in mapped : p <= r.at /\ After(r) <= p + SpaceSize

\* No trampoline but the one being returned lies in the free rest.
Free ==
  currentTrampolineOff # NULL =>
    \A t \in Threads : \A r \in tramps :
      \/ After(r) <= currentTrampolineOff
      \/ r.at >= End(t)
      \/ pc[t] = "bump" /\ r = Produced(t, off[t])

Written ==
  \A t \in Threads : pc[t] = "bump" => Produced(t, off[t]) \in tramps

\* Only a failed mmap leaves an end without a beginning.
NoStaleEnd ==
  ~MmapMayFail =>
    /\ currentTrampolineOff = NULL => trampolineSpaceEnd = NULL
    /\ \A t \in Threads : pc[t] = "emit" => currentTrampolineOff # NULL

IInv == /\ TypeOK /\ Argued /\ Cached /\ Aligned /\ Room /\ Fitting
        /\ Placed /\ Free /\ Written /\ NoStaleEnd
        /\ IssuedIntact /\ FaultsOnlyAtNull

-----------------------------------------------------------------------------
(***************************************************************************)
(* The templates of trampoline.c:25-124 have a size between 1 and 28, the  *)
(* pointer size is 4 or 8, and the room asked for (line 127) is the number *)
(* of bytes copied (lines 141-147).                                        *)
(***************************************************************************)
LEMMA SizeFacts ==
  /\ PtrSize \in {4, 8}
  /\ HookSize \in 1 .. 28
  /\ BackupSize \in 1 .. 28
  /\ \A o : Length(o) \in 1 .. 28 /\ TrampolineSize(o) = Length(o)
<1>1. Abi \in {"i386", "x86_64", "arm", "aarch64"}
  BY SpaceAssumption
<1>2. PtrSize \in {4, 8}
  BY <1>1 DEF PtrSize
<1>3. HookSize \in 1 .. 28
  BY <1>1 DEF HookSize
<1>4. BackupSize \in 1 .. 28
  BY <1>1 DEF BackupSize
<1>5. QED
  BY <1>2, <1>3, <1>4 DEF Length, TrampolineSize

(***************************************************************************)
(* roundUpToPtrSize (common.h) never rounds down and keeps an aligned      *)
(* offset aligned (trampoline.c:194-195).                                  *)
(***************************************************************************)
LEMMA RoundUp ==
  ASSUME NEW a \in Nat, NEW n \in Nat, a % PtrSize = 0
  PROVE  /\ roundUpToPtrSize(n) \in Nat
         /\ roundUpToPtrSize(n) >= n
         /\ (a + roundUpToPtrSize(n)) % PtrSize = 0
<1>1. CASE PtrSize = 4
  BY <1>1 DEF roundUpToPtrSize
<1>2. CASE PtrSize = 8
  BY <1>2 DEF roundUpToPtrSize
<1>3. QED
  BY <1>1, <1>2, SizeFacts

LEMMA NoneIsNoThread ==
  ASSUME OneThread, NEW t \in Threads
  PROVE  Threads = {t}
BY DEF OneThread

(***************************************************************************)
(* A call that has room below an existing frontier writes to mapped        *)
(* memory: what the test of trampoline.c:130 is for.                       *)
(***************************************************************************)
LEMMA EmitWritable ==
  ASSUME IInv, OneThread, NEW t \in Threads, pc[t] = "emit",
         currentTrampolineOff # NULL
  PROVE  Writable(mapped, currentTrampolineOff, Size(t))
<1>1. PICK p \in mapped : p <= currentTrampolineOff
                          /\ trampolineSpaceEnd = p + SpaceSize
  BY DEF IInv, Room, End
<1>2. currentTrampolineOff + Size(t) <= trampolineSpaceEnd
  BY DEF IInv, Fitting
<1>3. p \in Nat /\ SpaceSize \in Nat /\ currentTrampolineOff \in Nat
  BY SpaceAssumption DEF IInv, TypeOK
<1>4. Size(t) \in 1 .. 28
  BY SizeFacts DEF Size
<1>5. QED
  BY <1>1, <1>2, <1>3, <1>4 DEF Writable

(***************************************************************************)
(* No space contains the bytes at address NULL.                            *)
(***************************************************************************)
LEMMA NullNotWritable ==
  ASSUME IInv, NEW n \in 1 .. 28
  PROVE  ~Writable(mapped, NULL, n)
<1>1. 0 \in 0 .. (0 + n - 1)
  OBVIOUS
<1>2. \A p \in mapped : p \in Nat /\ p >= 28
  BY SpaceAssumption DEF IInv, TypeOK
<1>3. QED
  BY <1>1, <1>2 DEF Writable, NULL

LEMMA InitInv == Init => IInv
<1> SUFFICES ASSUME Init PROVE IInv
  OBVIOUS
<1> USE DEF Init, NULL
<1>1. TypeOK
  BY DEF TypeOK
<1>2. Aligned
  BY SizeFacts DEF Aligned
<1>3. Argued /\ Cached /\ Room /\ Fitting /\ Placed /\ Free /\ Written
  BY DEF Argued, Cached, Room, Fitting, Placed, Free, Written
<1>4. NoStaleEnd /\ IssuedIntact /\ FaultsOnlyAtNull
  BY DEF NoStaleEnd, IssuedIntact, FaultsOnlyAtNull
<1>5. QED
  BY <1>1, <1>2, <1>3, <1>4 DEF IInv

(***************************************************************************)
(* One lemma per step of genTrampoline.                                    *)
(***************************************************************************)
LEMMA CallInv ==
  ASSUME IInv, OneThread, NEW t \in Threads, Call(t)
  PROVE  IInv'
<1> USE DEF Call, At, Goto, NULL
<1>0. Threads = {t}
  BY NoneIsNoThread
<1>1. PICK x \in Args :
        /\ arg' = [arg EXCEPT ![t] = x]
        /\ pc' = [pc EXCEPT ![t] =
                    IF Fits(currentTrampolineOff, trampolineSpaceEnd,
                            TrampolineSize(x.orig)) THEN "emit" ELSE "mmap"]
  OBVIOUS
<1>2. TypeOK'
  BY <1>1 DEF IInv, TypeOK, Args
<1>3. /\ pc[t] = "idle"
      /\ pc'[t] \in {"emit", "mmap"}
      /\ arg'[t] = x
      /\ off'[t] = currentTrampolineOff
      /\ pc'[t] = "emit" => Fits(currentTrampolineOff, trampolineSpaceEnd,
                                 TrampolineSize(x.orig))
  BY <1>1 DEF IInv, TypeOK
<1>4. Argued' /\ Cached'
  BY <1>0, <1>1, <1>3 DEF Argued, Cached
<1>5. Aligned' /\ Placed' /\ IssuedIntact' /\ FaultsOnlyAtNull'
  BY <1>0, <1>3 DEF IInv, Aligned, Placed, IssuedIntact, FaultsOnlyAtNull
<1>6. Room'
  BY <1>0, <1>3 DEF IInv, Room, End
<1>7. Fitting'
  BY <1>0, <1>3, SizeFacts DEF IInv, Fitting, Fits, Size
<1>8. Free' /\ Written'
  BY <1>0, <1>3 DEF IInv, Free, Written, End
<1>9. NoStaleEnd'
  BY <1>0, <1>3, SizeFacts DEF IInv, NoStaleEnd, Fits
<1>10. QED
  BY <1>2, <1>4, <1>5, <1>6, <1>7, <1>8, <1>9 DEF IInv

LEMMA MapInv ==
  ASSUME IInv, OneThread, NEW t \in Threads, Map(t)
  PROVE  IInv'
<1> USE DEF Map, At, Goto, NULL
<1>0. Threads = {t}
  BY NoneIsNoThread
<1>1. PICK p \in Pages \ mapped :
        /\ mapped' = mapped \cup {p}
        /\ currentTrampolineOff' = p
        /\ off' = [off EXCEPT ![t] = p]
  OBVIOUS
<1>2. /\ p \in Nat /\ SpaceSize \in Nat /\ SpaceSize >= 28
      /\ p >= SpaceSize /\ p % PtrSize = 0
      /\ \A q \in mapped : /\ q \in Nat
                           /\ q + SpaceSize <= p \/ p + SpaceSize <= q
  BY SpaceAssumption DEF IInv, TypeOK
<1>3. TypeOK'
  BY <1>1, <1>2 DEF IInv, TypeOK
<1>4. pc[t] = "mmap" /\ pc'[t] = "setend" /\ off'[t] = p
  BY <1>1 DEF IInv, TypeOK
<1>5. Argued' /\ Cached' /\ Aligned'
  BY <1>0, <1>1, <1>2, <1>4 DEF IInv, Argued, Cached, Aligned
<1>6. Room'
  BY <1>0, <1>1, <1>2, <1>4 DEF Room, End
<1>7. Fitting' /\ Written' /\ NoStaleEnd'
  BY <1>0, <1>1, <1>2, <1>4 DEF Fitting, Written, NoStaleEnd
<1>8. Placed'
  BY <1>1 DEF IInv, Placed
<1>9. Free'
  <2>1. ASSUME NEW r \in tramps
        PROVE  After(r) <= p \/ r.at >= p + SpaceSize
    <3>1. PICK q \in mapped : q <= r.at /\ After(r) <= q + SpaceSize
      BY DEF IInv, Placed
    <3>2. r.at \in Nat /\ After(r) \in Nat
      BY SizeFacts DEF IInv, TypeOK, After
    <3>3. QED
      BY <1>2, <3>1, <3>2
  <2>2. QED
    BY <1>0, <1>1, <1>4, <2>1 DEF Free, End
<1>10. IssuedIntact' /\ FaultsOnlyAtNull'
  BY DEF IInv, IssuedIntact, FaultsOnlyAtNull
<1>11. QED
  BY <1>3, <1>5, <1>6, <1>7, <1>8, <1>9, <1>10 DEF IInv

LEMMA MapFailsInv ==
  ASSUME IInv, OneThread, NEW t \in Threads, MapFails(t)
  PROVE  IInv'
<1> USE DEF MapFails, At, Goto, NULL
<1>0. Threads = {t}
  BY NoneIsNoThread
<1>1. TypeOK'
  BY DEF IInv, TypeOK
<1>2. pc'[t] = "idle" /\ MmapMayFail
  BY DEF IInv, TypeOK
<1>3. Argued' /\ Cached' /\ Room' /\ Fitting' /\ Free' /\ Written'
  BY <1>0, <1>2 DEF Argued, Cached, Room, Fitting, Free, Written
<1>4. Aligned'
  BY SizeFacts DEF Aligned
<1>5. NoStaleEnd'
  BY <1>2, TrampolineAssumption DEF NoStaleEnd
<1>6. Placed' /\ IssuedIntact' /\ FaultsOnlyAtNull'
  BY DEF IInv, Placed, IssuedIntact, FaultsOnlyAtNull
<1>7. QED
  BY <1>1, <1>3, <1>4, <1>5, <1>6 DEF IInv

LEMMA SetEndInv ==
  ASSUME IInv, OneThread, NEW t \in Threads, SetEnd(t)
  PROVE  IInv'
<1> USE DEF SetEnd, At, Goto, NULL
<1>0. Threads = {t}
  BY NoneIsNoThread
<1>1. off[t] = currentTrampolineOff /\ currentTrampolineOff # NULL
  BY DEF IInv, Cached, Fitting
<1>2. trampolineSpaceEnd' = currentTrampolineOff + SpaceSize
  BY <1>1 DEF Reread, SpaceEnd
<1>3. PICK p \in mapped : /\ p <= currentTrampolineOff
                          /\ currentTrampolineOff + SpaceSize = p + SpaceSize
  BY <1>1 DEF IInv, Room, End
<1>4. /\ p \in Nat /\ p \in Pages /\ currentTrampolineOff \in Nat
      /\ SpaceSize \in Nat /\ SpaceSize >= 28
  BY SpaceAssumption DEF IInv, TypeOK
<1>5. p = currentTrampolineOff
  BY <1>3, <1>4
<1>6. pc[t] = "setend" /\ pc'[t] = "emit"
  BY DEF IInv, TypeOK
<1>7. TypeOK'
  BY <1>2, <1>4, <1>5 DEF IInv, TypeOK
<1>8. Argued' /\ Cached' /\ Aligned' /\ Placed' /\ Written'
  BY <1>0, <1>1, <1>6 DEF IInv, Argued, Cached, Aligned, Placed, Written
<1>9. Room' /\ Free'
  BY <1>0, <1>2, <1>5, <1>6 DEF IInv, Room, Free, End
<1>10. Fitting' /\ NoStaleEnd'
  BY <1>0, <1>1, <1>2, <1>4, <1>6, SizeFacts DEF Fitting, NoStaleEnd, Size
<1>11. IssuedIntact' /\ FaultsOnlyAtNull'
  BY DEF IInv, IssuedIntact, FaultsOnlyAtNull
<1>12. QED
  BY <1>7, <1>8, <1>9, <1>10, <1>11 DEF IInv

LEMMA EmitInv ==
  ASSUME IInv, OneThread, NEW t \in Threads, Emit(t)
  PROVE  IInv'
<1> USE DEF Emit, At, Goto, NULL
<1> DEFINE cur == currentTrampolineOff
           new == Produced(t, cur)
<1>0. Threads = {t}
  BY NoneIsNoThread
<1>1. off[t] = cur /\ pc[t] = "emit" /\ cur \in Nat
  BY DEF IInv, Cached, TypeOK
<1>2. /\ Writable(mapped, cur, Size(t))
      /\ tramps' = Overwrite(tramps, new)
      /\ off' = [off EXCEPT ![t] = cur]
  BY <1>1 DEF Reread
<1>3. cur # NULL
  BY <1>2, NullNotWritable, SizeFacts DEF Size
<1>4. arg[t] \in Args
  BY <1>1 DEF IInv, Argued
<1>5. /\ new \in [at : Nat, to : Methods, orig : EntryPoints \cup {None}]
      /\ new.at = cur /\ After(new) = cur + Size(t)
  BY <1>1, <1>4 DEF Args, Produced, Trampoline, After, Size
<1>6. TypeOK'
  BY <1>1, <1>2, <1>5 DEF IInv, TypeOK, Overwrite
<1>7. pc'[t] = "bump" /\ off'[t] = cur
  BY <1>1, <1>2 DEF IInv, TypeOK
<1>8. PICK p \in mapped : p <= cur /\ trampolineSpaceEnd = p + SpaceSize
  BY <1>1, <1>3 DEF IInv, Room, End
<1>9. cur + Size(t) <= trampolineSpaceEnd
  BY <1>1, <1>3 DEF IInv, Fitting
<1>10. Argued' /\ Cached' /\ Aligned'
  BY <1>0, <1>4, <1>7 DEF IInv, Argued, Cached, Aligned
<1>11. Room' /\ Fitting' /\ NoStaleEnd'
  BY <1>0, <1>3, <1>7, <1>8, <1>9 DEF IInv, Room, End, Fitting, NoStaleEnd, Size
<1>12. Placed'
  BY <1>2, <1>5, <1>8, <1>9 DEF IInv, Placed, Overwrite
<1>13. Free' /\ Written'
  <2>1. Produced(t, off[t])' = new
    BY <1>7 DEF Produced
  <2>2. ASSUME NEW r \in tramps
        PROVE  After(r) <= cur \/ r.at >= trampolineSpaceEnd
    BY <1>1, <1>3 DEF IInv, Free, End
  <2>3. QED
    BY <1>0, <1>2, <1>7, <2>1, <2>2 DEF Free, Written, End, Overwrite
<1>14. IssuedIntact'
  <2>1. ASSUME NEW s \in issued
        PROVE  s \in tramps /\ Disjoint(new, s)
    <3>1. s \in tramps
      BY DEF IInv, IssuedIntact
    <3>2. After(s) <= cur \/ s.at >= trampolineSpaceEnd
      BY <1>1, <1>3, <3>1 DEF IInv, Free, End
    <3>3. s.at \in Nat /\ Size(t) \in Nat /\ trampolineSpaceEnd \in Nat
      BY <3>1, SizeFacts, SpaceAssumption DEF IInv, TypeOK, Size
    <3>4. QED
      BY <1>1, <1>5, <1>9, <3>1, <3>2, <3>3 DEF Disjoint
  <2>2. QED
    BY <1>2, <2>1 DEF IssuedIntact, Overwrite
<1>15. FaultsOnlyAtNull'
  BY DEF FaultsOnlyAtNull
<1>16. QED
  BY <1>6, <1>10, <1>11, <1>12, <1>13, <1>14, <1>15 DEF IInv

LEMMA FaultInv ==
  ASSUME IInv, OneThread, NEW t \in Threads, Fault(t)
  PROVE  IInv' /\ currentTrampolineOff = NULL
<1> USE DEF Fault, At, NULL
<1>0. Threads = {t}
  BY NoneIsNoThread
<1>1. off[t] = currentTrampolineOff /\ pc[t] = "emit"
  BY DEF IInv, Cached
<1>2. /\ ~Writable(mapped, currentTrampolineOff, Size(t))
      /\ off' = [off EXCEPT ![t] = currentTrampolineOff]
  BY <1>1 DEF Reread
<1>3. currentTrampolineOff = NULL
  BY <1>1, <1>2, EmitWritable
<1>4. TypeOK'
  BY <1>2, <1>3 DEF IInv, TypeOK
<1>5. off'[t] = NULL
  BY <1>2, <1>3 DEF IInv, TypeOK
<1>6. Argued' /\ Cached' /\ Aligned' /\ Placed' /\ Room' /\ Fitting'
  BY <1>0, <1>1, <1>3 DEF IInv, Argued, Cached, Aligned, Placed, Room, Fitting
<1>7. Free' /\ Written' /\ NoStaleEnd'
  BY <1>0, <1>1, <1>3 DEF IInv, Free, Written, NoStaleEnd
<1>8. IssuedIntact' /\ FaultsOnlyAtNull'
  BY <1>5 DEF IInv, IssuedIntact, FaultsOnlyAtNull
<1>9. QED
  BY <1>3, <1>4, <1>6, <1>7, <1>8 DEF IInv

LEMMA BumpInv ==
  ASSUME IInv, OneThread, NEW t \in Threads, Bump(t)
  PROVE  IInv'
<1> USE DEF Bump, At, Goto, NULL
<1> DEFINE cur == currentTrampolineOff
           new == Produced(t, cur)
           n == roundUpToPtrSize(TrampolineSize(arg[t].orig))
<1>0. Threads = {t}
  BY NoneIsNoThread
<1>1. off[t] = cur /\ pc[t] = "bump" /\ cur \in Nat /\ cur # NULL
  BY DEF IInv, Cached, TypeOK, Fitting
<1>2. currentTrampolineOff' = cur + n /\ issued' = issued \cup {new}
  BY <1>1 DEF Reread
<1>3. /\ n \in Nat /\ Size(t) \in 1 .. 28 /\ n >= Size(t)
      /\ (cur + n) % PtrSize = 0
  BY <1>1, RoundUp, SizeFacts DEF IInv, Aligned, Size
<1>4. new \in tramps
  BY <1>1 DEF IInv, Written
<1>5. TypeOK'
  BY <1>1, <1>2, <1>3, <1>4 DEF IInv, TypeOK
<1>6. pc'[t] = "idle"
  BY DEF IInv, TypeOK
<1>7. Argued' /\ Cached' /\ Aligned' /\ Fitting' /\ Written' /\ Placed'
  BY <1>0, <1>2, <1>3, <1>6
     DEF IInv, Argued, Cached, Aligned, Fitting, Written, Placed
<1>8. Room'
  <2>1. PICK p \in mapped : p <= cur /\ trampolineSpaceEnd = p + SpaceSize
    BY <1>1 DEF IInv, Room, End
  <2>2. p \in Nat
    BY SpaceAssumption DEF IInv, TypeOK
  <2>3. p <= cur + n
    BY <1>1, <1>3, <2>1, <2>2
  <2>4. QED
    BY <1>0, <1>2, <1>6, <2>1, <2>3 DEF Room, End
<1>9. Free'
  <2>1. ASSUME NEW r \in tramps
        PROVE  After(r) <= cur + n \/ r.at >= trampolineSpaceEnd
    <3>1. \/ After(r) <= cur
          \/ r.at >= trampolineSpaceEnd
          \/ r = new
      BY <1>1 DEF IInv, Free, End
    <3>2. After(new) = cur + Size(t)
      BY DEF After, Produced, Trampoline, Size
    <3>3. After(r) \in Nat
      BY SizeFacts DEF IInv, TypeOK, After
    <3>4. QED
      BY <1>1, <1>3, <3>1, <3>2, <3>3
  <2>2. QED
    BY <1>0, <1>2, <1>6, <2>1 DEF Free, End
<1>10. NoStaleEnd'
  BY <1>0, <1>1, <1>2, <1>3, <1>6 DEF NoStaleEnd
<1>11. IssuedIntact' /\ FaultsOnlyAtNull'
  BY <1>2, <1>4 DEF IInv, IssuedIntact, FaultsOnlyAtNull
<1>12. QED
  BY <1>5, <1>7, <1>8, <1>9, <1>10, <1>11 DEF IInv

(***************************************************************************)
(* A returned trampoline shares no byte with one returned before.          *)
(***************************************************************************)
LEMMA BumpIssues ==
  ASSUME IInv, OneThread, NEW t \in Threads, Bump(t)
  PROVE  [Abs!Issue]_issued
<1> DEFINE cur == currentTrampolineOff
           new == Produced(t, cur)
<1>1. /\ off[t] = cur /\ pc[t] = "bump" /\ cur \in Nat /\ cur # NULL
      /\ cur % PtrSize = 0
  BY DEF Bump, At, IInv, Cached, TypeOK, Fitting, Aligned
<1>2. issued' = issued \cup {new}
  BY <1>1 DEF Bump
<1>3. /\ new.at = cur /\ After(new) = cur + Size(t)
      /\ cur + Size(t) <= trampolineSpaceEnd
  BY <1>1 DEF Produced, Trampoline, After, Size, IInv, Fitting
<1>4. ASSUME NEW s \in issued, new \notin issued
      PROVE  Disjoint(new, s)
  <2>1. s \in tramps /\ s # new
    BY <1>4 DEF IInv, IssuedIntact
  <2>2. After(s) <= cur \/ s.at >= trampolineSpaceEnd
    BY <1>1, <2>1 DEF IInv, Free, End
  <2>3. s.at \in Nat /\ Size(t) \in Nat /\ trampolineSpaceEnd \in Nat
    BY <2>1, SizeFacts, SpaceAssumption DEF IInv, TypeOK, Size, NULL
  <2>4. QED
    BY <1>1, <1>3, <2>2, <2>3 DEF Disjoint
<1>5. CASE new \in issued
  BY <1>2, <1>5
<1>6. CASE new \notin issued
  <2>1. new \in issued' \ issued
    BY <1>2, <1>6
  <2>2. Abs!Issue
    BY <1>1, <1>2, <1>3, <1>4, <1>6, <2>1 DEF Abs!Issue, Abs!NULL, NULL,
       Abs!PtrSize, PtrSize, Abs!Disjoint, Disjoint, Abs!After, After,
       Abs!Length, Length, Abs!HookSize, HookSize, Abs!BackupSize, BackupSize
  <2>3. QED
    BY <2>2
<1>7. QED
  BY <1>5, <1>6

LEMMA StepInv ==
  ASSUME IInv, OneThread, [Next]_vars
  PROVE  IInv'
<1>1. ASSUME NEW t \in Threads, Call(t) PROVE IInv'
  BY <1>1, CallInv
<1>2. ASSUME NEW t \in Threads, Map(t) PROVE IInv'
  BY <1>2, MapInv
<1>3. ASSUME NEW t \in Threads, MapFails(t) PROVE IInv'
  BY <1>3, MapFailsInv
<1>4. ASSUME NEW t \in Threads, SetEnd(t) PROVE IInv'
  BY <1>4, SetEndInv
<1>5. ASSUME NEW t \in Threads, Emit(t) PROVE IInv'
  BY <1>5, EmitInv
<1>6. ASSUME NEW t \in Threads, Fault(t) PROVE IInv'
  BY <1>6, FaultInv
<1>7. ASSUME NEW t \in Threads, Bump(t) PROVE IInv'
  BY <1>7, BumpInv
<1>8. CASE UNCHANGED vars
  BY <1>8 DEF vars, IInv, TypeOK, Argued, Cached, Aligned, Room, Fitting,
     Placed, Free, Written, NoStaleEnd, IssuedIntact, FaultsOnlyAtNull, End,
     Size, Produced
<1>9. QED
  BY <1>1, <1>2, <1>3, <1>4, <1>5, <1>6, <1>7, <1>8 DEF Next

-----------------------------------------------------------------------------
(***************************************************************************)
(* With one hooking thread at a time the inductive invariant holds.        *)
(***************************************************************************)
THEOREM Invariance == OneThread => (Spec => []IInv)
<1> SUFFICES ASSUME OneThread PROVE Spec => []IInv
  OBVIOUS
<1>1. Init => IInv
  BY InitInv
<1>2. IInv /\ [Next]_vars => IInv'
  BY StepInv
<1>3. QED
  BY <1>1, <1>2, PTL DEF Spec

(***************************************************************************)
(* Type correctness, and trampolineSpaceEnd is the end of a space.         *)
(***************************************************************************)
THEOREM TypeCorrect == OneThread => (Spec => []TypeOK)
<1> SUFFICES ASSUME OneThread PROVE Spec => []TypeOK
  OBVIOUS
<1>1. IInv => TypeOK
  BY DEF IInv
<1>2. QED
  BY <1>1, Invariance, PTL

(***************************************************************************)
(* No trampoline that genTrampoline (trampoline.c:126-198) ever returned   *)
(* is overwritten, even when mmap may fail, for every ABI and space size.  *)
(***************************************************************************)
THEOREM TrampolinesStayIntact == OneThread => (Spec => []IssuedIntact)
<1> SUFFICES ASSUME OneThread PROVE Spec => []IssuedIntact
  OBVIOUS
<1>1. IInv => IssuedIntact
  BY DEF IInv
<1>2. QED
  BY <1>1, Invariance, PTL

(***************************************************************************)
(* Whatever mmap does, the process can die in genTrampoline only by the    *)
(* copy to NULL that follows a failed allocation (trampoline.c:131).       *)
(***************************************************************************)
THEOREM OnlyNullFaults == OneThread => (Spec => []FaultsOnlyAtNull)
<1> SUFFICES ASSUME OneThread PROVE Spec => []FaultsOnlyAtNull
  OBVIOUS
<1>1. IInv => FaultsOnlyAtNull
  BY DEF IInv
<1>2. QED
  BY <1>1, Invariance, PTL

(***************************************************************************)
(* As long as mmap succeeds no copy leaves the mapped spaces: the test of  *)
(* trampoline.c:130 is enough.                                             *)
(***************************************************************************)
THEOREM NoFaultUnlessMmapFails ==
  OneThread /\ ~MmapMayFail => (Spec => []NoFault)
<1> SUFFICES ASSUME OneThread, ~MmapMayFail PROVE Spec => []NoFault
  OBVIOUS
<1>1. Init => NoFault
  BY DEF Init, NoFault
<1>2. ASSUME IInv, NoFault, [Next]_vars PROVE NoFault'
  <2>1. ASSUME NEW t \in Threads, Fault(t) PROVE FALSE
    <3>1. currentTrampolineOff = NULL
      BY <1>2, <2>1, FaultInv
    <3>2. pc[t] = "emit"
      BY <2>1 DEF Fault, At
    <3>3. QED
      BY <1>2, <3>1, <3>2 DEF IInv, NoStaleEnd
  <2>2. QED
    BY <1>2, <2>1 DEF Next, vars, NoFault, Call, Map, MapFails, SetEnd, Emit,
       Bump
<1>3. QED
  BY <1>1, <1>2, Invariance, PTL DEF Spec

(***************************************************************************)
(* genTrampoline implements TrampolineAbs: what it returns is aligned      *)
(* (trampoline.c:194) and never overlaps what it returned before.          *)
(***************************************************************************)
THEOREM Implementation == OneThread => (Spec => ImplementsAbs)
<1> SUFFICES ASSUME OneThread PROVE Spec => ImplementsAbs
  OBVIOUS
<1>1. Init => Abs!Init
  BY DEF Init, Abs!Init
<1>2. ASSUME IInv, [Next]_vars PROVE [Abs!Issue]_issued
  <2>1. ASSUME NEW t \in Threads, Bump(t) PROVE [Abs!Issue]_issued
    BY <1>2, <2>1, BumpIssues
  <2>2. QED
    BY <1>2, <2>1 DEF Next, vars, Call, Map, MapFails, SetEnd, Emit, Fault
<1>3. QED
  BY <1>1, <1>2, Invariance, PTL DEF Spec, ImplementsAbs, Abs!Spec
=============================================================================
