-------------------------- MODULE MethodHook_proofs --------------------------
(***************************************************************************)
(* Proofs about doBackupAndHook against a JIT compiler and a class linker  *)
(* that may step in between any two steps, among them that it implements   *)
(* HookAbs: for any set of requests, any API level and any failure of mmap *)
(* or of Utils.initClass.                                                  *)
(***************************************************************************)
EXTENDS MethodHook, TLAPS

-----------------------------------------------------------------------------
\* The hooking thread works for a request exactly between two calls.
Busy == pc # "idle" => req \in Requests

\* A half is under way with a half left to do.
HalvesLeft ==
  pc \in {"genTrampoline", "writeEntry", "setMode"} =>
    \/ halves = <<"target">>
    \/ halves = <<"backup", "target">> /\ req.backup # None

\* Between genTrampoline and the store its result is an entry point.
Generated == pc = "writeEntry" => newEntrypoint \in Entries

\* A failed half is one of those that are done.
Counted ==
  /\ pc \in {"initClass", "setNonCompilable"} => res = 0
  /\ pc \in {"genTrampoline", "writeEntry", "setMode"} => res + Len(halves) <= 2

\* From setNonCompilable on the methods being rewritten stay as they are.
Prepared ==
  pc \in {"genTrampoline", "writeEntry", "setMode"} =>
    /\ ~Compilable(req.target)
    /\ req.backup # None => ~Compilable(req.backup)

IInv == /\ TypeOK /\ Busy /\ HalvesLeft /\ Generated /\ Counted
        /\ Prepared /\ TrampolineNotCompiled

-----------------------------------------------------------------------------
(***************************************************************************)
(* The roles of a request are methods.                                     *)
(***************************************************************************)
LEMMA Roles ==
  ASSUME NEW r \in Requests
  PROVE  /\ r.target \in Methods /\ r.hook \in Methods
         /\ r.backup # None => r.backup \in Methods
BY DEF Methods, Targets, Hooks, Backups

(***************************************************************************)
(* setNonCompilable (hook_main.c:126-139) makes a method non-compilable on *)
(* every API level.                                                        *)
(***************************************************************************)
LEMMA NonCompilableWorks ==
  ASSUME NEW m, NEW fs, sdk \in Nat, flags[m] = NonCompilable(fs)
  PROVE  ~Compilable(m)
BY DEF NonCompilable, Compilable

(***************************************************************************)
(* replaceMethod's changes of the flags never make a method compilable     *)
(* (hook_main.c:175-195).                                                  *)
(***************************************************************************)
LEMMA ModeKeepsNonCompilable ==
  ASSUME NEW fs
  PROVE  /\ "dontBother" \in Mode(fs) <=> "dontBother" \in fs
         /\ "preCompiled" \in Mode(fs) <=> "preCompiled" \in fs
BY DEF Mode

LEMMA InitInv == Init => IInv
<1> SUFFICES ASSUME Init PROVE IInv
  OBVIOUS
<1> USE DEF Init
<1>1. TypeOK
  <2>1. entry \in [Methods -> Entries]
    BY DEF Own, Entries
  <2>2. log \in Seq([req : Requests, ok : BOOLEAN,
               init : BOOLEAN])
    OBVIOUS
  <2>3. /\ interp \in [Methods -> {"interpret", "compiled"}]
        /\ flags \in [Methods -> SUBSET {"native", "dontBother", "preCompiled",
                                         "fastInterp"}]
        /\ visible \subseteq Methods
    OBVIOUS
  <2>4. /\ halves \in {<<>>, <<"target">>, <<"backup", "target">>}
        /\ req \in Requests \cup {None}
        /\ newEntrypoint \in Entries \cup {None}
        /\ pinned \subseteq Methods
        /\ res \in 0 .. 2
    OBVIOUS
  <2>5. QED
    BY <2>1, <2>2, <2>3, <2>4 DEF TypeOK
<1>2. Busy /\ HalvesLeft /\ Generated /\ Counted /\ Prepared
  BY DEF Busy, HalvesLeft, Generated, Counted, Prepared
<1>3. TrampolineNotCompiled
  BY DEF TrampolineNotCompiled, IsTrampoline, Own
<1>4. QED
  BY <1>1, <1>2, <1>3 DEF IInv

-----------------------------------------------------------------------------
(***************************************************************************)
(* One lemma per kind of step.  First the runtime: it leaves the flags     *)
(* alone and compiles only what it may.                                    *)
(***************************************************************************)
LEMMA RuntimeInv ==
  ASSUME IInv, Runtime
  PROVE  IInv'
<1>1. PICK m \in Methods : JitCompile(m) \/ MakeVisible(m)
  BY DEF Runtime
<1>2. /\ UNCHANGED <<sdk, build, interp, flags, linker, initOk, space, pc, req,
                     halves, newEntrypoint, res, pinned, log, crashed>>
      /\ visible' \subseteq Methods
  BY <1>1 DEF JitCompile, MakeVisible, IInv, TypeOK
<1>3. /\ entry' \in [Methods -> Entries]
      /\ \A n \in Methods : \/ entry'[n] = entry[n]
                            \/ ~IsTrampoline(entry'[n])
  <2>1. CASE JitCompile(m)
    BY <2>1 DEF JitCompile, Jitted, Entries, IsTrampoline, IInv, TypeOK
  <2>2. CASE MakeVisible(m)
    BY <2>2 DEF MakeVisible, Fixup, Own, Entries, IsTrampoline, IInv, TypeOK
  <2>3. QED
    BY <1>1, <2>1, <2>2
<1>4. TypeOK'
  BY <1>2, <1>3 DEF IInv, TypeOK
<1>5. Busy' /\ HalvesLeft' /\ Generated' /\ Counted' /\ Prepared'
  BY <1>2 DEF IInv, Busy, HalvesLeft, Generated, Counted, Prepared, Compilable
<1>6. TrampolineNotCompiled'
  BY <1>2, <1>3 DEF IInv, TrampolineNotCompiled, Compilable, IsTrampoline
<1>7. QED
  BY <1>4, <1>5, <1>6 DEF IInv

LEMMA CallInv ==
  ASSUME IInv, NEW r \in Requests, backupAndHook(r)
  PROVE  IInv'
<1> USE DEF backupAndHook, At, art
<1>1. TypeOK'
  BY DEF IInv, TypeOK
<1>2. Busy' /\ HalvesLeft' /\ Generated' /\ Counted' /\ Prepared'
  BY DEF IInv, Busy, HalvesLeft, Generated, Counted, Prepared
<1>3. TrampolineNotCompiled'
  BY DEF IInv, TrampolineNotCompiled, Compilable, IsTrampoline
<1>4. QED
  BY <1>1, <1>2, <1>3 DEF IInv

LEMMA InitClassInv ==
  ASSUME IInv, InitClass
  PROVE  IInv'
<1> USE DEF InitClass, At
<1>1. /\ entry' \in [Methods -> Entries]
      /\ \A n \in Methods : \/ entry'[n] = entry[n]
                            \/ ~IsTrampoline(entry'[n])
  BY DEF Fixup, Own, Entries, IsTrampoline, IInv, TypeOK
<1>2. TypeOK'
  BY <1>1 DEF IInv, TypeOK
<1>3. Busy' /\ HalvesLeft' /\ Generated' /\ Counted' /\ Prepared'
  BY DEF IInv, Busy, HalvesLeft, Generated, Counted, Prepared
<1>4. TrampolineNotCompiled'
  BY <1>1 DEF IInv, TrampolineNotCompiled, Compilable, IsTrampoline
<1>5. QED
  BY <1>2, <1>3, <1>4 DEF IInv

LEMMA SetNonCompilableInv ==
  ASSUME IInv, SetNonCompilable
  PROVE  IInv'
<1> USE DEF SetNonCompilable, At
<1> DEFINE Kinds == {"native", "dontBother", "preCompiled", "fastInterp"}
<1>1. sdk \in Nat /\ sdk' = sdk
  BY MethodHookAssumption DEF IInv, TypeOK
<1>2. req \in Requests /\ req' = req /\ req.target \in Methods
      /\ (req.backup # None => req.backup \in Methods)
  BY Roles DEF IInv, Busy
<1>3. \A m \in Methods :
        /\ flags[m] \subseteq Kinds
        /\ flags'[m] = IF m \in {req.target, req.backup}
                       THEN NonCompilable(flags[m]) ELSE flags[m]
  BY DEF IInv, TypeOK
<1>4. \A m \in Methods : NonCompilable(flags[m]) \subseteq Kinds
  BY <1>3 DEF NonCompilable
<1>5. flags' \in [Methods -> SUBSET Kinds]
  BY <1>3, <1>4
<1>6. halves' \in {<<"target">>, <<"backup", "target">>}
      /\ (halves' = <<"target">> \/ req.backup # None)
      /\ Len(halves') <= 2
  BY DEF Halves
<1>7. TypeOK'
  BY <1>5, <1>6 DEF IInv, TypeOK
<1>8. \A m \in Methods : m \in {req.target, req.backup} => ~Compilable(m)'
  BY <1>1, <1>3 DEF NonCompilable, Compilable
<1>9. \A m \in Methods : ~Compilable(m) => ~Compilable(m)'
  BY <1>1, <1>3, <1>8 DEF Compilable
<1>10. Busy' /\ HalvesLeft' /\ Generated' /\ Counted'
  BY <1>6 DEF IInv, Busy, HalvesLeft, Generated, Counted
<1>11. Prepared'
  BY <1>2, <1>8 DEF Prepared
<1>12. TrampolineNotCompiled'
  BY <1>9 DEF IInv, TrampolineNotCompiled, IsTrampoline
<1>13. QED
  BY <1>7, <1>10, <1>11, <1>12 DEF IInv

LEMMA GenTrampolineInv ==
  ASSUME IInv, GenTrampoline
  PROVE  IInv'
<1> USE DEF GenTrampoline, At, art
<1>1. req \in Requests /\ req.target \in Methods /\ req.hook \in Methods
  BY Roles DEF IInv, Busy
<1>2. newEntrypoint' \in Entries
  BY <1>1 DEF BackupTrampoline, HookTrampoline, Entries, IInv, TypeOK
<1>3. TypeOK'
  BY <1>2 DEF IInv, TypeOK
<1>4. Busy' /\ HalvesLeft' /\ Generated' /\ Counted' /\ Prepared'
  BY <1>2 DEF IInv, Busy, HalvesLeft, Generated, Counted, Prepared, Compilable
<1>5. TrampolineNotCompiled'
  BY DEF IInv, TrampolineNotCompiled, Compilable
<1>6. QED
  BY <1>3, <1>4, <1>5 DEF IInv

(***************************************************************************)
(* Ending a half leaves a legal list of halves behind.                     *)
(***************************************************************************)
LEMMA EndHalfFacts ==
  ASSUME IInv, EndHalf,
         pc \in {"genTrampoline", "writeEntry", "setMode"}
  PROVE  /\ halves' \in {<<>>, <<"target">>}
         /\ Len(halves') = Len(halves) - 1
         /\ Len(halves) \in 1 .. 2
         /\ pc' \in {"genTrampoline", "return"}
         /\ pc' = "genTrampoline" => halves' = <<"target">>
<1>1. CASE halves = <<"target">>
  BY <1>1 DEF EndHalf
<1>2. CASE halves = <<"backup", "target">>
  BY <1>2 DEF EndHalf
<1>3. QED
  BY <1>1, <1>2 DEF IInv, HalvesLeft

LEMMA GenTrampolineFailsInv ==
  ASSUME IInv, GenTrampolineFails
  PROVE  IInv'
<1> USE DEF GenTrampolineFails, At, art
<1>1. /\ halves' \in {<<>>, <<"target">>}
      /\ Len(halves') = Len(halves) - 1 /\ Len(halves) \in 1 .. 2
      /\ pc' \in {"genTrampoline", "return"}
      /\ pc' = "genTrampoline" => halves' = <<"target">>
  BY EndHalfFacts
<1>2. res' \in 0 .. 2 /\ res' + Len(halves') <= 2
  BY <1>1 DEF IInv, TypeOK, Counted
<1>3. TypeOK'
  BY <1>1, <1>2 DEF IInv, TypeOK
<1>4. Busy' /\ HalvesLeft' /\ Generated' /\ Counted' /\ Prepared'
  BY <1>1, <1>2 DEF IInv, Busy, HalvesLeft, Generated, Counted, Prepared,
                    Compilable
<1>5. TrampolineNotCompiled'
  BY DEF IInv, TrampolineNotCompiled, Compilable
<1>6. QED
  BY <1>3, <1>4, <1>5 DEF IInv

LEMMA GenTrampolineFaultsInv ==
  ASSUME IInv, GenTrampolineFaults
  PROVE  IInv'
<1> USE DEF GenTrampolineFaults, At, art
<1>1. TypeOK'
  BY DEF IInv, TypeOK
<1>2. Busy' /\ HalvesLeft' /\ Generated' /\ Counted' /\ Prepared'
  BY DEF IInv, Busy, HalvesLeft, Generated, Counted, Prepared, Compilable
<1>3. TrampolineNotCompiled'
  BY DEF IInv, TrampolineNotCompiled, Compilable
<1>4. QED
  BY <1>1, <1>2, <1>3 DEF IInv

LEMMA FromIsPrepared ==
  ASSUME IInv, pc \in {"writeEntry", "setMode"}
  PROVE  From \in Methods /\ ~Compilable(From)
<1>1. req \in Requests
  BY DEF IInv, Busy
<1>2. CASE halves = <<"target">>
  BY <1>1, <1>2, Roles DEF From, IInv, Prepared
<1>3. CASE halves = <<"backup", "target">> /\ req.backup # None
  BY <1>1, <1>3, Roles DEF From, IInv, Prepared
<1>4. QED
  BY <1>2, <1>3 DEF IInv, HalvesLeft

LEMMA WriteEntryInv ==
  ASSUME IInv, WriteEntry
  PROVE  IInv'
<1> USE DEF WriteEntry, At
<1>1. From \in Methods /\ ~Compilable(From)
  BY FromIsPrepared
<1>2. newEntrypoint \in Entries
  BY DEF IInv, Generated
<1>3. TypeOK'
  BY <1>1, <1>2 DEF IInv, TypeOK
<1>4. Busy' /\ HalvesLeft' /\ Generated' /\ Counted' /\ Prepared'
  BY DEF IInv, Busy, HalvesLeft, Generated, Counted, Prepared, Compilable
<1>5. \A m \in Methods : entry'[m] = IF m = From THEN newEntrypoint ELSE entry[m]
  BY DEF IInv, TypeOK
<1>6. TrampolineNotCompiled'
  BY <1>1, <1>5 DEF IInv, TrampolineNotCompiled, Compilable
<1>7. QED
  BY <1>3, <1>4, <1>6 DEF IInv

LEMMA SetModeInv ==
  ASSUME IInv, SetMode
  PROVE  IInv'
<1> USE DEF SetMode, At
<1> DEFINE Kinds == {"native", "dontBother", "preCompiled", "fastInterp"}
<1>1. From \in Methods
  BY FromIsPrepared
<1>2. /\ halves' \in {<<>>, <<"target">>}
      /\ Len(halves') = Len(halves) - 1 /\ Len(halves) \in 1 .. 2
      /\ pc' \in {"genTrampoline", "return"}
      /\ pc' = "genTrampoline" => halves' = <<"target">>
  BY EndHalfFacts
<1>3. req \in Requests /\ req.target \in Methods /\ req.hook \in Methods
      /\ (req.backup # None => req.backup \in Methods)
  BY Roles DEF IInv, Busy
<1>4. interp' \in [Methods -> {"interpret", "compiled"}]
  BY <1>1, <1>3 DEF IInv, TypeOK, Interp
<1>5. Mode(flags[From]) \subseteq Kinds
  BY <1>1 DEF IInv, TypeOK, Mode
<1>6. flags' \in [Methods -> SUBSET Kinds]
  BY <1>1, <1>5 DEF IInv, TypeOK
<1>7. TypeOK'
  BY <1>2, <1>4, <1>6 DEF IInv, TypeOK
<1>8. \A m \in Methods : Compilable(m)' = Compilable(m)
  <2> TAKE m \in Methods
  <2>1. flags'[m] = IF m = From THEN Mode(flags[From]) ELSE flags[m]
    BY DEF IInv, TypeOK
  <2>2. QED
    BY <2>1, ModeKeepsNonCompilable DEF Compilable
<1>9. Busy' /\ HalvesLeft' /\ Generated' /\ Counted'
  BY <1>2 DEF IInv, Busy, HalvesLeft, Generated, Counted, TypeOK
<1>10. Prepared'
  BY <1>3, <1>8 DEF IInv, Prepared
<1>11. TrampolineNotCompiled'
  BY <1>8 DEF IInv, TrampolineNotCompiled
<1>12. QED
  BY <1>7, <1>9, <1>10, <1>11 DEF IInv

LEMMA ReturnInv ==
  ASSUME IInv, Return
  PROVE  IInv'
<1> USE DEF Return, At, art
<1>1. req \in Requests
  BY DEF IInv, Busy
<1>2. Refs(req) \subseteq Methods
  BY <1>1, Roles DEF Refs
<1>3. log' \in Seq([req : Requests, ok : BOOLEAN,
               init : BOOLEAN])
  BY <1>1 DEF IInv, TypeOK
<1>4. TypeOK'
  BY <1>2, <1>3 DEF IInv, TypeOK
<1>5. Busy' /\ HalvesLeft' /\ Generated' /\ Counted' /\ Prepared'
  BY DEF IInv, Busy, HalvesLeft, Generated, Counted, Prepared
<1>6. TrampolineNotCompiled'
  BY DEF IInv, TrampolineNotCompiled, Compilable
<1>7. QED
  BY <1>4, <1>5, <1>6 DEF IInv

LEMMA StepInv ==
  ASSUME IInv, [Next]_vars
  PROVE  IInv'
<1>1. CASE Hooking
  BY <1>1, CallInv, InitClassInv, SetNonCompilableInv, GenTrampolineInv,
     GenTrampolineFailsInv, GenTrampolineFaultsInv, WriteEntryInv, SetModeInv,
     ReturnInv DEF Hooking
<1>2. CASE Runtime
  BY <1>2, RuntimeInv
<1>3. CASE UNCHANGED vars
  BY <1>3 DEF vars, IInv, TypeOK, Busy, HalvesLeft, Generated, Counted,
     Prepared, TrampolineNotCompiled, Compilable, IsTrampoline
<1>4. QED
  BY <1>1, <1>2, <1>3 DEF Next

-----------------------------------------------------------------------------
(***************************************************************************)
(* Type correctness: no entry point is ever NULL (hook_main.c:160-166).    *)
(***************************************************************************)
THEOREM TypeCorrect == Spec => []TypeOK
<1>1. Init => IInv
  BY InitInv
<1>2. IInv /\ [Next]_vars => IInv'
  BY StepInv
<1>3. IInv => TypeOK
  BY DEF IInv
<1>4. QED
  BY <1>1, <1>2, <1>3, PTL DEF Spec

(***************************************************************************)
(* The JIT compiler never replaces the code of a method that jumps to a    *)
(* trampoline, on any API level and even when half of a hook failed:       *)
(* setNonCompilable of both methods comes before the first store.          *)
(***************************************************************************)
THEOREM TrampolinesNeverCompiled == Spec => []TrampolineNotCompiled
<1>1. Init => IInv
  BY InitInv
<1>2. IInv /\ [Next]_vars => IInv'
  BY StepInv
<1>3. IInv => TrampolineNotCompiled
  BY DEF IInv
<1>4. QED
  BY <1>1, <1>2, <1>3, PTL DEF Spec

-----------------------------------------------------------------------------
\* Without a trampoline a method leads to itself.
OwnBody == \A m \in Methods : ~IsTrampoline(entry[m]) => entry[m].body = m

\* Where classes need not be initialized, and after Utils.initClass succeeded,
\* the class linker has nothing left to do.
NothingLate ==
  /\ ~ShouldVisiblyInit => visible = Methods
  /\ pc \notin {"idle", "initClass"} /\ initOk => visible = Methods

\* The trampoline that is about to be stored leads to the right place.
Aimed ==
  pc = "writeEntry" =>
    /\ IsTrampoline(newEntrypoint)
    /\ halves = <<"target">> => newEntrypoint.body = req.hook
    /\ halves = <<"backup", "target">> /\ initOk =>
         newEntrypoint.body = entry[req.target].body

\* After the backup half, unless it failed, the backup is in place.
BackedUp ==
  /\ \/ pc = "setMode" /\ halves = <<"backup", "target">>
     \/ pc \in {"genTrampoline", "writeEntry"} /\ halves = <<"target">>
  /\ req.backup # None /\ initOk /\ res = 0
  => entry[req.backup].body = entry[req.target].body

Sound == OwnBody /\ NothingLate /\ Aimed /\ BackedUp

JInv == IInv /\ Sound

\* A step that HookAbs does not see.
Unseen == UNCHANGED <<Dest, visible, Broken>>

-----------------------------------------------------------------------------
LEMMA UnseenSteps ==
  ASSUME Unseen
  PROVE  [Abs!Next]_(Abs!vars)
BY DEF Unseen, Abs!vars

(***************************************************************************)
(* What a step does to where methods lead only depends on their entries.   *)
(***************************************************************************)
LEMMA SameDest ==
  ASSUME UNCHANGED entry
  PROVE  UNCHANGED Dest
BY DEF Dest

(***************************************************************************)
(* Where each kind of entry point leads.                                   *)
(***************************************************************************)
LEMMA EntryFacts ==
  ASSUME NEW m, NEW e
  PROVE  /\ Own(m).body = m
         /\ HookTrampoline(m).body = m /\ IsTrampoline(HookTrampoline(m))
         /\ BackupTrampoline(e).body = e.body
         /\ IsTrampoline(BackupTrampoline(e))
BY DEF Own, HookTrampoline, BackupTrampoline, IsTrampoline

LEMMA InitSound == Init => Sound /\ Abs!Init
<1> SUFFICES ASSUME Init PROVE Sound /\ Abs!Init
  OBVIOUS
<1>1. OwnBody /\ Aimed /\ BackedUp
  BY DEF Init, OwnBody, Aimed, BackedUp, Own
<1>2. NothingLate
  BY DEF Init, NothingLate, ShouldVisiblyInit, LateVisible
<1>3. Dest = [m \in Methods |-> m]
  BY DEF Init, Dest, Own
<1>4. visible \subseteq Methods /\ ~Broken
  BY DEF Init, Broken
<1>5. Abs!Init
  BY <1>3, <1>4 DEF Abs!Init
<1>6. QED
  BY <1>1, <1>2, <1>5 DEF Sound

-----------------------------------------------------------------------------
(***************************************************************************)
(* A method that is compiled had no trampoline, so it led to itself.       *)
(***************************************************************************)
LEMMA JitCompileSound ==
  ASSUME JInv, NEW m \in Methods, JitCompile(m)
  PROVE  Sound' /\ [Abs!Next]_(Abs!vars)
<1> USE DEF JitCompile
<1>1. ~IsTrampoline(entry[m]) /\ entry[m].body = m
  BY DEF JInv, IInv, TrampolineNotCompiled, Sound, OwnBody
<1>2. \A n \in Methods : entry'[n] = IF n = m THEN Jitted(m) ELSE entry[n]
  BY DEF JInv, IInv, TypeOK
<1>3. \A n \in Methods : entry'[n].body = entry[n].body
  BY <1>1, <1>2 DEF Jitted
<1>4. Unseen
  BY <1>3 DEF Unseen, Dest, Broken
<1>5. OwnBody'
  BY <1>1, <1>2 DEF JInv, Sound, OwnBody, Jitted, IsTrampoline
<1>6. NothingLate'
  BY DEF JInv, Sound, NothingLate, ShouldVisiblyInit
<1>7. Aimed' /\ BackedUp'
  <2>1. CASE pc \notin {"genTrampoline", "writeEntry", "setMode"}
    BY <2>1 DEF Aimed, BackedUp
  <2>2. CASE pc \in {"genTrampoline", "writeEntry", "setMode"}
    <3>1. req \in Requests /\ req.target \in Methods
          /\ (req.backup # None => req.backup \in Methods)
      BY <2>2, Roles DEF JInv, IInv, Busy
    <3>2. QED
      BY <3>1, <1>3 DEF JInv, Sound, Aimed, BackedUp
  <2>3. QED
    BY <2>1, <2>2
<1>8. QED
  BY <1>4, <1>5, <1>6, <1>7, UnseenSteps DEF Sound

(***************************************************************************)
(* The class linker only has something to do when Utils.initClass failed.  *)
(***************************************************************************)
LEMMA MakeVisibleSound ==
  ASSUME JInv, NEW m \in Methods, MakeVisible(m)
  PROVE  Sound' /\ [Abs!Next]_(Abs!vars)
<1> USE DEF MakeVisible
<1>1. pc \in {"idle", "initClass"} \/ ~initOk
  BY DEF JInv, Sound, NothingLate
<1>2. ShouldVisiblyInit
  BY DEF JInv, Sound, NothingLate
<1>3. \A n \in Methods : entry'[n] = IF n \in {m} THEN Own(n) ELSE entry[n]
  BY DEF Fixup
<1>4. OwnBody'
  <2> SUFFICES ASSUME NEW n \in Methods, ~IsTrampoline(entry'[n])
               PROVE  entry'[n].body = n
    BY DEF OwnBody, IsTrampoline
  <2>1. CASE n = m
    <3>1. entry'[n] = Own(n)
      BY <2>1, <1>3
    <3>2. QED
      BY <3>1, EntryFacts
  <2>2. CASE n # m
    <3>1. entry'[n] = entry[n]
      BY <2>2, <1>3
    <3>2. QED
      BY <3>1 DEF JInv, Sound, OwnBody
  <2>3. QED
    BY <2>1, <2>2
<1>5. NothingLate' /\ BackedUp'
  BY <1>1, <1>2 DEF NothingLate, BackedUp, ShouldVisiblyInit
<1>6. Aimed'
  BY <1>1 DEF JInv, Sound, Aimed
<1>7. Dest' = [n \in Methods |-> IF n \in {m} THEN n ELSE Dest[n]]
  <2>1. ASSUME NEW n \in Methods
        PROVE  entry'[n].body = IF n \in {m} THEN n ELSE Dest[n]
    <3>1. CASE n = m
      <4>1. entry'[n] = Own(n)
        BY <3>1, <1>3
      <4>2. QED
        BY <3>1, <4>1, EntryFacts
    <3>2. CASE n # m
      <4>1. entry'[n] = entry[n]
        BY <3>2, <1>3
      <4>2. QED
        BY <3>2, <4>1 DEF Dest
    <3>3. QED
      BY <3>1, <3>2
  <2>2. QED
    BY <2>1 DEF Dest
<1>8. UNCHANGED Broken /\ {m} \in SUBSET Methods
  BY DEF Broken
<1>9. Abs!Settle({m})
  BY <1>7, <1>8 DEF Abs!Settle
<1>10. QED
  BY <1>4, <1>5, <1>6, <1>8, <1>9 DEF Sound, Abs!Next

LEMMA CallSound ==
  ASSUME JInv, NEW r \in Requests, backupAndHook(r)
  PROVE  Sound' /\ [Abs!Next]_(Abs!vars)
<1> USE DEF backupAndHook, At, art
<1>1. Sound'
  BY DEF JInv, Sound, OwnBody, NothingLate, Aimed, BackedUp, IsTrampoline,
         ShouldVisiblyInit
<1>2. ~Broken' /\ UNCHANGED <<Dest, visible>>
  BY SameDest DEF Broken
<1>3. Abs!Renew
  BY <1>2 DEF Abs!Renew
<1>4. QED
  BY <1>1, <1>3 DEF Abs!Next

LEMMA InitClassSound ==
  ASSUME JInv, InitClass
  PROVE  Sound' /\ [Abs!Next]_(Abs!vars)
<1> USE DEF InitClass, At
<1>1. res = 0 /\ ~Broken
  BY DEF JInv, IInv, Counted, Broken
<1>2. CASE UNCHANGED <<entry, visible>>
  <2>1. OwnBody' /\ Aimed' /\ BackedUp'
    BY <1>2 DEF JInv, Sound, OwnBody, Aimed, BackedUp, IsTrampoline
  <2>2. NothingLate'
    BY <1>2 DEF JInv, Sound, NothingLate, ShouldVisiblyInit
  <2>3. CASE initOk'
    <3>1. UNCHANGED Broken
      BY <1>1, <2>3 DEF Broken
    <3>2. Unseen
      BY <1>2, <3>1, SameDest DEF Unseen
    <3>3. QED
      BY <2>1, <2>2, <3>2, UnseenSteps DEF Sound
  <2>4. CASE ~initOk'
    <3>1. Broken' /\ UNCHANGED <<Dest, visible>>
      BY <1>2, <2>4, SameDest DEF Broken
    <3>2. Abs!Break
      BY <3>1 DEF Abs!Break
    <3>3. QED
      BY <2>1, <2>2, <3>2 DEF Sound, Abs!Next
  <2>5. QED
    BY <2>3, <2>4
<1>3. CASE initOk' /\ entry' = Fixup(Methods) /\ visible' = Methods
  <2>1. \A n \in Methods : entry'[n] = IF n \in Methods \ visible THEN Own(n)
                                      ELSE entry[n]
    BY <1>3 DEF Fixup
  <2>2. OwnBody'
    <3> SUFFICES ASSUME NEW n \in Methods, ~IsTrampoline(entry'[n])
                 PROVE  entry'[n].body = n
      BY DEF OwnBody, IsTrampoline
    <3>1. CASE n \notin visible
      <4>1. entry'[n] = Own(n)
        BY <3>1, <2>1
      <4>2. QED
        BY <4>1, EntryFacts
    <3>2. CASE n \in visible
      <4>1. entry'[n] = entry[n]
        BY <3>2, <2>1
      <4>2. QED
        BY <4>1 DEF JInv, Sound, OwnBody
    <3>3. QED
      BY <3>1, <3>2
  <2>3. NothingLate' /\ Aimed' /\ BackedUp'
    BY <1>3 DEF NothingLate, Aimed, BackedUp
  <2>4. Dest' = [n \in Methods |-> IF n \in Methods \ visible THEN n ELSE Dest[n]]
    <3>1. ASSUME NEW n \in Methods
          PROVE  entry'[n].body = IF n \in Methods \ visible THEN n ELSE Dest[n]
      <4>1. CASE n \notin visible
        <5>1. entry'[n] = Own(n)
          BY <4>1, <2>1
        <5>2. QED
          BY <4>1, <5>1, EntryFacts
      <4>2. CASE n \in visible
        <5>1. entry'[n] = entry[n]
          BY <4>2, <2>1
        <5>2. QED
          BY <4>2, <5>1 DEF Dest
      <4>3. QED
        BY <4>1, <4>2
    <3>2. QED
      BY <3>1 DEF Dest
  <2>5. UNCHANGED Broken
    BY <1>1, <1>3 DEF Broken
  <2>6. visible' = visible \cup (Methods \ visible)
    BY <1>3 DEF JInv, IInv, TypeOK
  <2>7. Abs!Settle(Methods \ visible)
    BY <2>4, <2>5, <2>6 DEF Abs!Settle
  <2>8. QED
    BY <2>2, <2>3, <2>7 DEF Sound, Abs!Next
<1>4. QED
  BY <1>2, <1>3

-----------------------------------------------------------------------------
(***************************************************************************)
(* Steps that leave the entry points alone.                                *)
(***************************************************************************)
LEMMA SetNonCompilableSound ==
  ASSUME JInv, SetNonCompilable
  PROVE  Sound' /\ [Abs!Next]_(Abs!vars)
<1> USE DEF SetNonCompilable, At
<1>1. OwnBody' /\ Aimed'
  BY DEF JInv, Sound, OwnBody, Aimed, IsTrampoline
<1>2. NothingLate'
  BY DEF JInv, Sound, NothingLate, ShouldVisiblyInit
<1>3. BackedUp'
  BY DEF BackedUp, Halves
<1>4. Unseen
  BY SameDest DEF Unseen, Broken
<1>5. QED
  BY <1>1, <1>2, <1>3, <1>4, UnseenSteps DEF Sound

LEMMA GenTrampolineSound ==
  ASSUME JInv, GenTrampoline
  PROVE  Sound' /\ [Abs!Next]_(Abs!vars)
<1> USE DEF GenTrampoline, At, art
<1>1. OwnBody' /\ BackedUp'
  BY DEF JInv, Sound, OwnBody, BackedUp, IsTrampoline
<1>2. NothingLate'
  BY DEF JInv, Sound, NothingLate, ShouldVisiblyInit
<1>3. Aimed'
  <2>1. CASE Head(halves) = "backup"
    <3>1. newEntrypoint' = BackupTrampoline(entry[req.target])
      BY <2>1
    <3>2. halves # <<"target">>
      BY <2>1
    <3>3. QED
      BY <3>1, <3>2, EntryFacts DEF Aimed, IsTrampoline
  <2>2. CASE Head(halves) # "backup"
    <3>1. newEntrypoint' = HookTrampoline(req.hook)
      BY <2>2
    <3>2. halves # <<"backup", "target">>
      BY <2>2
    <3>3. QED
      BY <3>1, <3>2, EntryFacts DEF Aimed, IsTrampoline
  <2>3. QED
    BY <2>1, <2>2
<1>4. Unseen
  BY SameDest DEF Unseen, Broken
<1>5. QED
  BY <1>1, <1>2, <1>3, <1>4, UnseenSteps DEF Sound

LEMMA GenTrampolineFailsSound ==
  ASSUME JInv, GenTrampolineFails
  PROVE  Sound' /\ [Abs!Next]_(Abs!vars)
<1> USE DEF GenTrampolineFails, At, art
<1>1. res' > 0 /\ pc' \in {"genTrampoline", "return"}
  BY EndHalfFacts DEF JInv, IInv, TypeOK
<1>2. OwnBody' /\ Aimed' /\ BackedUp'
  BY <1>1 DEF JInv, Sound, OwnBody, Aimed, BackedUp, IsTrampoline
<1>3. NothingLate'
  BY <1>1 DEF JInv, Sound, NothingLate, ShouldVisiblyInit
<1>4. Broken' /\ UNCHANGED <<Dest, visible>>
  BY <1>1, SameDest DEF Broken
<1>5. Abs!Break
  BY <1>4 DEF Abs!Break
<1>6. QED
  BY <1>2, <1>3, <1>5 DEF Sound, Abs!Next

LEMMA GenTrampolineFaultsSound ==
  ASSUME JInv, GenTrampolineFaults
  PROVE  Sound' /\ [Abs!Next]_(Abs!vars)
<1> USE DEF GenTrampolineFaults, At, art
<1>1. Sound'
  BY DEF JInv, Sound, OwnBody, NothingLate, Aimed, BackedUp, IsTrampoline,
         ShouldVisiblyInit
<1>2. Unseen
  BY SameDest DEF Unseen, Broken
<1>3. QED
  BY <1>1, <1>2, UnseenSteps

(***************************************************************************)
(* The two stores.                                                         *)
(***************************************************************************)
LEMMA WriteEntrySound ==
  ASSUME JInv, WriteEntry
  PROVE  Sound' /\ [Abs!Next]_(Abs!vars)
<1> USE DEF WriteEntry, At
<1>1. req \in Requests /\ req.target \in Methods
      /\ (req.backup # None => req.backup \in Methods /\ req.backup # req.target)
  BY Roles, MethodHookAssumption DEF JInv, IInv, Busy, Targets, Backups
<1>2. From \in Methods /\ newEntrypoint \in Entries
      /\ newEntrypoint.body \in Methods
  BY FromIsPrepared DEF JInv, IInv, Generated, Entries
<1>3. \A n \in Methods : entry'[n] = IF n = From THEN newEntrypoint ELSE entry[n]
  BY DEF JInv, IInv, TypeOK
<1>4. UNCHANGED <<visible, Broken>>
  BY DEF Broken
<1>5. Dest' = [Dest EXCEPT ![From] = newEntrypoint.body]
  <2>1. \A n \in Methods :
          entry'[n].body = IF n = From THEN newEntrypoint.body ELSE Dest[n]
    BY <1>3 DEF Dest
  <2>2. Dest' = [n \in Methods |->
                   IF n = From THEN newEntrypoint.body ELSE Dest[n]]
    BY <2>1 DEF Dest
  <2>3. DOMAIN Dest = Methods
    BY DEF Dest
  <2>4. QED
    BY <2>2, <2>3
<1>6. NothingLate' /\ Aimed'
  BY DEF JInv, Sound, NothingLate, Aimed, ShouldVisiblyInit
<1>7. OwnBody'
  <2>1. IsTrampoline(newEntrypoint)
    BY DEF JInv, Sound, Aimed
  <2> SUFFICES ASSUME NEW n \in Methods, ~IsTrampoline(entry'[n])
               PROVE  entry'[n].body = n
    BY DEF OwnBody, IsTrampoline
  <2>2. entry'[n] = entry[n]
    BY <1>3, <2>1
  <2>3. QED
    BY <2>2 DEF JInv, Sound, OwnBody
<1>8. CASE halves = <<"target">>
  <2>1. From = req.target
    BY <1>8 DEF From
  <2>2. newEntrypoint.body = req.hook
    BY <1>8 DEF JInv, Sound, Aimed
  <2>3. req.backup # None /\ ~Broken => Dest[req.backup] = Dest[req.target]
    <3>1. CASE Broken
      BY <3>1
    <3>2. CASE ~Broken
      <4>1. initOk /\ res = 0
        BY <3>2 DEF Broken, JInv, IInv, TypeOK
      <4>2. QED
        BY <4>1, <1>1, <1>8 DEF JInv, Sound, BackedUp, Dest
    <3>3. QED
      BY <3>1, <3>2
  <2>4. Abs!Hook(req)
    BY <1>4, <1>5, <2>1, <2>2, <2>3 DEF Abs!Hook
  <2>5. BackedUp'
    BY <1>8 DEF BackedUp
  <2>6. QED
    BY <1>1, <1>6, <1>7, <2>4, <2>5 DEF Sound, Abs!Next
<1>9. CASE halves = <<"backup", "target">> /\ req.backup # None
  <2>1. From = req.backup
    BY <1>9 DEF From
  <2>2. Broken \/ newEntrypoint.body = Dest[req.target]
    <3>1. CASE ~initOk
      BY <3>1 DEF Broken
    <3>2. CASE initOk
      BY <3>2, <1>1, <1>9 DEF JInv, Sound, Aimed, Dest
    <3>3. QED
      BY <3>1, <3>2
  <2>3. Abs!Backup(req)
    BY <1>2, <1>4, <1>5, <2>1, <2>2 DEF Abs!Backup
  <2>4. BackedUp'
    BY <1>1, <1>3, <1>9, <2>1 DEF JInv, Sound, Aimed, BackedUp
  <2>5. QED
    BY <1>1, <1>6, <1>7, <1>9, <2>3, <2>4 DEF Sound, Abs!Next
<1>10. QED
  BY <1>8, <1>9 DEF JInv, IInv, HalvesLeft

-----------------------------------------------------------------------------
LEMMA SetModeSound ==
  ASSUME JInv, SetMode
  PROVE  Sound' /\ [Abs!Next]_(Abs!vars)
<1> USE DEF SetMode, At
<1>1. CASE halves = <<"target">>
  <2>1. halves' = <<>> /\ pc' = "return"
    BY <1>1 DEF EndHalf
  <2>2. OwnBody' /\ Aimed' /\ BackedUp'
    BY <2>1 DEF JInv, Sound, OwnBody, Aimed, BackedUp, IsTrampoline
  <2>3. NothingLate'
    BY <2>1 DEF JInv, Sound, NothingLate, ShouldVisiblyInit
  <2>4. Unseen
    BY <2>1, SameDest DEF Unseen, Broken
  <2>5. QED
    BY <2>2, <2>3, <2>4, UnseenSteps DEF Sound
<1>2. CASE halves = <<"backup", "target">> /\ req.backup # None
  <2>1. halves' = <<"target">> /\ pc' = "genTrampoline"
    BY <1>2 DEF EndHalf
  <2>2. OwnBody' /\ Aimed'
    BY <2>1 DEF JInv, Sound, OwnBody, Aimed, IsTrampoline
  <2>3. BackedUp'
    BY <1>2, <2>1 DEF JInv, Sound, BackedUp
  <2>4. NothingLate'
    BY <2>1 DEF JInv, Sound, NothingLate, ShouldVisiblyInit
  <2>5. Unseen
    BY <2>1, SameDest DEF Unseen, Broken
  <2>6. QED
    BY <2>2, <2>3, <2>4, <2>5, UnseenSteps DEF Sound
<1>3. QED
  BY <1>1, <1>2 DEF JInv, IInv, HalvesLeft

(***************************************************************************)
(* A call that ends takes a failed Utils.initClass with it; failed halves  *)
(* stay counted until the next call.                                       *)
(***************************************************************************)
LEMMA ReturnSound ==
  ASSUME JInv, Return
  PROVE  Sound' /\ [Abs!Next]_(Abs!vars)
<1> USE DEF Return, At, art
<1>1. Sound'
  BY DEF JInv, Sound, OwnBody, NothingLate, Aimed, BackedUp, IsTrampoline,
         ShouldVisiblyInit
<1>2. UNCHANGED <<Dest, visible>>
  BY SameDest
<1>3. CASE UNCHANGED Broken
  BY <1>1, <1>2, <1>3, UnseenSteps DEF Unseen
<1>4. CASE ~UNCHANGED Broken
  <2>1. ~Broken'
    BY <1>4 DEF Broken
  <2>2. Abs!Renew
    BY <1>2, <2>1 DEF Abs!Renew
  <2>3. QED
    BY <1>1, <2>2 DEF Abs!Next
<1>5. QED
  BY <1>3, <1>4

-----------------------------------------------------------------------------
LEMMA StepSound ==
  ASSUME JInv, [Next]_vars
  PROVE  Sound' /\ [Abs!Next]_(Abs!vars)
<1>1. ASSUME NEW m \in Methods, JitCompile(m) \/ MakeVisible(m)
      PROVE  Sound' /\ [Abs!Next]_(Abs!vars)
  BY <1>1, JitCompileSound, MakeVisibleSound
<1>2. ASSUME NEW r \in Requests, backupAndHook(r)
      PROVE  Sound' /\ [Abs!Next]_(Abs!vars)
  BY <1>2, CallSound
<1>3. CASE InitClass \/ SetNonCompilable \/ WriteEntry \/ SetMode \/ Return
  BY <1>3, InitClassSound, SetNonCompilableSound, WriteEntrySound,
     SetModeSound, ReturnSound
<1>4. CASE GenTrampoline \/ GenTrampolineFails \/ GenTrampolineFaults
  BY <1>4, GenTrampolineSound, GenTrampolineFailsSound,
     GenTrampolineFaultsSound
<1>5. CASE UNCHANGED vars
  <2>1. Unseen
    BY <1>5, SameDest DEF vars, Unseen, Broken
  <2>2. Sound'
    BY <1>5 DEF vars, JInv, Sound, OwnBody, NothingLate, Aimed, BackedUp,
               IsTrampoline, ShouldVisiblyInit
  <2>3. QED
    BY <2>1, <2>2, UnseenSteps
<1>6. QED
  BY <1>1, <1>2, <1>3, <1>4, <1>5 DEF Next, Hooking, Runtime

(***************************************************************************)
(* Whatever the runtime does in between, doBackupAndHook redirects the     *)
(* target in one step, after the backup leads to where the target led      *)
(* (hook_main.c:215-223), and nothing but class initialization undoes it.  *)
(***************************************************************************)
THEOREM HookImplemented == Spec => ImplementsHook
<1>1. Init => JInv /\ Abs!Init
  BY InitInv, InitSound DEF JInv
<1>2. JInv /\ [Next]_vars => JInv' /\ [Abs!Next]_(Abs!vars)
  BY StepInv, StepSound DEF JInv
<1>3. QED
  BY <1>1, <1>2, PTL DEF Spec, ImplementsHook, Abs!Spec
=============================================================================
