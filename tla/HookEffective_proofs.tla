------------------------- MODULE HookEffective_proofs -------------------------
(***************************************************************************)
(* Proof that a hook that was reported as successful stays effective, and  *)
(* that a hook can call its backup as soon as it can run, against the JIT  *)
(* compiler, the class linker and the interpreter, on the API levels and   *)
(* in the builds where hooking is said to work; and that hooks which call  *)
(* their backups never come back to the same method, on all of them: for   *)
(* any requests and any failure in other calls.                            *)
(***************************************************************************)
EXTENDS MethodHook_proofs, WellFoundedInduction

-----------------------------------------------------------------------------
\* Supported, but for callers that have the method inlined.
Works == sdk >= 24 /\ ~(sdk >= 30 /\ build.debuggable)

\* No trampoline leads to a placeholder, nor does one about to be stored.
NotPlaceholder ==
  /\ \A m \in Methods : IsTrampoline(entry[m]) => entry[m].body \notin Backups
  /\ pc = "writeEntry" => newEntrypoint.body \notin Backups

\* The interpreter goes through a trampoline, but between the two stores of
\* replaceMethod.
NoBypass ==
  Works => \A m \in Methods :
    IsTrampoline(entry[m]) => ~MayBypass(m) \/ (pc = "setMode" /\ m = From)

\* The target half of the call under way has been done.
TargetDone ==
  /\ \/ pc = "setMode" /\ halves = <<"target">>
     \/ pc = "return" /\ res = 0
  /\ initOk
  => IsTrampoline(entry[req.target]) /\ entry[req.target].body = req.hook

\* So has the backup half.
BackupDone ==
  /\ \/ pc = "setMode" \/ pc = "return"
     \/ pc \in {"genTrampoline", "writeEntry"} /\ halves = <<"target">>
  /\ req.backup # None /\ initOk /\ res = 0
  => IsTrampoline(entry[req.backup])

\* The class linker has nothing left to do once Utils.initClass succeeded.
Initialized == \A i \in DOMAIN log : log[i].init => visible = Methods

InPlace(r) ==
  /\ IsTrampoline(entry[r.target]) /\ entry[r.target].body = r.hook
  /\ r.backup # None => IsTrampoline(entry[r.backup])

LatestInPlace == \A r \in Requests : Latest(r) => InPlace(r)

\* Before the first call gets anywhere there are no trampolines.
Fresh ==
  log = <<>> /\ pc \in {"idle", "initClass"} =>
    \A m \in Methods : ~IsTrampoline(entry[m])

\* Between two calls a failed half is recorded.
Recorded ==
  pc = "idle" => /\ req = None
                 /\ res # 0 => \E i \in DOMAIN log : ~log[i].ok

\* What HookHasBackup says of a target that leads to the hook.
Usable(m) == IsTrampoline(entry[m]) /\ (Works => ~MayBypass(m))

BackupUsable ==
  \A r \in Requests :
    AllWell /\ r.backup # None /\ entry[r.target].body = r.hook
      => Usable(r.backup)

EInv ==
  /\ JInv
  /\ NotPlaceholder /\ NoBypass /\ TargetDone /\ BackupDone
  /\ Initialized /\ LatestInPlace /\ Fresh /\ Recorded /\ BackupUsable

-----------------------------------------------------------------------------
(***************************************************************************)
(* The roles of requests are apart.                                        *)
(***************************************************************************)
LEMMA Apart ==
  ASSUME NEW r \in Requests, NEW s \in Requests
  PROVE  /\ r.target # s.hook
         /\ r.backup # None => /\ r.backup \in Backups
                               /\ r.backup # s.target /\ r.backup # s.hook
         /\ r.target \notin Backups /\ r.hook \notin Backups
         /\ r.hook = s.hook => r = s
         /\ r.backup # None /\ r.backup = s.backup => r = s
BY MethodHookAssumption DEF Targets, Hooks, Backups

(***************************************************************************)
(* Which method is being rewritten.                                        *)
(***************************************************************************)
LEMMA FromFacts ==
  ASSUME JInv, pc \in {"writeEntry", "setMode"}
  PROVE  /\ req \in Requests /\ From \in Methods
         /\ \/ halves = <<"target">> /\ From = req.target
            \/ /\ halves = <<"backup", "target">> /\ From = req.backup
               /\ req.backup # None
<1>1. req \in Requests /\ From \in Methods
  BY FromIsPrepared DEF JInv, IInv, Busy
<1>2. QED
  BY <1>1 DEF JInv, IInv, HalvesLeft, From

(***************************************************************************)
(* What a step can do to an entry point.                                   *)
(***************************************************************************)
LEMMA Stores ==
  ASSUME JInv, [Next]_vars, NEW m \in Methods
  PROVE  \/ entry'[m] = entry[m]
         \/ ~IsTrampoline(entry[m]) /\ entry'[m] = Jitted(m)
         \/ m \notin visible /\ entry'[m] = Own(m)
         \/ WriteEntry /\ m = From /\ entry'[m] = newEntrypoint
<1>1. ASSUME NEW n \in Methods, JitCompile(n)
      PROVE  entry'[m] = entry[m]
             \/ (~IsTrampoline(entry[m]) /\ entry'[m] = Jitted(m))
  BY <1>1 DEF JitCompile, JInv, IInv, TypeOK, TrampolineNotCompiled
<1>2. ASSUME NEW n \in Methods, MakeVisible(n)
      PROVE  entry'[m] = entry[m] \/ (m \notin visible /\ entry'[m] = Own(m))
  BY <1>2 DEF MakeVisible, Fixup
<1>3. CASE InitClass
  BY <1>3 DEF InitClass, Fixup
<1>4. CASE WriteEntry
  BY <1>4 DEF WriteEntry, JInv, IInv, TypeOK
<1>5. CASE UNCHANGED entry
  BY <1>5
<1>6. QED
  BY <1>1, <1>2, <1>3, <1>4, <1>5
     DEF Next, Hooking, Runtime, backupAndHook, SetNonCompilable, GenTrampoline,
         GenTrampolineFails, GenTrampolineFaults, SetMode, Return, art, vars

(***************************************************************************)
(* A trampoline comes from a store; once classes are visibly initialized   *)
(* only the next store takes it away, for another one.                     *)
(***************************************************************************)
LEMMA TrampolineFromStore ==
  ASSUME JInv, [Next]_vars, NEW m \in Methods, IsTrampoline(entry'[m])
  PROVE  \/ entry'[m] = entry[m]
         \/ WriteEntry /\ m = From /\ entry'[m] = newEntrypoint
<1>1. ~IsTrampoline(Own(m)) /\ ~IsTrampoline(Jitted(m))
  BY DEF Own, Jitted, IsTrampoline
<1>2. entry'[m] # Own(m) /\ entry'[m] # Jitted(m)
  BY <1>1
<1>3. QED
  BY <1>2, Stores

LEMMA TrampolineStays ==
  ASSUME JInv, [Next]_vars, NEW m \in Methods, IsTrampoline(entry[m]),
         visible = Methods
  PROVE  /\ IsTrampoline(entry'[m])
         /\ \/ entry'[m] = entry[m]
            \/ WriteEntry /\ m = From /\ entry'[m] = newEntrypoint
<1>1. WriteEntry => IsTrampoline(newEntrypoint)
  BY DEF WriteEntry, At, JInv, Sound, Aimed
<1>2. QED
  BY <1>1, Stores

-----------------------------------------------------------------------------
(***************************************************************************)
(* replaceMethod leaves a method that the interpreter does not bypass, and *)
(* nothing else makes one that it does.                                    *)
(***************************************************************************)
LEMMA SetModeWorks ==
  ASSUME EInv, Works, SetMode, NEW m \in Methods, m = From
  PROVE  ~MayBypass(m)'
<1>1. UNCHANGED <<sdk, build>>
  BY DEF SetMode
<1>2. sdk \in 24 .. 33
  <2>1. sdk \in Sdks
    BY DEF EInv, JInv, IInv, TypeOK
  <2>2. sdk \in 21 .. 33 /\ sdk >= 24
    BY <2>1, MethodHookAssumption DEF Works
  <2>3. QED
    BY <2>2
<1>3. flags'[m] = Mode(flags[m])
  <2>1. m \in DOMAIN flags
    BY DEF EInv, JInv, IInv, TypeOK
  <2>2. flags' = [flags EXCEPT ![m] = Mode(flags[m])]
    BY DEF SetMode
  <2>3. QED
    BY <2>1, <2>2
<1>4. QED
  BY <1>1, <1>2, <1>3 DEF MayBypass, Mode, Works

(***************************************************************************)
(* The API level and the build are the same for ever.                      *)
(***************************************************************************)
LEMMA SameBuild ==
  ASSUME [Next]_vars
  PROVE  UNCHANGED <<sdk, build>> /\ (Works' <=> Works)
<1>1. UNCHANGED <<sdk, build>>
  BY DEF Next, Hooking, Runtime, JitCompile, MakeVisible, backupAndHook,
         InitClass, SetNonCompilable, GenTrampoline, GenTrampolineFails,
         GenTrampolineFaults, WriteEntry, SetMode, Return, vars
<1>2. QED
  BY <1>1 DEF Works

LEMMA NoBypassStays ==
  ASSUME EInv, Works, [Next]_vars, NEW m \in Methods, ~MayBypass(m)
  PROVE  ~MayBypass(m)'
<1>1. CASE UNCHANGED <<interp, flags>>
  BY <1>1, SameBuild DEF MayBypass
<1>2. CASE SetNonCompilable
  <2>1. /\ UNCHANGED <<sdk, build, interp>>
        /\ flags'[m] \in {flags[m], NonCompilable(flags[m])}
    BY <1>2 DEF SetNonCompilable
  <2>2. QED
    BY <2>1 DEF NonCompilable, MayBypass
<1>3. CASE SetMode
  <2>1. CASE m = From
    BY <1>3, <2>1, SetModeWorks
  <2>2. CASE m # From
    BY <1>3, <2>2 DEF SetMode, MayBypass, EInv, JInv, IInv, TypeOK
  <2>3. QED
    BY <2>1, <2>2
<1>4. QED
  BY <1>1, <1>2, <1>3
     DEF Next, Hooking, Runtime, JitCompile, MakeVisible, backupAndHook,
         InitClass, GenTrampoline, GenTrampolineFails, GenTrampolineFaults,
         WriteEntry, Return, art, vars

(***************************************************************************)
(* No trampoline ever leads to a placeholder.                              *)
(***************************************************************************)
LEMMA NotPlaceholderStays ==
  ASSUME EInv, [Next]_vars
  PROVE  NotPlaceholder'
<1>1. ASSUME NEW m \in Methods, IsTrampoline(entry'[m])
      PROVE  entry'[m].body \notin Backups
  BY <1>1, TrampolineFromStore DEF EInv, NotPlaceholder, WriteEntry, At
<1>2. CASE GenTrampoline
  <2>1. req \in Requests /\ req.target \in Methods
        /\ req.target \notin Backups /\ req.hook \notin Backups
    BY <1>2, Roles, Apart DEF GenTrampoline, At, EInv, JInv, IInv, Busy
  <2>2. entry[req.target].body \notin Backups
    BY <2>1 DEF EInv, NotPlaceholder, JInv, Sound, OwnBody
  <2>3. newEntrypoint'.body \in {entry[req.target].body, req.hook}
    BY <1>2, EntryFacts DEF GenTrampoline
  <2>4. QED
    BY <1>1, <2>1, <2>2, <2>3 DEF NotPlaceholder
<1>3. CASE ~GenTrampoline
  <2>1. pc' = "writeEntry" => pc = "writeEntry" /\ UNCHANGED newEntrypoint
    BY <1>3, EndHalfFacts
       DEF EInv, JInv, Next, Hooking, Runtime, JitCompile, MakeVisible,
           backupAndHook, InitClass, SetNonCompilable, GenTrampolineFails,
           GenTrampolineFaults, WriteEntry, SetMode, Return, At, vars
  <2>2. QED
    BY <1>1, <2>1 DEF EInv, NotPlaceholder
<1>4. QED
  BY <1>2, <1>3

-----------------------------------------------------------------------------
(***************************************************************************)
(* The interpreter never gets around a trampoline.                         *)
(***************************************************************************)
LEMMA NoBypassInv ==
  ASSUME EInv, [Next]_vars
  PROVE  NoBypass'
<1> SUFFICES ASSUME Works, NEW m \in Methods, IsTrampoline(entry'[m]),
                    MayBypass(m)'
             PROVE  pc' = "setMode" /\ m = From'
  BY SameBuild DEF NoBypass, IsTrampoline
<1>1. CASE WriteEntry /\ m = From
  BY <1>1 DEF WriteEntry, From
<1>2. CASE entry'[m] = entry[m]
  <2>1. MayBypass(m)
    BY NoBypassStays
  <2>2. pc = "setMode" /\ m = From
    BY <1>2, <2>1 DEF EInv, NoBypass
  <2>3. ~SetMode
    BY <2>2, SetModeWorks
  <2>4. pc' = pc /\ UNCHANGED <<req, halves>>
    BY <2>2, <2>3
       DEF Next, Hooking, Runtime, JitCompile, MakeVisible, backupAndHook,
           InitClass, SetNonCompilable, GenTrampoline, GenTrampolineFails,
           GenTrampolineFaults, WriteEntry, Return, At, vars
  <2>5. QED
    BY <2>2, <2>4 DEF From
<1>3. QED
  BY <1>1, <1>2, TrampolineFromStore DEF EInv

(***************************************************************************)
(* Calls only begin to matter when they have returned.                     *)
(***************************************************************************)
LEMMA LatestBefore ==
  ASSUME EInv, [Next]_vars, ~Return, NEW r \in Requests, Latest(r)'
  PROVE  Latest(r)
<1>1. log' = log
  BY DEF Next, Hooking, Runtime, JitCompile, MakeVisible, backupAndHook,
         InitClass, SetNonCompilable, GenTrampoline, GenTrampolineFails,
         GenTrampolineFaults, WriteEntry, SetMode, At, vars
<1>2. pc = "idle" \/ (pc' # "idle" /\ req' = req)
  BY EndHalfFacts
     DEF Next, Hooking, Runtime, JitCompile, MakeVisible, backupAndHook,
         InitClass, SetNonCompilable, GenTrampoline, GenTrampolineFails,
         GenTrampolineFaults, WriteEntry, SetMode, EndHalf, At, vars
<1>3. QED
  BY <1>1, <1>2 DEF Latest

LEMMA AllWellBefore ==
  ASSUME EInv, [Next]_vars, AllWell'
  PROVE  AllWell
<1>1. \A i \in DOMAIN log : i \in DOMAIN log' /\ log'[i] = log[i]
  <2>1. CASE Return
    BY <2>1 DEF Return, EInv, JInv, IInv, TypeOK
  <2>2. CASE log' = log
    BY <2>2
  <2>3. QED
    BY <2>1, <2>2
       DEF Next, Hooking, Runtime, JitCompile, MakeVisible, backupAndHook,
           InitClass, SetNonCompilable, GenTrampoline, GenTrampolineFails,
           GenTrampolineFaults, WriteEntry, SetMode, At, vars
<1>2. \A i \in DOMAIN log : log[i].ok /\ log[i].init
  BY <1>1 DEF AllWell
<1>3. ~crashed /\ (req = None \/ pc = "initClass" \/ initOk)
  <2>1. CASE Return
    <3>1. log'[Len(log) + 1].init = initOk /\ Len(log) + 1 \in DOMAIN log'
      BY <2>1 DEF Return, EInv, JInv, IInv, TypeOK
    <3>2. QED
      BY <2>1, <3>1 DEF Return, AllWell, At
  <2>2. CASE pc = "idle"
    <3>1. ~crashed' => ~crashed
      BY DEF Next, Hooking, Runtime, JitCompile, MakeVisible, backupAndHook,
             InitClass, SetNonCompilable, GenTrampoline, GenTrampolineFails,
             GenTrampolineFaults, WriteEntry, SetMode, Return, At, vars
    <3>2. QED
      BY <2>2, <3>1 DEF AllWell, EInv, Recorded
  <2>3. CASE pc # "idle" /\ ~Return
    <3>1. pc' = "initClass" => pc = "initClass"
      BY <2>3, EndHalfFacts
         DEF EInv, JInv, Next, Hooking, Runtime, JitCompile, MakeVisible,
             backupAndHook, InitClass, SetNonCompilable, GenTrampoline,
             GenTrampolineFails, GenTrampolineFaults, WriteEntry, SetMode, At,
             vars
    <3>2. req' = req
      BY <2>3
         DEF Next, Hooking, Runtime, JitCompile, MakeVisible, backupAndHook,
             InitClass, SetNonCompilable, GenTrampoline, GenTrampolineFails,
             GenTrampolineFaults, WriteEntry, SetMode, At, art, vars
    <3>3. initOk' = initOk \/ pc = "initClass"
      BY <2>3
         DEF Next, Hooking, Runtime, JitCompile, MakeVisible, backupAndHook,
             InitClass, SetNonCompilable, GenTrampoline, GenTrampolineFails,
             GenTrampolineFaults, WriteEntry, SetMode, At, art, vars
    <3>4. ~crashed
      BY <2>3
         DEF AllWell, Next, Hooking, Runtime, JitCompile, MakeVisible, backupAndHook,
             InitClass, SetNonCompilable, GenTrampoline, GenTrampolineFails,
             GenTrampolineFaults, WriteEntry, SetMode, At, art, vars
    <3>5. QED
      BY <3>1, <3>2, <3>3, <3>4 DEF AllWell
  <2>4. QED
    BY <2>1, <2>2, <2>3
<1>4. res = 0
  <2>1. CASE pc = "idle"
    BY <2>1, <1>2 DEF EInv, Recorded
  <2>2. CASE GenTrampolineFails
    BY <2>2 DEF GenTrampolineFails, AllWell, EInv, JInv, IInv, TypeOK
  <2>3. CASE pc # "idle" /\ ~GenTrampolineFails
    BY <2>3
       DEF AllWell, Next, Hooking, Runtime, JitCompile,
           MakeVisible, backupAndHook, InitClass, SetNonCompilable,
           GenTrampoline, GenTrampolineFaults, WriteEntry,
           SetMode, Return, At, vars
  <2>4. QED
    BY <2>1, <2>2, <2>3
<1>5. QED
  BY <1>2, <1>3, <1>4 DEF AllWell

-----------------------------------------------------------------------------
(***************************************************************************)
(* What Return records.                                                    *)
(***************************************************************************)
LEMMA AppendFacts ==
  ASSUME NEW S, NEW s \in Seq(S), NEW e \in S
  PROVE  /\ DOMAIN Append(s, e) = DOMAIN s \cup {Len(s) + 1}
         /\ Append(s, e)[Len(s) + 1] = e
         /\ \A i \in DOMAIN s : Append(s, e)[i] = s[i] /\ i < Len(s) + 1
         /\ Append(s, e) # <<>>
OBVIOUS

LEMMA ReturnLog ==
  ASSUME JInv, Return
  PROVE  /\ DOMAIN log' = DOMAIN log \cup {Len(log) + 1}
         /\ log'[Len(log) + 1].req = req
         /\ log'[Len(log) + 1].ok = (res = 0)
         /\ log'[Len(log) + 1].init = initOk
         /\ \A i \in DOMAIN log : log'[i] = log[i] /\ i < Len(log) + 1
         /\ log' # <<>>
<1>1. [req |-> req, ok |-> res = 0, init |-> initOk]
        \in [req : Requests, ok : BOOLEAN, init : BOOLEAN]
  BY DEF Return, At, JInv, IInv, TypeOK, Busy
<1>2. log \in Seq([req : Requests, ok : BOOLEAN, init : BOOLEAN])
  BY DEF JInv, IInv, TypeOK
<1>3. QED
  BY <1>1, <1>2, AppendFacts DEF Return

-----------------------------------------------------------------------------
(***************************************************************************)
(* Once a call has initialized classes they stay so.                       *)
(***************************************************************************)
LEMMA VisibleStays ==
  ASSUME EInv, [Next]_vars, visible = Methods
  PROVE  visible' = Methods
BY DEF Next, Hooking, Runtime, JitCompile, MakeVisible, backupAndHook,
       InitClass, SetNonCompilable, GenTrampoline, GenTrampolineFails,
       GenTrampolineFaults, WriteEntry, SetMode, Return, art, vars

LEMMA InitializedStays ==
  ASSUME EInv, [Next]_vars
  PROVE  Initialized'
<1>1. CASE log' = log
  BY <1>1, VisibleStays DEF EInv, Initialized
<1>2. CASE Return
  <2> SUFFICES ASSUME NEW i \in DOMAIN log', log'[i].init
               PROVE  visible' = Methods
    BY DEF Initialized
  <2>1. (i \in DOMAIN log /\ log'[i] = log[i]) \/ log'[i].init = initOk
    <3>1. i \in DOMAIN log \/ i = Len(log) + 1
      BY <1>2, ReturnLog DEF EInv
    <3>2. QED
      BY <1>2, <3>1, ReturnLog DEF EInv
  <2>2. CASE i \in DOMAIN log /\ log'[i] = log[i]
    BY <2>2, VisibleStays DEF EInv, Initialized
  <2>3. CASE log'[i].init = initOk
    <3>1. visible = Methods
      BY <1>2, <2>3 DEF Return, At, EInv, JInv, Sound, NothingLate
    <3>2. QED
      BY <3>1, VisibleStays
  <2>4. QED
    BY <2>1, <2>2, <2>3
<1>3. QED
  BY <1>1, <1>2
     DEF Next, Hooking, Runtime, JitCompile, MakeVisible, backupAndHook,
         InitClass, SetNonCompilable, GenTrampoline, GenTrampolineFails,
         GenTrampolineFaults, WriteEntry, SetMode, At, vars

LEMMA FreshStays ==
  ASSUME EInv, [Next]_vars
  PROVE  Fresh'
<1> SUFFICES ASSUME log' = <<>>, pc' \in {"idle", "initClass"},
                    NEW m \in Methods, IsTrampoline(entry'[m])
             PROVE  FALSE
  BY DEF Fresh, IsTrampoline
<1>1. ~Return
  BY ReturnLog DEF EInv
<1>2. log = <<>> /\ pc \in {"idle", "initClass"}
  BY <1>1, EndHalfFacts
     DEF EInv, JInv, Next, Hooking, Runtime, JitCompile, MakeVisible,
         backupAndHook, InitClass, SetNonCompilable, GenTrampoline,
         GenTrampolineFails, GenTrampolineFaults, WriteEntry, SetMode, At, vars
<1>3. entry'[m] = entry[m]
  BY <1>2, TrampolineFromStore DEF EInv, WriteEntry, At
<1>4. QED
  BY <1>2, <1>3 DEF EInv, Fresh

LEMMA RecordedStays ==
  ASSUME EInv, [Next]_vars
  PROVE  Recorded'
<1>1. CASE Return
  <2>1. Len(log) + 1 \in DOMAIN log' /\ log'[Len(log) + 1].ok = (res = 0)
    BY <1>1, ReturnLog DEF EInv
  <2>2. QED
    BY <1>1, <2>1 DEF Return, Recorded
<1>2. CASE ~Return /\ pc' = "idle"
  <2>1. pc = "idle" /\ UNCHANGED <<req, res, log>>
    BY <1>2, EndHalfFacts
       DEF EInv, JInv, Next, Hooking, Runtime, JitCompile, MakeVisible,
           backupAndHook, InitClass, SetNonCompilable, GenTrampoline,
           GenTrampolineFails, GenTrampolineFaults, WriteEntry, SetMode, At,
           vars
  <2>2. QED
    BY <2>1 DEF EInv, Recorded
<1>3. QED
  BY <1>1, <1>2 DEF Recorded

(***************************************************************************)
(* The two halves.                                                         *)
(***************************************************************************)
LEMMA TargetDoneStays ==
  ASSUME EInv, [Next]_vars
  PROVE  TargetDone'
<1> SUFFICES ASSUME \/ pc' = "setMode" /\ halves' = <<"target">>
                    \/ pc' = "return" /\ res' = 0,
                    initOk'
             PROVE  /\ IsTrampoline(entry'[req'.target])
                    /\ entry'[req'.target].body = req'.hook
  BY DEF TargetDone, IsTrampoline
<1>1. CASE WriteEntry
  <2>1. From = req.target /\ From \in Methods /\ UNCHANGED <<req, halves>>
    BY <1>1, FromFacts DEF EInv, WriteEntry, At
  <2>2. IsTrampoline(newEntrypoint) /\ newEntrypoint.body = req.hook
    BY <1>1 DEF WriteEntry, At, EInv, JInv, Sound, Aimed
  <2>3. entry'[req.target] = newEntrypoint
    BY <1>1, <2>1 DEF WriteEntry, EInv, JInv, IInv, TypeOK
  <2>4. QED
    BY <2>1, <2>2, <2>3
<1>2. CASE ~WriteEntry
  <2>1. /\ UNCHANGED <<req, initOk>>
        /\ \/ pc = "setMode" /\ halves = <<"target">>
           \/ pc = "return" /\ res = 0
    <3>1. CASE SetMode
      <4>1. halves = <<"backup", "target">> => pc' = "genTrampoline"
        BY <3>1 DEF SetMode, EndHalf
      <4>2. QED
        BY <3>1, <4>1, FromFacts DEF EInv, SetMode, At
    <3>2. CASE GenTrampolineFails
      BY <3>2, EndHalfFacts DEF GenTrampolineFails, At, EInv, JInv, IInv, TypeOK
    <3>3. CASE ~SetMode /\ ~GenTrampolineFails
      BY <1>2, <3>3
         DEF Next, Hooking, Runtime, JitCompile, MakeVisible, backupAndHook,
             InitClass, SetNonCompilable, GenTrampoline, GenTrampolineFaults,
             Return, At, vars
    <3>4. QED
      BY <3>1, <3>2, <3>3
  <2>2. visible = Methods /\ req.target \in Methods
    BY <2>1, Roles DEF EInv, JInv, Sound, NothingLate, IInv, Busy
  <2>3. IsTrampoline(entry[req.target]) /\ entry[req.target].body = req.hook
    BY <2>1 DEF EInv, TargetDone
  <2>4. entry'[req.target] = entry[req.target]
    BY <1>2, <2>2, <2>3, TrampolineStays DEF EInv
  <2>5. QED
    BY <2>1, <2>3, <2>4
<1>3. QED
  BY <1>1, <1>2

LEMMA BackupDoneStays ==
  ASSUME EInv, [Next]_vars
  PROVE  BackupDone'
<1> SUFFICES ASSUME \/ pc' \in {"setMode", "return"}
                    \/ pc' \in {"genTrampoline", "writeEntry"}
                       /\ halves' = <<"target">>,
                    req'.backup # None, initOk', res' = 0
             PROVE  IsTrampoline(entry'[req'.backup])
  BY DEF BackupDone, IsTrampoline
<1>1. CASE WriteEntry /\ halves = <<"backup", "target">>
  <2>1. From = req.backup /\ From \in Methods /\ UNCHANGED req
    BY <1>1, FromFacts DEF EInv, WriteEntry, At
  <2>2. IsTrampoline(newEntrypoint)
    BY <1>1 DEF WriteEntry, At, EInv, JInv, Sound, Aimed
  <2>3. entry'[req.backup] = newEntrypoint
    BY <1>1, <2>1 DEF WriteEntry, EInv, JInv, IInv, TypeOK
  <2>4. QED
    BY <2>1, <2>2, <2>3
<1>2. CASE ~(WriteEntry /\ halves = <<"backup", "target">>)
  <2>1. /\ UNCHANGED <<req, initOk, res>>
        /\ \/ pc \in {"setMode", "return"}
           \/ pc \in {"genTrampoline", "writeEntry"} /\ halves = <<"target">>
    <3>1. CASE SetMode
      BY <3>1 DEF SetMode, At
    <3>2. CASE GenTrampolineFails
      BY <3>2 DEF GenTrampolineFails, At, EInv, JInv, IInv, TypeOK
    <3>3. CASE SetNonCompilable
      BY <3>3 DEF SetNonCompilable, Halves
    <3>4. CASE WriteEntry
      BY <1>2, <3>4, FromFacts DEF EInv, WriteEntry, At
    <3>5. CASE ~SetMode /\ ~GenTrampolineFails /\ ~SetNonCompilable /\ ~WriteEntry
      BY <3>5
         DEF Next, Hooking, Runtime, JitCompile, MakeVisible, backupAndHook,
             InitClass, GenTrampoline, GenTrampolineFaults, Return, At, vars
    <3>6. QED
      BY <3>1, <3>2, <3>3, <3>4, <3>5
  <2>2. visible = Methods /\ req.backup \in Methods
    BY <2>1, Roles DEF EInv, JInv, Sound, NothingLate, IInv, Busy
  <2>3. IsTrampoline(entry[req.backup])
    BY <2>1 DEF EInv, BackupDone
  <2>4. QED
    BY <2>1, <2>2, <2>3, TrampolineStays DEF EInv
<1>3. QED
  BY <1>1, <1>2

-----------------------------------------------------------------------------
(***************************************************************************)
(* A hook that succeeded stays in place until its target is hooked again:  *)
(* other calls store trampolines in other targets and, at most, another    *)
(* trampoline in its backup.                                               *)
(***************************************************************************)
LEMMA LatestInPlaceStays ==
  ASSUME EInv, [Next]_vars
  PROVE  LatestInPlace'
<1> SUFFICES ASSUME NEW r \in Requests, Latest(r)'
             PROVE  InPlace(r)'
  BY DEF LatestInPlace
<1>0. r.target \in Methods /\ (r.backup # None => r.backup \in Methods)
  BY Roles
<1>1. CASE Return
  <2>1. UNCHANGED entry
    BY <1>1 DEF Return, art
  <2>2. PICK i \in DOMAIN log' :
          /\ log'[i] = [req |-> r, ok |-> TRUE, init |-> TRUE]
          /\ \A j \in DOMAIN log' : j > i => log'[j].req.target # r.target
    BY DEF Latest
  <2>3. log'[i].req = r /\ log'[i].ok /\ log'[i].init
    BY <2>2
  <2>4. CASE i = Len(log) + 1
    <3>1. req = r /\ res = 0 /\ initOk
      BY <1>1, <2>3, <2>4, ReturnLog DEF EInv
    <3>2. InPlace(r)
      BY <1>1, <3>1 DEF Return, At, EInv, TargetDone, BackupDone, InPlace
    <3>3. QED
      BY <2>1, <3>2 DEF InPlace, IsTrampoline
  <2>5. CASE i # Len(log) + 1
    <3>1. i \in DOMAIN log
      BY <1>1, <2>5, ReturnLog DEF EInv
    <3>2. log[i] = [req |-> r, ok |-> TRUE, init |-> TRUE]
      BY <1>1, <2>2, <3>1, ReturnLog DEF EInv
    <3>3. \A j \in DOMAIN log : j > i => log[j].req.target # r.target
      BY <1>1, <2>2, ReturnLog DEF EInv
    <3>4. req.target # r.target
      <4>1. Len(log) + 1 > i /\ Len(log) + 1 \in DOMAIN log'
        BY <1>1, <3>1, ReturnLog DEF EInv
      <4>2. QED
        BY <1>1, <2>2, <4>1, ReturnLog DEF EInv
    <3>5. Latest(r)
      BY <3>1, <3>2, <3>3, <3>4 DEF Latest
    <3>6. QED
      BY <2>1, <3>5 DEF EInv, LatestInPlace, InPlace, IsTrampoline
  <2>6. QED
    BY <2>4, <2>5
<1>2. CASE ~Return
  <2>1. Latest(r)
    BY <1>2, LatestBefore
  <2>2. InPlace(r) /\ visible = Methods
    BY <2>1 DEF EInv, LatestInPlace, Latest, Initialized
  <2>3. ~(WriteEntry /\ r.target = From)
    <3> SUFFICES ASSUME WriteEntry, r.target = From PROVE FALSE
      OBVIOUS
    <3>1. req \in Requests /\ req.target # r.target
      BY <2>1, FromFacts DEF EInv, WriteEntry, At, Latest
    <3>2. QED
      BY <3>1, FromFacts, Apart DEF EInv, WriteEntry, At
  <2>4. entry'[r.target] = entry[r.target]
    BY <1>0, <2>2, <2>3, TrampolineStays DEF EInv, InPlace
  <2>5. r.backup # None => IsTrampoline(entry'[r.backup])
    BY <1>0, <2>2, TrampolineStays DEF EInv, InPlace
  <2>6. QED
    BY <2>2, <2>4, <2>5 DEF InPlace, IsTrampoline
<1>3. QED
  BY <1>1, <1>2

(***************************************************************************)
(* Whenever a target leads to a hook, the hook's backup is ready.          *)
(***************************************************************************)
LEMMA BackupUsableStays ==
  ASSUME EInv, [Next]_vars
  PROVE  BackupUsable'
<1> SUFFICES ASSUME NEW r \in Requests, AllWell', r.backup # None,
                    entry'[r.target].body = r.hook
             PROVE  Usable(r.backup)'
  BY DEF BackupUsable
<1>1. AllWell /\ r.target \in Methods /\ r.backup \in Methods
  BY AllWellBefore, Roles
<1>2. \/ entry'[r.target] = entry[r.target]
      \/ WriteEntry /\ r.target = From /\ entry'[r.target] = newEntrypoint
  <2>1. Own(r.target).body # r.hook /\ Jitted(r.target).body # r.hook
    BY Apart DEF Own, Jitted
  <2>2. entry'[r.target] # Own(r.target) /\ entry'[r.target] # Jitted(r.target)
    BY <2>1
  <2>3. QED
    BY <1>1, <2>2, Stores DEF EInv
<1>3. CASE entry'[r.target] = entry[r.target]
  <2>1. Usable(r.backup)
    BY <1>1, <1>3 DEF EInv, BackupUsable
  <2>2. visible = Methods
    <3>1. CASE log # <<>>
      <4>1. 1 \in DOMAIN log
        BY <3>1 DEF EInv, JInv, IInv, TypeOK
      <4>2. QED
        BY <1>1, <4>1 DEF AllWell, EInv, Initialized
    <3>2. CASE log = <<>>
      <4>1. pc \notin {"idle", "initClass"}
        BY <1>1, <2>1, <3>2 DEF EInv, Fresh, Usable
      <4>2. initOk
        BY <1>1, <4>1, MethodHookAssumption DEF AllWell, EInv, JInv, IInv, Busy
      <4>3. QED
        BY <4>1, <4>2 DEF EInv, JInv, Sound, NothingLate
    <3>3. QED
      BY <3>1, <3>2
  <2>3. IsTrampoline(entry'[r.backup])
    BY <1>1, <2>1, <2>2, TrampolineStays DEF EInv, Usable
  <2>4. Works => ~MayBypass(r.backup)'
    BY <1>1, <2>1, NoBypassStays DEF Usable
  <2>5. QED
    BY <2>3, <2>4, SameBuild DEF Usable, IsTrampoline
<1>4. CASE WriteEntry /\ r.target = From /\ entry'[r.target] = newEntrypoint
  <2>1. req \in Requests /\ halves = <<"target">> /\ req.target = r.target
    BY <1>4, FromFacts, Apart DEF EInv, WriteEntry, At
  <2>2. newEntrypoint.body = req.hook
    BY <1>4, <2>1 DEF WriteEntry, At, EInv, JInv, Sound, Aimed
  <2>3. req = r
    BY <1>4, <2>1, <2>2, Apart
  <2>4. initOk /\ res = 0 /\ pc = "writeEntry"
    BY <1>1, <1>4, <2>1, MethodHookAssumption DEF AllWell, WriteEntry, At
  <2>5. IsTrampoline(entry[r.backup])
    BY <2>1, <2>3, <2>4 DEF EInv, BackupDone
  <2>6. Works => ~MayBypass(r.backup)
    BY <1>1, <2>4, <2>5 DEF EInv, NoBypass
  <2>7. visible = Methods
    BY <2>4 DEF EInv, JInv, Sound, NothingLate
  <2>8. IsTrampoline(entry'[r.backup])
    BY <1>1, <2>5, <2>7, TrampolineStays DEF EInv
  <2>9. Works => ~MayBypass(r.backup)'
    BY <1>1, <2>6, NoBypassStays
  <2>10. QED
    BY <2>8, <2>9, SameBuild DEF Usable, IsTrampoline
<1>5. QED
  BY <1>2, <1>3, <1>4

-----------------------------------------------------------------------------
LEMMA InitEInv == Init => EInv
<1> SUFFICES ASSUME Init PROVE EInv
  OBVIOUS
<1>1. JInv
  BY InitInv, InitSound DEF JInv
<1>2. \A m \in Methods : entry[m] = Own(m) /\ ~IsTrampoline(entry[m])
  BY DEF Init, Own, IsTrampoline
<1>3. NotPlaceholder /\ NoBypass /\ Fresh
  BY <1>2 DEF Init, NotPlaceholder, NoBypass, Fresh
<1>4. TargetDone /\ BackupDone /\ Initialized /\ Recorded /\ LatestInPlace
  BY DEF Init, TargetDone, BackupDone, Initialized, Recorded, LatestInPlace,
         Latest
<1>5. BackupUsable
  <2> SUFFICES ASSUME NEW r \in Requests, entry[r.target].body = r.hook
               PROVE  FALSE
    BY DEF BackupUsable
  <2>1. entry[r.target].body = r.target
    BY <1>2, Roles, EntryFacts
  <2>2. QED
    BY <2>1, Apart
<1>6. QED
  BY <1>1, <1>3, <1>4, <1>5 DEF EInv

LEMMA StepEInv ==
  ASSUME EInv, [Next]_vars
  PROVE  EInv'
<1>1. JInv'
  BY StepInv, StepSound DEF EInv, JInv
<1>2. QED
  BY <1>1, NotPlaceholderStays, NoBypassInv, TargetDoneStays,
     BackupDoneStays, InitializedStays, LatestInPlaceStays, FreshStays,
     RecordedStays, BackupUsableStays DEF EInv

LEMMA EInvEffective == EInv => HookEffective
<1> SUFFICES ASSUME EInv, NEW r \in Requests, Latest(r)
             PROVE  /\ Supported(r.target) => Bodies(r.target) = {r.hook}
                    /\ r.backup # None /\ Supported(r.backup)
                         => r.backup \notin Bodies(r.backup)
  BY DEF HookEffective
<1>1. InPlace(r) /\ r.target \in Methods
      /\ (r.backup # None => r.backup \in Methods)
  BY Roles DEF EInv, LatestInPlace
<1>2. pc = "setMode" =>
        r.target # From /\ (r.backup # None => r.backup # From)
  <2> SUFFICES ASSUME pc = "setMode"
               PROVE  r.target # From /\ (r.backup # None => r.backup # From)
    OBVIOUS
  <2>1. req \in Requests /\ req.target # r.target /\ req # r
    BY FromFacts DEF EInv, Latest
  <2>2. QED
    BY <2>1, FromFacts, Apart DEF EInv
<1>3. Works => /\ ~MayBypass(r.target)
               /\ r.backup # None => ~MayBypass(r.backup)
  BY <1>1, <1>2 DEF InPlace, EInv, NoBypass
<1>4. r.backup # None => entry[r.backup].body # r.backup
  BY <1>1, Apart DEF InPlace, EInv, NotPlaceholder
<1>5. QED
  BY <1>1, <1>3, <1>4 DEF Bodies, InPlace, Supported, Works

LEMMA EInvHasBackup == EInv => HookHasBackup
<1> SUFFICES ASSUME EInv, NEW r \in Requests, AllWell, r.backup # None,
                    Supported(r.backup), r.hook \in Bodies(r.target)
             PROVE  r.backup \notin Bodies(r.backup)
  BY DEF HookHasBackup
<1>1. entry[r.target].body = r.hook
  BY Apart DEF Bodies
<1>2. Usable(r.backup)
  BY <1>1 DEF EInv, BackupUsable
<1>3. entry[r.backup].body # r.backup
  BY <1>2, Roles, Apart DEF Usable, EInv, NotPlaceholder
<1>4. QED
  BY <1>2, <1>3 DEF Bodies, Usable, Supported, Works

(***************************************************************************)
(* A hook reported as successful is what every invocation of the target    *)
(* runs from then on (hook_main.c:126-137, 174-193, utils.c:181-233), from *)
(* API level 24 on, apart from callers that have the target inlined and    *)
(* from debug mode on R+ (README.md:31, 88, hook_main.c:187).              *)
(***************************************************************************)
THEOREM HookStaysEffective == Spec => []HookEffective
<1>1. Init => EInv
  BY InitEInv
<1>2. EInv /\ [Next]_vars => EInv'
  BY StepEInv
<1>3. EInv => HookEffective
  BY EInvEffective
<1>4. QED
  BY <1>1, <1>2, <1>3, PTL DEF Spec

(***************************************************************************)
(* While nothing has failed, the placeholder of a hook that can run is not *)
(* what its backup runs, at every step of doBackupAndHook                  *)
(* (hook_main.c:215-223), on the same levels and in the same builds; where *)
(* the backup leads is what HookImplemented says.                          *)
(***************************************************************************)
THEOREM HookAlwaysHasBackup == Spec => []HookHasBackup
<1>1. Init => EInv
  BY InitEInv
<1>2. EInv /\ [Next]_vars => EInv'
  BY StepEInv
<1>3. EInv => HookHasBackup
  BY EInvHasBackup
<1>4. QED
  BY <1>1, <1>2, <1>3, PTL DEF Spec

-----------------------------------------------------------------------------
(***************************************************************************)
(* From here on: hooks which call their backups never come back to the     *)
(* same method when no call of backupAndHook is repeated, for any number   *)
(* of hooks of a target.                                                   *)
(***************************************************************************)
\* A call that has ended was for the request with this hook.
FromLog(h) == \E i \in DOMAIN log : log[i].req.hook = h

\* No request is made twice.
Once ==
  /\ \A i, j \in DOMAIN log : log[i].req = log[j].req => i = j
  /\ pc # "idle" => \A i \in DOMAIN log : log[i].req # req

\* A target leads to the hook of a call that has ended, or of the one under
\* way once it has stored the entry point of the target.
TargetsFromLog ==
  \A m \in Methods \ Backups : IsTrampoline(entry[m]) =>
    \/ FromLog(entry[m].body)
    \/ /\ \/ pc = "setMode" /\ halves = <<"target">>
          \/ pc = "return"
       /\ entry[m].body = req.hook

\* A backup leads to a hook of an earlier call than its own.
BackupsFromLog ==
  \A r \in Requests :
    /\ r.backup # None
    /\ IsTrampoline(entry[r.backup]) /\ entry[r.backup].body \in Hooks
    => \E i \in DOMAIN log :
         /\ log[i].req.hook = entry[r.backup].body
         /\ \/ pc # "idle" /\ req = r
            \/ \E j \in DOMAIN log : j > i /\ log[j].req = r

\* So will a backup that is about to be stored.
NewFromLog ==
  /\ pc = "writeEntry" /\ halves = <<"backup", "target">>
  /\ newEntrypoint.body \in Hooks
  => FromLog(newEntrypoint.body)

RInv == JInv /\ Once /\ TargetsFromLog /\ BackupsFromLog /\ NewFromLog

-----------------------------------------------------------------------------
(***************************************************************************)
(* A nonempty set of natural numbers has a least one.                      *)
(***************************************************************************)
LEMMA Least ==
  ASSUME NEW T \in SUBSET Nat, T # {}
  PROVE  \E x \in T : \A y \in T : x <= y
<1> DEFINE R == OpToRel(<, Nat)
<1>1. IsWellFoundedOn(R, Nat)
  BY NatLessThanWellFounded
<1>2. PICK x \in T : \A y \in T : <<y, x>> \notin R
  <2> HIDE DEF R
  <2> QED
    BY <1>1, WFMin
<1>3. \A y \in T : ~(y < x)
  BY <1>2 DEF OpToRel
<1>4. QED
  BY <1>3

LEMMA ElementOfSeq ==
  ASSUME NEW S, NEW s \in Seq(S), NEW i \in DOMAIN s
  PROVE  s[i] \in S
OBVIOUS

(***************************************************************************)
(* The calls that have ended stay in the log.                              *)
(***************************************************************************)
LEMMA LogStays ==
  ASSUME JInv, [Next]_vars
  PROVE  /\ \A i \in DOMAIN log : i \in DOMAIN log' /\ log'[i] = log[i]
         /\ ~Return => log' = log
<1>1. CASE Return
  BY <1>1, ReturnLog
<1>2. CASE ~Return
  BY <1>2
     DEF Next, Hooking, Runtime, JitCompile, MakeVisible, backupAndHook,
         InitClass, SetNonCompilable, GenTrampoline, GenTrampolineFails,
         GenTrampolineFaults, WriteEntry, SetMode, At, vars
<1>3. QED
  BY <1>1, <1>2

LEMMA FromLogStays ==
  ASSUME JInv, [Next]_vars, NEW h, FromLog(h)
  PROVE  FromLog(h)'
BY LogStays DEF FromLog

(***************************************************************************)
(* The request only changes between calls.                                 *)
(***************************************************************************)
LEMMA RequestStays ==
  ASSUME JInv, [Next]_vars, ~Return, pc # "idle"
  PROVE  pc' # "idle" /\ req' = req
<1>1. CASE SetMode \/ GenTrampolineFails
  BY <1>1, EndHalfFacts DEF JInv, SetMode, GenTrampolineFails, At
<1>2. CASE ~SetMode /\ ~GenTrampolineFails
  BY <1>2
     DEF Next, Hooking, Runtime, JitCompile, MakeVisible, backupAndHook,
         InitClass, SetNonCompilable, GenTrampoline,
         GenTrampolineFaults, WriteEntry, At, vars
<1>3. QED
  BY <1>1, <1>2

LEMMA OnceStays ==
  ASSUME MayRepeat = FALSE, RInv, [Next]_vars
  PROVE  Once'
<1>1. CASE Return
  <2>1. \A i \in DOMAIN log : log[i].req # req
    BY <1>1 DEF Return, At, RInv, Once
  <2>2. ASSUME NEW i \in DOMAIN log', NEW j \in DOMAIN log',
               log'[i].req = log'[j].req
        PROVE  i = j
    <3>1. CASE i \in DOMAIN log /\ j \in DOMAIN log
      BY <1>1, <2>2, <3>1, ReturnLog DEF RInv, Once
    <3>2. CASE i \in DOMAIN log /\ j = Len(log) + 1
      BY <1>1, <2>1, <2>2, <3>2, ReturnLog DEF RInv
    <3>3. CASE i = Len(log) + 1 /\ j \in DOMAIN log
      BY <1>1, <2>1, <2>2, <3>3, ReturnLog DEF RInv
    <3>4. QED
      BY <1>1, <3>1, <3>2, <3>3, ReturnLog DEF RInv
  <2>3. pc' = "idle"
    BY <1>1 DEF Return
  <2>4. QED
    BY <2>2, <2>3 DEF Once
<1>2. CASE \E r \in Requests : backupAndHook(r)
  BY <1>2 DEF backupAndHook, RInv, Once
<1>3. CASE ~Return /\ ~(\E r \in Requests : backupAndHook(r))
  <2>1. log' = log
    BY <1>3, LogStays DEF RInv
  <2>2. pc' # "idle" => pc # "idle" /\ req' = req
    <3>1. CASE pc # "idle"
      BY <1>3, <3>1, RequestStays DEF RInv
    <3>2. CASE pc = "idle"
      BY <1>3, <3>2
         DEF Next, Hooking, Runtime, JitCompile, MakeVisible, InitClass,
             SetNonCompilable, GenTrampoline, GenTrampolineFails,
             GenTrampolineFaults, WriteEntry, SetMode, At, vars
    <3>3. QED
      BY <3>1, <3>2
  <2>3. QED
    BY <2>1, <2>2 DEF RInv, Once
<1>4. QED
  BY <1>1, <1>2, <1>3

LEMMA TargetsFromLogStays ==
  ASSUME RInv, [Next]_vars
  PROVE  TargetsFromLog'
<1> SUFFICES ASSUME NEW m \in Methods \ Backups, IsTrampoline(entry'[m])
             PROVE  \/ \E i \in DOMAIN log' : log'[i].req.hook = entry'[m].body
                    \/ /\ \/ pc' = "setMode" /\ halves' = <<"target">>
                          \/ pc' = "return"
                       /\ entry'[m].body = req'.hook
  BY DEF TargetsFromLog, FromLog, IsTrampoline
<1>1. CASE WriteEntry /\ m = From /\ entry'[m] = newEntrypoint
  <2>1. halves = <<"target">> /\ UNCHANGED <<req, halves>> /\ pc' = "setMode"
    BY <1>1, FromFacts, Apart DEF RInv, WriteEntry, At
  <2>2. newEntrypoint.body = req.hook
    BY <1>1, <2>1 DEF WriteEntry, At, RInv, JInv, Sound, Aimed
  <2>3. QED
    BY <1>1, <2>1, <2>2
<1>2. CASE entry'[m] = entry[m] /\ FromLog(entry[m].body)
  <2>1. PICK i \in DOMAIN log : log[i].req.hook = entry[m].body
    BY <1>2 DEF FromLog
  <2>2. i \in DOMAIN log' /\ log'[i].req.hook = entry'[m].body
    BY <1>2, <2>1, LogStays DEF RInv
  <2>3. QED
    BY <2>2
<1>3. CASE entry'[m] = entry[m] /\ ~FromLog(entry[m].body)
  <2>1. /\ \/ pc = "setMode" /\ halves = <<"target">>
           \/ pc = "return"
        /\ entry[m].body = req.hook
    BY <1>3 DEF RInv, TargetsFromLog
  <2>2. CASE Return
    <3>1. Len(log) + 1 \in DOMAIN log' /\ log'[Len(log) + 1].req.hook = req.hook
      BY <2>2, ReturnLog DEF RInv
    <3>2. QED
      BY <1>3, <2>1, <3>1
  <2>3. CASE SetMode
    <3>1. pc' = "return" /\ req' = req
      <4>1. halves = <<"target">>
        BY <2>1, <2>3 DEF SetMode, At
      <4>2. Tail(halves) = <<>>
        BY <4>1
      <4>3. QED
        BY <2>3, <4>2 DEF SetMode, EndHalf
    <3>2. QED
      BY <1>3, <2>1, <3>1
  <2>4. CASE ~Return /\ ~SetMode
    <3>1. UNCHANGED <<pc, halves, req>>
      BY <2>1, <2>4
         DEF Next, Hooking, Runtime, JitCompile, MakeVisible, backupAndHook,
             InitClass, SetNonCompilable, GenTrampoline, GenTrampolineFails,
             GenTrampolineFaults, WriteEntry, At, vars
    <3>2. QED
      BY <1>3, <2>1, <3>1
  <2>5. QED
    BY <2>2, <2>3, <2>4
<1>4. QED
  BY <1>1, <1>2, <1>3, TrampolineFromStore DEF RInv

LEMMA BackupsFromLogStays ==
  ASSUME RInv, [Next]_vars
  PROVE  BackupsFromLog'
<1> SUFFICES ASSUME NEW r \in Requests, r.backup # None,
                    IsTrampoline(entry'[r.backup]),
                    entry'[r.backup].body \in Hooks
             PROVE  \E i \in DOMAIN log' :
                      /\ log'[i].req.hook = entry'[r.backup].body
                      /\ \/ pc' # "idle" /\ req' = r
                         \/ \E j \in DOMAIN log' : j > i /\ log'[j].req = r
  BY DEF BackupsFromLog, IsTrampoline
<1>0. r.backup \in Methods
  BY Roles
<1>1. CASE WriteEntry /\ r.backup = From /\ entry'[r.backup] = newEntrypoint
  <2>1. /\ halves = <<"backup", "target">> /\ pc = "writeEntry"
        /\ req = r /\ req' = req /\ pc' # "idle" /\ log' = log
    BY <1>1, FromFacts, Apart DEF RInv, WriteEntry, At
  <2>2. FromLog(newEntrypoint.body)
    BY <1>1, <2>1 DEF RInv, NewFromLog
  <2>3. QED
    BY <1>1, <2>1, <2>2 DEF FromLog
<1>2. CASE entry'[r.backup] = entry[r.backup]
  <2>1. PICK i \in DOMAIN log :
          /\ log[i].req.hook = entry[r.backup].body
          /\ \/ pc # "idle" /\ req = r
             \/ \E j \in DOMAIN log : j > i /\ log[j].req = r
    BY <1>2 DEF RInv, BackupsFromLog
  <2>2. i \in DOMAIN log' /\ log'[i].req.hook = entry'[r.backup].body
    BY <1>2, <2>1, LogStays DEF RInv
  <2>3. CASE \E j \in DOMAIN log : j > i /\ log[j].req = r
    BY <2>2, <2>3, LogStays DEF RInv
  <2>4. CASE pc # "idle" /\ req = r /\ Return
    <3>1. /\ Len(log) + 1 \in DOMAIN log' /\ log'[Len(log) + 1].req = r
          /\ Len(log) + 1 > i
      BY <2>1, <2>4, ReturnLog DEF RInv
    <3>2. QED
      BY <2>2, <3>1
  <2>5. CASE pc # "idle" /\ req = r /\ ~Return
    BY <2>2, <2>5, RequestStays DEF RInv
  <2>6. QED
    BY <2>1, <2>3, <2>4, <2>5
<1>3. QED
  BY <1>0, <1>1, <1>2, TrampolineFromStore DEF RInv

LEMMA NewFromLogStays ==
  ASSUME RInv, [Next]_vars
  PROVE  NewFromLog'
<1> SUFFICES ASSUME pc' = "writeEntry", halves' = <<"backup", "target">>,
                    newEntrypoint'.body \in Hooks
             PROVE  \E i \in DOMAIN log' : log'[i].req.hook = newEntrypoint'.body
  BY DEF NewFromLog, FromLog
<1>1. CASE GenTrampoline
  <2>1. Head(halves) = "backup" /\ log' = log
    BY <1>1 DEF GenTrampoline
  <2>2. newEntrypoint'.body = entry[req.target].body
    BY <1>1, <2>1, EntryFacts DEF GenTrampoline
  <2>3. req \in Requests /\ req.target \in Methods \ Backups
        /\ req.target \notin Hooks /\ pc = "genTrampoline"
    BY <1>1, Roles, Apart DEF GenTrampoline, At, RInv, JInv, IInv, Busy, Hooks
  <2>4. IsTrampoline(entry[req.target])
    BY <2>2, <2>3 DEF RInv, JInv, Sound, OwnBody
  <2>5. FromLog(entry[req.target].body)
    BY <2>3, <2>4 DEF RInv, TargetsFromLog
  <2>6. QED
    BY <2>1, <2>2, <2>5 DEF FromLog
<1>2. CASE ~GenTrampoline
  <2>1. UNCHANGED <<pc, halves, newEntrypoint, log>>
    BY <1>2, EndHalfFacts
       DEF RInv, JInv, Next, Hooking, Runtime, JitCompile, MakeVisible,
           backupAndHook, InitClass, SetNonCompilable, GenTrampolineFails,
           GenTrampolineFaults, WriteEntry, SetMode, Return, At, vars
  <2>2. QED
    BY <2>1 DEF RInv, NewFromLog, FromLog
<1>3. QED
  BY <1>1, <1>2

-----------------------------------------------------------------------------
LEMMA InitRInv == Init => RInv
<1> SUFFICES ASSUME Init PROVE RInv
  OBVIOUS
<1>1. JInv
  BY InitInv, InitSound DEF JInv
<1>2. \A m \in Methods : ~IsTrampoline(entry[m])
  BY DEF Init, Own, IsTrampoline
<1>3. Once /\ NewFromLog
  BY DEF Init, Once, NewFromLog
<1>4. TargetsFromLog /\ BackupsFromLog
  BY <1>2, Roles DEF TargetsFromLog, BackupsFromLog
<1>5. QED
  BY <1>1, <1>3, <1>4 DEF RInv

LEMMA StepRInv ==
  ASSUME MayRepeat = FALSE, RInv, [Next]_vars
  PROVE  RInv'
<1>1. JInv'
  BY StepInv, StepSound DEF RInv, JInv
<1>2. QED
  BY <1>1, OnceStays, TargetsFromLogStays, BackupsFromLogStays, NewFromLogStays
     DEF RInv

(***************************************************************************)
(* In a set of methods that would come back to itself there is a backup    *)
(* for each hook of another, made by an earlier call: take the earliest.   *)
(***************************************************************************)
LEMMA RInvNoRecursion == RInv => NoRecursion
<1> SUFFICES ASSUME RInv, NEW S \in SUBSET Methods, S # {},
                    \A m \in S : Leads(m) \cap S # {}
             PROVE  FALSE
  BY DEF NoRecursion
<1> DEFINE Inside == {r \in Requests : r.backup # None /\ r.backup \in S}
           T == {i \in DOMAIN log : log[i].req \in Inside}
<1>1. \A m \in S : \E r \in Inside : r.hook \in Bodies(m)
  BY DEF Leads
<1>2. ASSUME NEW r \in Inside
      PROVE  \E i \in T : \/ pc # "idle" /\ req = r
                          \/ \E j \in DOMAIN log : j > i /\ log[j].req = r
  <2>1. PICK s \in Inside : s.hook \in Bodies(r.backup)
    BY <1>1
  <2>2. s.hook = entry[r.backup].body /\ s.hook \in Hooks
    BY <2>1, Apart DEF Bodies, Hooks
  <2>3. IsTrampoline(entry[r.backup])
    BY <2>2, Apart, Roles DEF RInv, JInv, Sound, OwnBody
  <2>4. PICK i \in DOMAIN log :
          /\ log[i].req.hook = s.hook
          /\ \/ pc # "idle" /\ req = r
             \/ \E j \in DOMAIN log : j > i /\ log[j].req = r
    BY <2>2, <2>3 DEF RInv, BackupsFromLog
  <2>5. log[i].req \in Requests
    <3>1. log \in Seq([req : Requests, ok : BOOLEAN, init : BOOLEAN])
      BY DEF RInv, JInv, IInv, TypeOK
    <3>2. log[i] \in [req : Requests, ok : BOOLEAN, init : BOOLEAN]
      BY <3>1, <2>4, ElementOfSeq
    <3>3. QED
      BY <3>2
  <2>6. log[i].req = s
    BY <2>4, <2>5, Apart
  <2>7. QED
    BY <2>4, <2>6
<1>3. T # {} /\ T \in SUBSET Nat
  <2>1. \E r \in Inside : TRUE
    BY <1>1
  <2>2. DOMAIN log \subseteq Nat
    BY DEF RInv, JInv, IInv, TypeOK
  <2>3. QED
    BY <1>2, <2>1, <2>2
<1>4. PICK i \in T : \A k \in T : i <= k
  BY <1>3, Least
<1>5. PICK k \in T : \/ pc # "idle" /\ req = log[i].req
                     \/ \E j \in DOMAIN log : j > k /\ log[j].req = log[i].req
  BY <1>2, <1>4
<1>6. \A j \in DOMAIN log : log[j].req = log[i].req => j = i
  BY <1>4 DEF RInv, Once
<1>7. ~(pc # "idle" /\ req = log[i].req)
  BY <1>4 DEF RInv, Once
<1>8. i > k
  BY <1>5, <1>6, <1>7
<1>9. QED
  BY <1>3, <1>4, <1>8

(***************************************************************************)
(* "Backup" methods end in the original method, after any chain of hooks   *)
(* and whatever fails, if no call is repeated (README.md:82).              *)
(***************************************************************************)
THEOREM NeverRecursive ==
  ASSUME MayRepeat = FALSE
  PROVE  Spec => []NoRecursion
<1>1. Init => RInv
  BY InitRInv
<1>2. RInv /\ [Next]_vars => RInv'
  BY StepRInv
<1>3. RInv => NoRecursion
  BY RInvNoRecursion
<1>4. QED
  BY <1>1, <1>2, <1>3, PTL DEF Spec
=============================================================================
