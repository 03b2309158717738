----------------------------- MODULE XhCore_proofs -----------------------------
(***************************************************************************)
(* Proofs about xh_core.c for any number of application threads and        *)
(* workers: first for threads that call any operation at any time, then    *)
(* for threads that clear alone and register before they refresh           *)
(* (Disciplined), last for those that do not switch the protection while   *)
(* the library is initialized (SwitchInited = FALSE).                      *)
(***************************************************************************)
EXTENDS XhCore, TLAPS

-----------------------------------------------------------------------------
\* Who is inside a section that xh_core_refresh_mutex protects.
InRefreshSection(t) == pc[t] \in {"traverse", "protected", "bare", "free"}

\* Who holds xh_core_mutex over several steps.
InCoreSection(t) ==
  pc[t] \in {"addHandler", "create", "clearRefreshLock", "free"}

RefreshLocked == \A t \in Threads : InRefreshSection(t) => refreshMutex = t

CoreLocked == \A t \in Threads : InCoreSection(t) => mutex = t

FlagTypes ==
  /\ inited \in BOOLEAN /\ initOk \in BOOLEAN
  /\ asyncInited \in BOOLEAN /\ asyncInitOk \in BOOLEAN
  /\ running \in BOOLEAN /\ do \in BOOLEAN /\ sigEnable \in BOOLEAN
  /\ yielded \in BOOLEAN

\* A worker that can be stopped has been created.
Joinable ==
  /\ asyncInitOk => tid # NoThread
  /\ \A c \in Clients : pc[c] = "stop" => tid # NoThread

IInv == TypeOK /\ RefreshLocked /\ CoreLocked /\ Joinable

-----------------------------------------------------------------------------
(***************************************************************************)
(* The refresh mutex excludes two walks, and a walk and the freeing.       *)
(***************************************************************************)
LEMMA LockedMeansAlone == IInv => InUseAlone
<1> SUFFICES ASSUME IInv, NEW t \in Threads, NEW u \in Threads,
                    t # u, Traversing(t)
             PROVE  ~Traversing(u) /\ pc[u] # "free"
  BY DEF InUseAlone
<1>1. refreshMutex = t
  BY DEF IInv, RefreshLocked, InRefreshSection, Traversing
<1>2. ~InRefreshSection(u)
  BY <1>1 DEF IInv, RefreshLocked
<1>3. QED
  BY <1>2 DEF InRefreshSection, Traversing

LEMMA InitInv == Init => IInv
<1> SUFFICES ASSUME Init PROVE IInv
  OBVIOUS
<1> USE DEF Init
<1>1. pc \in [Threads -> {"idle", "none"}]
  OBVIOUS
<1>2. TypeOK
  <2>1. pc \in [Threads -> Labels]
    BY <1>1 DEF Labels
  <2>2. /\ op \in [Clients -> AllOps \cup {"none"}]
        /\ info \in [Clients -> SUBSET Infos]
        /\ joining \in [Clients -> Workers \cup {NoThread}]
    OBVIOUS
  <2>3. calls \in [Clients -> 0 .. MaxOps]
    BY XhCoreAssumption
  <2>4. \A c \in Clients : pc[c] = "join" => joining[c] # NoThread
    BY <1>1 DEF Threads
  <2>5. QED
    BY <2>1, <2>2, <2>3, <2>4 DEF TypeOK, Actions
<1>3. RefreshLocked /\ CoreLocked /\ Joinable
  BY <1>1 DEF RefreshLocked, CoreLocked, Joinable, InRefreshSection,
              InCoreSection, Threads
<1>4. QED
  BY <1>2, <1>3 DEF IInv

(***************************************************************************)
(* Register, ignore, and the first step of the other operations.           *)
(***************************************************************************)
LEMMA CallInv ==
  ASSUME IInv, NEW c \in Clients,
         \/ Register(c)
         \/ RegisterRejected(c)
         \/ Refresh(c)
         \/ Clear(c)
         \/ EnableProtection(c)
  PROVE  IInv'
<1> USE DEF Goto, flags, worker, locks, signals, locals
<1> USE XhCoreAssumption DEF Threads
<1>1. CASE Register(c)
  <2>1. TypeOK'
    BY <1>1 DEF Register, Begin, IInv, TypeOK, Labels, AllOps, Actions, Joinable
  <2>2. RefreshLocked' /\ CoreLocked'
    BY <1>1 DEF Register, Begin, IInv, TypeOK, RefreshLocked, CoreLocked,
                InRefreshSection, InCoreSection
  <2>3. Joinable'
    BY <1>1 DEF Register, Begin, IInv, TypeOK, Joinable
  <2>4. QED
    BY <2>1, <2>2, <2>3 DEF IInv
<1>2. CASE RegisterRejected(c)
  <2>1. TypeOK'
    BY <1>2 DEF RegisterRejected, Begin, IInv, TypeOK, Labels, AllOps, Actions, Joinable
  <2>2. RefreshLocked' /\ CoreLocked'
    BY <1>2 DEF RegisterRejected, Begin, IInv, TypeOK, RefreshLocked, CoreLocked,
                InRefreshSection, InCoreSection
  <2>3. Joinable'
    BY <1>2 DEF RegisterRejected, Begin, IInv, TypeOK, Joinable
  <2>4. QED
    BY <2>1, <2>2, <2>3 DEF IInv
<1>3. CASE Refresh(c)
  <2>1. TypeOK'
    BY <1>3 DEF Refresh, Begin, IInv, TypeOK, Labels, AllOps, Actions, Joinable
  <2>2. RefreshLocked' /\ CoreLocked'
    BY <1>3 DEF Refresh, Begin, IInv, TypeOK, RefreshLocked, CoreLocked,
                InRefreshSection, InCoreSection
  <2>3. Joinable'
    BY <1>3 DEF Refresh, Begin, IInv, TypeOK, Joinable
  <2>4. QED
    BY <2>1, <2>2, <2>3 DEF IInv
<1>4. CASE Clear(c)
  <2>1. TypeOK'
    BY <1>4 DEF Clear, Begin, IInv, TypeOK, Labels, AllOps, Actions, Joinable
  <2>2. RefreshLocked' /\ CoreLocked'
    BY <1>4 DEF Clear, Begin, IInv, TypeOK, RefreshLocked, CoreLocked,
                InRefreshSection, InCoreSection
  <2>3. Joinable'
    BY <1>4 DEF Clear, Begin, IInv, TypeOK, Joinable
  <2>4. QED
    BY <2>1, <2>2, <2>3 DEF IInv
<1>5. CASE EnableProtection(c)
  <2>1. TypeOK'
    BY <1>5 DEF EnableProtection, Begin, IInv, TypeOK, Labels, AllOps, Actions, Joinable
  <2>2. RefreshLocked' /\ CoreLocked'
    BY <1>5 DEF EnableProtection, Begin, IInv, TypeOK, RefreshLocked, CoreLocked,
                InRefreshSection, InCoreSection
  <2>3. Joinable'
    BY <1>5 DEF EnableProtection, Begin, IInv, TypeOK, Joinable
  <2>4. QED
    BY <2>1, <2>2, <2>3 DEF IInv
<1>6. QED
  BY <1>1, <1>2, <1>3, <1>4, <1>5

(***************************************************************************)
(* The steps that read a flag, or store one, outside the mutex.            *)
(***************************************************************************)
LEMMA FlagInv ==
  ASSUME IInv, NEW c \in Clients,
         \/ CheckInit(c)
         \/ CheckAsyncInited(c)
         \/ CheckAsync(c)
         \/ ResetAsync(c)
         \/ DelHandler(c)
         \/ ResetInited(c)
  PROVE  IInv'
<1> USE DEF Goto, flags, worker, locks, signals, locals
<1> USE XhCoreAssumption DEF Threads
<1>1. CASE CheckInit(c)
  <2>1. TypeOK'
    BY <1>1 DEF CheckInit, IInv, TypeOK, Labels, AllOps, Actions, Joinable
  <2>2. RefreshLocked' /\ CoreLocked'
    BY <1>1 DEF CheckInit, IInv, TypeOK, RefreshLocked, CoreLocked,
                InRefreshSection, InCoreSection
  <2>3. Joinable'
    BY <1>1 DEF CheckInit, IInv, TypeOK, Joinable
  <2>4. QED
    BY <2>1, <2>2, <2>3 DEF IInv
<1>2. CASE CheckAsyncInited(c)
  <2>1. TypeOK'
    BY <1>2 DEF CheckAsyncInited, IInv, TypeOK, Labels, AllOps, Actions, Joinable
  <2>2. RefreshLocked' /\ CoreLocked'
    BY <1>2 DEF CheckAsyncInited, IInv, TypeOK, RefreshLocked, CoreLocked,
                InRefreshSection, InCoreSection
  <2>3. Joinable'
    BY <1>2 DEF CheckAsyncInited, IInv, TypeOK, Joinable
  <2>4. QED
    BY <2>1, <2>2, <2>3 DEF IInv
<1>3. CASE CheckAsync(c)
  <2>1. TypeOK'
    BY <1>3 DEF CheckAsync, IInv, TypeOK, Labels, AllOps, Actions, Joinable
  <2>2. RefreshLocked' /\ CoreLocked'
    BY <1>3 DEF CheckAsync, IInv, TypeOK, RefreshLocked, CoreLocked,
                InRefreshSection, InCoreSection
  <2>3. Joinable'
    BY <1>3 DEF CheckAsync, IInv, TypeOK, Joinable
  <2>4. QED
    BY <2>1, <2>2, <2>3 DEF IInv
<1>4. CASE ResetAsync(c)
  <2>1. pc' \in [Threads -> Labels]
    BY <1>4 DEF ResetAsync, IInv, TypeOK, Labels
  <2>2. \A d \in Clients : pc'[d] = "join" => joining'[d] # NoThread
    BY <1>4 DEF ResetAsync, IInv, TypeOK, Joinable
  <2>3. TypeOK'
    <3>1. FlagTypes'
      BY <1>4, Zenon DEF ResetAsync, IInv, TypeOK, FlagTypes
    <3>2. /\ tid' \in Workers \cup {NoThread}
          /\ mutex' \in Threads \cup {NoThread}
          /\ refreshMutex' \in Threads \cup {NoThread}
          /\ sigAction' \in Actions /\ sigOld' \in Actions
      BY <1>4 DEF ResetAsync, IInv, TypeOK, Actions
    <3>3. /\ infos' \subseteq Infos
          /\ op' \in [Clients -> AllOps \cup {"none"}]
          /\ info' \in [Clients -> SUBSET Infos]
          /\ joining' \in [Clients -> Workers \cup {NoThread}]
          /\ calls' \in [Clients -> 0 .. MaxOps]
      BY <1>4 DEF ResetAsync, IInv, TypeOK
    <3>4. QED
      BY <2>1, <2>2, <3>1, <3>2, <3>3, Zenon DEF TypeOK, FlagTypes
  <2>4. RefreshLocked' /\ CoreLocked'
    BY <1>4 DEF ResetAsync, IInv, TypeOK, RefreshLocked, CoreLocked,
                InRefreshSection, InCoreSection
  <2>5. Joinable'
    BY <1>4 DEF ResetAsync, IInv, TypeOK, Joinable
  <2>6. QED
    BY <2>3, <2>4, <2>5 DEF IInv
<1>5. CASE DelHandler(c)
  <2>1. pc' \in [Threads -> Labels]
    BY <1>5 DEF DelHandler, IInv, TypeOK, Labels
  <2>2. \A d \in Clients : pc'[d] = "join" => joining'[d] # NoThread
    BY <1>5 DEF DelHandler, IInv, TypeOK, Joinable
  <2>3. TypeOK'
    <3>1. FlagTypes'
      BY <1>5, Zenon DEF DelHandler, IInv, TypeOK, FlagTypes
    <3>2. /\ tid' \in Workers \cup {NoThread}
          /\ mutex' \in Threads \cup {NoThread}
          /\ refreshMutex' \in Threads \cup {NoThread}
          /\ sigAction' \in Actions /\ sigOld' \in Actions
      BY <1>5 DEF DelHandler, IInv, TypeOK, Actions
    <3>3. /\ infos' \subseteq Infos
          /\ op' \in [Clients -> AllOps \cup {"none"}]
          /\ info' \in [Clients -> SUBSET Infos]
          /\ joining' \in [Clients -> Workers \cup {NoThread}]
          /\ calls' \in [Clients -> 0 .. MaxOps]
      BY <1>5 DEF DelHandler, IInv, TypeOK
    <3>4. QED
      BY <2>1, <2>2, <3>1, <3>2, <3>3, Zenon DEF TypeOK, FlagTypes
  <2>4. RefreshLocked' /\ CoreLocked'
    BY <1>5 DEF DelHandler, IInv, TypeOK, RefreshLocked, CoreLocked,
                InRefreshSection, InCoreSection
  <2>5. Joinable'
    BY <1>5 DEF DelHandler, IInv, TypeOK, Joinable
  <2>6. QED
    BY <2>3, <2>4, <2>5 DEF IInv
<1>6. CASE ResetInited(c)
  <2>1. pc' \in [Threads -> Labels]
    BY <1>6 DEF ResetInited, IInv, TypeOK, Labels
  <2>2. \A d \in Clients : pc'[d] = "join" => joining'[d] # NoThread
    BY <1>6 DEF ResetInited, IInv, TypeOK, Joinable
  <2>3. TypeOK'
    <3>1. FlagTypes'
      BY <1>6, Zenon DEF ResetInited, IInv, TypeOK, FlagTypes
    <3>2. /\ tid' \in Workers \cup {NoThread}
          /\ mutex' \in Threads \cup {NoThread}
          /\ refreshMutex' \in Threads \cup {NoThread}
          /\ sigAction' \in Actions /\ sigOld' \in Actions
      BY <1>6 DEF ResetInited, IInv, TypeOK, Actions
    <3>3. /\ infos' \subseteq Infos
          /\ op' \in [Clients -> AllOps \cup {"none"}]
          /\ info' \in [Clients -> SUBSET Infos]
          /\ joining' \in [Clients -> Workers \cup {NoThread}]
          /\ calls' \in [Clients -> 0 .. MaxOps]
      BY <1>6 DEF ResetInited, IInv, TypeOK
    <3>4. QED
      BY <2>1, <2>2, <3>1, <3>2, <3>3, Zenon DEF TypeOK, FlagTypes
  <2>4. RefreshLocked' /\ CoreLocked'
    BY <1>6 DEF ResetInited, IInv, TypeOK, RefreshLocked, CoreLocked,
                InRefreshSection, InCoreSection
  <2>5. Joinable'
    BY <1>6 DEF ResetInited, IInv, TypeOK, Joinable
  <2>6. QED
    BY <2>3, <2>4, <2>5 DEF IInv
<1>7. QED
  BY <1>1, <1>2, <1>3, <1>4, <1>5, <1>6

(***************************************************************************)
(* The steps of a client that take or release xh_core_mutex.               *)
(***************************************************************************)
LEMMA CoreMutexInv ==
  ASSUME IInv, NEW c \in Clients,
         \/ Insert(c)
         \/ InitOnce(c)
         \/ AddHandler(c)
         \/ InitAsyncOnce(c)
         \/ CreateFails(c)
         \/ ClearLock(c)
  PROVE  IInv'
<1> USE DEF Goto, flags, worker, locks, signals, locals
<1> USE XhCoreAssumption DEF Threads
<1>1. CASE Insert(c)
  <2>1. TypeOK'
    BY <1>1 DEF Insert, IInv, TypeOK, Labels, AllOps, Actions, Joinable
  <2>2. RefreshLocked' /\ CoreLocked'
    BY <1>1 DEF Insert, IInv, TypeOK, RefreshLocked, CoreLocked,
                InRefreshSection, InCoreSection
  <2>3. Joinable'
    BY <1>1 DEF Insert, IInv, TypeOK, Joinable
  <2>4. QED
    BY <2>1, <2>2, <2>3 DEF IInv
<1>2. CASE InitOnce(c)
  <2>1. pc' \in [Threads -> Labels]
    BY <1>2 DEF InitOnce, IInv, TypeOK, Labels
  <2>2. \A d \in Clients : pc'[d] = "join" => joining'[d] # NoThread
    BY <1>2 DEF InitOnce, IInv, TypeOK, Joinable
  <2>3. TypeOK'
    <3>1. FlagTypes'
      BY <1>2, Zenon DEF InitOnce, IInv, TypeOK, FlagTypes
    <3>2. /\ tid' \in Workers \cup {NoThread}
          /\ mutex' \in Threads \cup {NoThread}
          /\ refreshMutex' \in Threads \cup {NoThread}
          /\ sigAction' \in Actions /\ sigOld' \in Actions
      BY <1>2 DEF InitOnce, IInv, TypeOK, Actions
    <3>3. /\ infos' \subseteq Infos
          /\ op' \in [Clients -> AllOps \cup {"none"}]
          /\ info' \in [Clients -> SUBSET Infos]
          /\ joining' \in [Clients -> Workers \cup {NoThread}]
          /\ calls' \in [Clients -> 0 .. MaxOps]
      BY <1>2 DEF InitOnce, IInv, TypeOK
    <3>4. QED
      BY <2>1, <2>2, <3>1, <3>2, <3>3, Zenon DEF TypeOK, FlagTypes
  <2>4. RefreshLocked' /\ CoreLocked'
    BY <1>2 DEF InitOnce, IInv, TypeOK, RefreshLocked, CoreLocked,
                InRefreshSection, InCoreSection
  <2>5. Joinable'
    BY <1>2 DEF InitOnce, IInv, TypeOK, Joinable
  <2>6. QED
    BY <2>3, <2>4, <2>5 DEF IInv
<1>3. CASE AddHandler(c)
  <2>1. pc' \in [Threads -> Labels]
    BY <1>3 DEF AddHandler, IInv, TypeOK, Labels
  <2>2. \A d \in Clients : pc'[d] = "join" => joining'[d] # NoThread
    BY <1>3 DEF AddHandler, IInv, TypeOK, Joinable
  <2>3. TypeOK'
    <3>1. FlagTypes'
      BY <1>3, Zenon DEF AddHandler, IInv, TypeOK, FlagTypes
    <3>2. /\ tid' \in Workers \cup {NoThread}
          /\ mutex' \in Threads \cup {NoThread}
          /\ refreshMutex' \in Threads \cup {NoThread}
          /\ sigAction' \in Actions /\ sigOld' \in Actions
      BY <1>3 DEF AddHandler, IInv, TypeOK, Actions
    <3>3. /\ infos' \subseteq Infos
          /\ op' \in [Clients -> AllOps \cup {"none"}]
          /\ info' \in [Clients -> SUBSET Infos]
          /\ joining' \in [Clients -> Workers \cup {NoThread}]
          /\ calls' \in [Clients -> 0 .. MaxOps]
      BY <1>3 DEF AddHandler, IInv, TypeOK
    <3>4. QED
      BY <2>1, <2>2, <3>1, <3>2, <3>3, Zenon DEF TypeOK, FlagTypes
  <2>4. RefreshLocked' /\ CoreLocked'
    BY <1>3 DEF AddHandler, IInv, TypeOK, RefreshLocked, CoreLocked,
                InRefreshSection, InCoreSection
  <2>5. Joinable'
    BY <1>3 DEF AddHandler, IInv, TypeOK, Joinable
  <2>6. QED
    BY <2>3, <2>4, <2>5 DEF IInv
<1>4. CASE InitAsyncOnce(c)
  <2>1. pc' \in [Threads -> Labels]
    BY <1>4 DEF InitAsyncOnce, IInv, TypeOK, Labels
  <2>2. \A d \in Clients : pc'[d] = "join" => joining'[d] # NoThread
    BY <1>4 DEF InitAsyncOnce, IInv, TypeOK, Joinable
  <2>3. TypeOK'
    <3>1. FlagTypes'
      BY <1>4, Zenon DEF InitAsyncOnce, IInv, TypeOK, FlagTypes
    <3>2. /\ tid' \in Workers \cup {NoThread}
          /\ mutex' \in Threads \cup {NoThread}
          /\ refreshMutex' \in Threads \cup {NoThread}
          /\ sigAction' \in Actions /\ sigOld' \in Actions
      BY <1>4 DEF InitAsyncOnce, IInv, TypeOK, Actions
    <3>3. /\ infos' \subseteq Infos
          /\ op' \in [Clients -> AllOps \cup {"none"}]
          /\ info' \in [Clients -> SUBSET Infos]
          /\ joining' \in [Clients -> Workers \cup {NoThread}]
          /\ calls' \in [Clients -> 0 .. MaxOps]
      BY <1>4 DEF InitAsyncOnce, IInv, TypeOK
    <3>4. QED
      BY <2>1, <2>2, <3>1, <3>2, <3>3, Zenon DEF TypeOK, FlagTypes
  <2>4. RefreshLocked' /\ CoreLocked'
    BY <1>4 DEF InitAsyncOnce, IInv, TypeOK, RefreshLocked, CoreLocked,
                InRefreshSection, InCoreSection
  <2>5. Joinable'
    BY <1>4 DEF InitAsyncOnce, IInv, TypeOK, Joinable
  <2>6. QED
    BY <2>3, <2>4, <2>5 DEF IInv
<1>5. CASE CreateFails(c)
  <2>1. pc' \in [Threads -> Labels]
    BY <1>5 DEF CreateFails, IInv, TypeOK, Labels
  <2>2. \A d \in Clients : pc'[d] = "join" => joining'[d] # NoThread
    BY <1>5 DEF CreateFails, IInv, TypeOK, Joinable
  <2>3. TypeOK'
    <3>1. FlagTypes'
      BY <1>5, Zenon DEF CreateFails, IInv, TypeOK, FlagTypes
    <3>2. /\ tid' \in Workers \cup {NoThread}
          /\ mutex' \in Threads \cup {NoThread}
          /\ refreshMutex' \in Threads \cup {NoThread}
          /\ sigAction' \in Actions /\ sigOld' \in Actions
      BY <1>5 DEF CreateFails, IInv, TypeOK, Actions
    <3>3. /\ infos' \subseteq Infos
          /\ op' \in [Clients -> AllOps \cup {"none"}]
          /\ info' \in [Clients -> SUBSET Infos]
          /\ joining' \in [Clients -> Workers \cup {NoThread}]
          /\ calls' \in [Clients -> 0 .. MaxOps]
      BY <1>5 DEF CreateFails, IInv, TypeOK
    <3>4. QED
      BY <2>1, <2>2, <3>1, <3>2, <3>3, Zenon DEF TypeOK, FlagTypes
  <2>4. RefreshLocked' /\ CoreLocked'
    BY <1>5 DEF CreateFails, IInv, TypeOK, RefreshLocked, CoreLocked,
                InRefreshSection, InCoreSection
  <2>5. Joinable'
    BY <1>5 DEF CreateFails, IInv, TypeOK, Joinable
  <2>6. QED
    BY <2>3, <2>4, <2>5 DEF IInv
<1>6. CASE ClearLock(c)
  <2>1. TypeOK'
    BY <1>6 DEF ClearLock, IInv, TypeOK, Labels, AllOps, Actions, Joinable
  <2>2. RefreshLocked' /\ CoreLocked'
    BY <1>6 DEF ClearLock, IInv, TypeOK, RefreshLocked, CoreLocked,
                InRefreshSection, InCoreSection
  <2>3. Joinable'
    BY <1>6 DEF ClearLock, IInv, TypeOK, Joinable
  <2>4. QED
    BY <2>1, <2>2, <2>3 DEF IInv
<1>7. QED
  BY <1>1, <1>2, <1>3, <1>4, <1>5, <1>6

(***************************************************************************)
(* The steps that change where two threads are.                            *)
(***************************************************************************)
LEMMA HandoverInv ==
  ASSUME IInv, NEW c \in Clients,
         \/ Create(c)
         \/ Post(c)
         \/ Stop(c)
         \/ Join(c)
  PROVE  IInv'
<1> USE DEF Goto, flags, worker, locks, signals, locals
<1> USE XhCoreAssumption DEF Threads
<1>1. CASE Create(c)
  <2>1. TypeOK'
    BY <1>1 DEF Create, SignalAndGoto, IInv, TypeOK, Labels, AllOps, Actions, Joinable
  <2>2. RefreshLocked' /\ CoreLocked'
    BY <1>1 DEF Create, SignalAndGoto, IInv, TypeOK, RefreshLocked, CoreLocked,
                InRefreshSection, InCoreSection
  <2>3. Joinable'
    BY <1>1 DEF Create, SignalAndGoto, IInv, TypeOK, Joinable
  <2>4. QED
    BY <2>1, <2>2, <2>3 DEF IInv
<1>2. CASE Post(c)
  <2>1. TypeOK'
    BY <1>2 DEF Post, SignalAndGoto, IInv, TypeOK, Labels, AllOps, Actions, Joinable
  <2>2. RefreshLocked' /\ CoreLocked'
    BY <1>2 DEF Post, SignalAndGoto, IInv, TypeOK, RefreshLocked, CoreLocked,
                InRefreshSection, InCoreSection
  <2>3. Joinable'
    BY <1>2 DEF Post, SignalAndGoto, IInv, TypeOK, Joinable
  <2>4. QED
    BY <2>1, <2>2, <2>3 DEF IInv
<1>3. CASE Stop(c)
  <2>1. pc' \in [Threads -> Labels]
    BY <1>3 DEF Stop, SignalAndGoto, IInv, TypeOK, Labels
  <2>2. \A d \in Clients : pc'[d] = "join" => joining'[d] # NoThread
    BY <1>3 DEF Stop, SignalAndGoto, IInv, TypeOK, Joinable
  <2>3. TypeOK'
    <3>1. FlagTypes'
      BY <1>3, Zenon DEF Stop, IInv, TypeOK, FlagTypes
    <3>2. /\ tid' \in Workers \cup {NoThread}
          /\ mutex' \in Threads \cup {NoThread}
          /\ refreshMutex' \in Threads \cup {NoThread}
          /\ sigAction' \in Actions /\ sigOld' \in Actions
      BY <1>3 DEF Stop, IInv, TypeOK, Actions
    <3>3. /\ infos' \subseteq Infos
          /\ op' \in [Clients -> AllOps \cup {"none"}]
          /\ info' \in [Clients -> SUBSET Infos]
          /\ joining' \in [Clients -> Workers \cup {NoThread}]
          /\ calls' \in [Clients -> 0 .. MaxOps]
      BY <1>3 DEF Stop, IInv, TypeOK
    <3>4. QED
      BY <2>1, <2>2, <3>1, <3>2, <3>3, Zenon DEF TypeOK, FlagTypes
  <2>4. RefreshLocked' /\ CoreLocked'
    BY <1>3 DEF Stop, SignalAndGoto, IInv, TypeOK, RefreshLocked, CoreLocked,
                InRefreshSection, InCoreSection
  <2>5. Joinable'
    BY <1>3 DEF Stop, SignalAndGoto, IInv, TypeOK, Joinable
  <2>6. QED
    BY <2>3, <2>4, <2>5 DEF IInv
<1>4. CASE Join(c)
  <2>1. pc' \in [Threads -> Labels]
    BY <1>4 DEF Join, SignalAndGoto, IInv, TypeOK, Labels
  <2>2. \A d \in Clients : pc'[d] = "join" => joining'[d] # NoThread
    BY <1>4 DEF Join, SignalAndGoto, IInv, TypeOK, Joinable
  <2>3. TypeOK'
    <3>1. FlagTypes'
      BY <1>4, Zenon DEF Join, IInv, TypeOK, FlagTypes
    <3>2. /\ tid' \in Workers \cup {NoThread}
          /\ mutex' \in Threads \cup {NoThread}
          /\ refreshMutex' \in Threads \cup {NoThread}
          /\ sigAction' \in Actions /\ sigOld' \in Actions
      BY <1>4 DEF Join, IInv, TypeOK, Actions
    <3>3. /\ infos' \subseteq Infos
          /\ op' \in [Clients -> AllOps \cup {"none"}]
          /\ info' \in [Clients -> SUBSET Infos]
          /\ joining' \in [Clients -> Workers \cup {NoThread}]
          /\ calls' \in [Clients -> 0 .. MaxOps]
      BY <1>4 DEF Join, IInv, TypeOK
    <3>4. QED
      BY <2>1, <2>2, <3>1, <3>2, <3>3, Zenon DEF TypeOK, FlagTypes
  <2>4. RefreshLocked' /\ CoreLocked'
    BY <1>4 DEF Join, SignalAndGoto, IInv, TypeOK, RefreshLocked, CoreLocked,
                InRefreshSection, InCoreSection
  <2>5. Joinable'
    BY <1>4 DEF Join, SignalAndGoto, IInv, TypeOK, Joinable
  <2>6. QED
    BY <2>3, <2>4, <2>5 DEF IInv
<1>5. QED
  BY <1>1, <1>2, <1>3, <1>4

(***************************************************************************)
(* The steps that take or release xh_core_refresh_mutex.                   *)
(***************************************************************************)
LEMMA RefreshMutexInv ==
  ASSUME IInv, NEW t \in Threads,
         \/ RefreshLock(t)
         \/ Touch(t)
         \/ EndRefresh(t)
  PROVE  IInv'
<1> USE DEF Goto, flags, worker, locks, signals, locals
<1> USE XhCoreAssumption DEF Threads
<1>1. CASE RefreshLock(t)
  <2>1. TypeOK'
    BY <1>1 DEF RefreshLock, IInv, TypeOK, Labels, AllOps, Actions, Joinable
  <2>2. RefreshLocked' /\ CoreLocked'
    BY <1>1 DEF RefreshLock, IInv, TypeOK, RefreshLocked, CoreLocked,
                InRefreshSection, InCoreSection
  <2>3. Joinable'
    BY <1>1 DEF RefreshLock, IInv, TypeOK, Joinable
  <2>4. QED
    BY <2>1, <2>2, <2>3 DEF IInv
<1>2. CASE Touch(t)
  <2>1. TypeOK'
    BY <1>2 DEF Touch, IInv, TypeOK, Labels, AllOps, Actions, Joinable
  <2>2. RefreshLocked' /\ CoreLocked'
    BY <1>2 DEF Touch, IInv, TypeOK, RefreshLocked, CoreLocked,
                InRefreshSection, InCoreSection
  <2>3. Joinable'
    BY <1>2 DEF Touch, IInv, TypeOK, Joinable
  <2>4. QED
    BY <2>1, <2>2, <2>3 DEF IInv
<1>3. CASE EndRefresh(t)
  <2>1. TypeOK'
    BY <1>3 DEF EndRefresh, IInv, TypeOK, Labels, AllOps, Actions, Joinable
  <2>2. RefreshLocked' /\ CoreLocked'
    BY <1>3 DEF EndRefresh, IInv, TypeOK, RefreshLocked, CoreLocked,
                InRefreshSection, InCoreSection
  <2>3. Joinable'
    BY <1>3 DEF EndRefresh, IInv, TypeOK, Joinable
  <2>4. QED
    BY <2>1, <2>2, <2>3 DEF IInv
<1>4. QED
  BY <1>1, <1>2, <1>3

(***************************************************************************)
(* The freeing at the end of xh_core_clear.                                *)
(***************************************************************************)
LEMMA FreeInv ==
  ASSUME IInv, NEW c \in Clients,
         \/ ClearRefreshLock(c)
         \/ FreeAll(c)
  PROVE  IInv'
<1> USE DEF Goto, flags, worker, locks, signals, locals
<1> USE XhCoreAssumption DEF Threads
<1>1. CASE ClearRefreshLock(c)
  <2>1. TypeOK'
    BY <1>1 DEF ClearRefreshLock, IInv, TypeOK, Labels, AllOps, Actions, Joinable
  <2>2. RefreshLocked' /\ CoreLocked'
    BY <1>1 DEF ClearRefreshLock, IInv, TypeOK, RefreshLocked, CoreLocked,
                InRefreshSection, InCoreSection
  <2>3. Joinable'
    BY <1>1 DEF ClearRefreshLock, IInv, TypeOK, Joinable
  <2>4. QED
    BY <2>1, <2>2, <2>3 DEF IInv
<1>2. CASE FreeAll(c)
  <2>1. TypeOK'
    BY <1>2 DEF FreeAll, IInv, TypeOK, Labels, AllOps, Actions, Joinable
  <2>2. RefreshLocked' /\ CoreLocked'
    BY <1>2 DEF FreeAll, IInv, TypeOK, RefreshLocked, CoreLocked,
                InRefreshSection, InCoreSection
  <2>3. Joinable'
    BY <1>2 DEF FreeAll, IInv, TypeOK, Joinable
  <2>4. QED
    BY <2>1, <2>2, <2>3 DEF IInv
<1>3. QED
  BY <1>1, <1>2

(***************************************************************************)
(* The loop of the worker.                                                 *)
(***************************************************************************)
LEMMA WorkerInv ==
  ASSUME IInv, NEW w \in Workers,
         \/ Loop(w)
         \/ Lock(w)
         \/ SpuriousWakeup(w)
  PROVE  IInv'
<1> USE DEF Goto, flags, worker, locks, signals, locals
<1> USE XhCoreAssumption DEF Threads
<1>1. CASE Loop(w)
  <2>1. TypeOK'
    BY <1>1 DEF Loop, IInv, TypeOK, Labels, AllOps, Actions, Joinable
  <2>2. RefreshLocked' /\ CoreLocked'
    BY <1>1 DEF Loop, IInv, TypeOK, RefreshLocked, CoreLocked,
                InRefreshSection, InCoreSection
  <2>3. Joinable'
    BY <1>1 DEF Loop, IInv, TypeOK, Joinable
  <2>4. QED
    BY <2>1, <2>2, <2>3 DEF IInv
<1>2. CASE Lock(w)
  <2>1. pc' \in [Threads -> Labels]
    BY <1>2 DEF Lock, IInv, TypeOK, Labels
  <2>2. \A d \in Clients : pc'[d] = "join" => joining'[d] # NoThread
    BY <1>2 DEF Lock, IInv, TypeOK, Joinable
  <2>3. TypeOK'
    <3>1. FlagTypes'
      BY <1>2, Zenon DEF Lock, IInv, TypeOK, FlagTypes
    <3>2. /\ tid' \in Workers \cup {NoThread}
          /\ mutex' \in Threads \cup {NoThread}
          /\ refreshMutex' \in Threads \cup {NoThread}
          /\ sigAction' \in Actions /\ sigOld' \in Actions
      BY <1>2 DEF Lock, IInv, TypeOK, Actions
    <3>3. /\ infos' \subseteq Infos
          /\ op' \in [Clients -> AllOps \cup {"none"}]
          /\ info' \in [Clients -> SUBSET Infos]
          /\ joining' \in [Clients -> Workers \cup {NoThread}]
          /\ calls' \in [Clients -> 0 .. MaxOps]
      BY <1>2 DEF Lock, IInv, TypeOK
    <3>4. QED
      BY <2>1, <2>2, <3>1, <3>2, <3>3, Zenon DEF TypeOK, FlagTypes
  <2>4. RefreshLocked' /\ CoreLocked'
    BY <1>2 DEF Lock, IInv, TypeOK, RefreshLocked, CoreLocked,
                InRefreshSection, InCoreSection
  <2>5. Joinable'
    BY <1>2 DEF Lock, IInv, TypeOK, Joinable
  <2>6. QED
    BY <2>3, <2>4, <2>5 DEF IInv
<1>3. CASE SpuriousWakeup(w)
  <2>1. TypeOK'
    BY <1>3 DEF SpuriousWakeup, IInv, TypeOK, Labels, AllOps, Actions, Joinable
  <2>2. RefreshLocked' /\ CoreLocked'
    BY <1>3 DEF SpuriousWakeup, IInv, TypeOK, RefreshLocked, CoreLocked,
                InRefreshSection, InCoreSection
  <2>3. Joinable'
    BY <1>3 DEF SpuriousWakeup, IInv, TypeOK, Joinable
  <2>4. QED
    BY <2>1, <2>2, <2>3 DEF IInv
<1>4. QED
  BY <1>1, <1>2, <1>3

(***************************************************************************)
(* A SIGSEGV that the handler does not expect.                             *)
(***************************************************************************)
LEMMA FaultInv ==
  ASSUME IInv, Fault
  PROVE  IInv'
<1> USE DEF flags, worker, locks, locals
<1>1. TypeOK'
  BY DEF Fault, IInv, TypeOK
<1>2. RefreshLocked' /\ CoreLocked' /\ Joinable'
  BY DEF Fault, IInv, RefreshLocked, CoreLocked, Joinable, InRefreshSection,
         InCoreSection
<1>3. QED
  BY <1>1, <1>2 DEF IInv

(***************************************************************************)
(* Every step of every thread preserves the invariant.                     *)
(***************************************************************************)
LEMMA StepInv == IInv /\ [Next]_vars => IInv'
<1> SUFFICES ASSUME IInv, [Next]_vars PROVE IInv'
  OBVIOUS
<1>1. CASE UNCHANGED vars
  BY <1>1 DEF vars, flags, worker, locks, signals, locals, IInv, TypeOK,
              RefreshLocked, CoreLocked, Joinable, InRefreshSection,
              InCoreSection
<1>2. ASSUME NEW c \in Clients, ClientStep(c) PROVE IInv'
  <2>1. c \in Threads
    BY DEF Threads
  <2>2. QED
    BY <1>2, <2>1, CallInv, FlagInv, CoreMutexInv, HandoverInv,
       RefreshMutexInv, FreeInv DEF ClientStep
<1>3. ASSUME NEW w \in Workers, WorkerStep(w) \/ SpuriousWakeup(w) PROVE IInv'
  <2>1. w \in Threads
    BY DEF Threads
  <2>2. QED
    BY <1>3, <2>1, RefreshMutexInv, WorkerInv DEF WorkerStep
<1>4. QED
  BY <1>1, <1>2, <1>3, FaultInv DEF Next

(***************************************************************************)
(* The invariant holds however many threads call the API, whichever        *)
(* operations they mix, and whether or not sigaction and pthread_create    *)
(* fail.                                                                   *)
(***************************************************************************)
THEOREM Invariance == Spec => []IInv
BY InitInv, StepInv, PTL DEF Spec

(***************************************************************************)
(* The state of xh_core.c keeps its shape, and pthread_join is only called *)
(* with the identifier of a thread that was created.                       *)
(***************************************************************************)
THEOREM TypeCorrect == Spec => []TypeOK
<1>1. IInv => TypeOK
  BY DEF IInv
<1>2. QED
  BY <1>1, Invariance, PTL

(***************************************************************************)
(* xh_core_clear frees nothing that a refresh is walking over, and two     *)
(* refreshes never run at once, for any number of threads.                 *)
(***************************************************************************)
THEOREM RefreshExclusive == Spec => []InUseAlone
BY LockedMeansAlone, Invariance, PTL

-----------------------------------------------------------------------------
(***************************************************************************)
(* Clients that wait for each other before they clear, and between         *)
(* registering and refreshing (Disciplined): where they can be at once.    *)
(***************************************************************************)
InRefresh == {"init", "addHandler", "checkInit", "asyncInited", "initAsync",
              "create", "checkAsync", "post", "refreshLock", "traverse",
              "protected", "bare"}

InClear == {"stop", "join", "resetAsync", "delHandler", "resetInited",
            "clearLock", "clearRefreshLock", "free"}

\* op says which call a client is in.
OpOf ==
  \A c \in Clients :
    \/ pc[c] = "idle"
    \/ pc[c] = "insert" /\ op[c] = "register"
    \/ pc[c] \in InRefresh /\ op[c] \in {"refresh", "refreshAsync"}
    \/ pc[c] \in InClear /\ op[c] = "clear"

Apart ==
  \A c, d \in Clients : c # d =>
    /\ pc[c] \in InClear => pc[d] = "idle"
    /\ pc[c] = "insert" => pc[d] \in {"idle", "insert"}

\* What the flags are while a client is at some place.
Stages ==
  \A c \in Clients :
    /\ pc[c] = "insert" => ~inited
    /\ pc[c] = "addHandler" => inited /\ ~initOk
    /\ pc[c] \in InRefresh \ {"init", "addHandler", "checkInit"} => initOk
    /\ pc[c] = "create" => asyncInited /\ ~asyncInitOk
    /\ pc[c] \in InClear \ {"stop", "join"} => ~asyncInitOk
    /\ pc[c] \in InClear \ {"stop", "join", "resetAsync", "delHandler"} => ~initOk

FlagsAgree ==
  /\ initOk => inited
  /\ asyncInitOk => asyncInited /\ initOk

\* The only worker there can be is the one that clear would join.
WorkerKnown == \A w \in Workers : pc[w] # "none" => asyncInitOk /\ tid = w

DInv == IInv /\ OpOf /\ Apart /\ Stages /\ FlagsAgree /\ WorkerKnown

\* The handler is xhook's exactly while the library is initialized and the
\* handler has not put the application's back.
Handler ==
  IF initOk /\ sigEnable
  THEN sigOld = "app" /\ sigAction = IF yielded THEN "app" ELSE "xhook"
  ELSE sigAction = "app"

ProtectionOn == \A t \in Threads : pc[t] = "protected" => sigEnable

HInv == DInv /\ Handler /\ ProtectionOn

(***************************************************************************)
(* Which calls of disciplined clients may overlap.                         *)
(***************************************************************************)
LEMMA OverlapRules ==
  /\ \A p : ~MayOverlap("clear", p)
  /\ \A p : MayOverlap("register", p) => p = "register"
  /\ \A o \in {"refresh", "refreshAsync"} : \A p :
       MayOverlap(o, p) => p \notin {"register", "clear"}
BY DEF MayOverlap, AllOps

\* A client goes on inside its call, or ends it.
Moves(c) ==
  /\ op' = op
  /\ \A d \in Clients \ {c} : pc'[d] = pc[d]
  /\ \/ pc'[c] = "idle"
     \/ pc[c] \in InRefresh /\ pc'[c] \in InRefresh
     \/ pc[c] \in InClear /\ pc'[c] \in InClear

LEMMA MovesOrder ==
  ASSUME OpOf, Apart, NEW c \in Clients, Moves(c)
  PROVE  OpOf' /\ Apart'
BY DEF OpOf, Apart, Moves, InRefresh, InClear

(***************************************************************************)
(* The first step of a call: discipline keeps the wrong ones out.          *)
(***************************************************************************)
LEMMA BeginOrder ==
  ASSUME Disciplined = TRUE, DInv, NEW c \in Clients,
         \/ Register(c) \/ RegisterRejected(c) \/ Refresh(c) \/ Clear(c)
         \/ EnableProtection(c)
  PROVE  OpOf' /\ Apart'
<1> USE XhCoreAssumption DEF Threads, Goto, locks, signals, flags
<1> DEFINE others(o) == \A d \in Clients : pc[d] # "idle" => MayOverlap(o, op[d])
<1> /\ pc \in [Threads -> Labels]
    /\ op \in [Clients -> AllOps \cup {"none"}]
  BY DEF DInv, IInv, TypeOK
<1>1. CASE Register(c)
  <2>1. /\ pc[c] = "idle" /\ others("register")
        /\ pc' = [pc EXCEPT ![c] = "insert"]
        /\ op' = [op EXCEPT ![c] = "register"]
    BY <1>1 DEF Register, Begin
  <2>2. \A d \in Clients : pc[d] # "idle" => op[d] = "register"
    BY <2>1, OverlapRules
  <2>3. \A d \in Clients : pc[d] \in {"idle", "insert"}
    BY <2>2 DEF DInv, OpOf
  <2>4. QED
    BY <2>1, <2>3 DEF DInv, OpOf, Apart, InClear
<1>2. CASE RegisterRejected(c) \/ EnableProtection(c)
  <2>1. \E o \in AllOps : /\ pc[c] = "idle" /\ pc' = pc
                          /\ op' = [op EXCEPT ![c] = o]
    BY <1>2 DEF RegisterRejected, EnableProtection, Begin, AllOps
  <2>2. QED
    BY <2>1 DEF DInv, OpOf, Apart
<1>3. CASE Refresh(c)
  <2>1. PICK o \in {"refresh", "refreshAsync"} :
          /\ pc[c] = "idle" /\ others(o)
          /\ op' = [op EXCEPT ![c] = o]
    BY <1>3 DEF Refresh, Begin
  <2>2. /\ pc' = [pc EXCEPT ![c] = IF inited THEN "checkInit" ELSE "init"]
    BY <1>3 DEF Refresh
  <2>3. \A d \in Clients : pc[d] # "idle" => op[d] \notin {"register", "clear"}
    BY <2>1, OverlapRules
  <2>4. \A d \in Clients : pc[d] \in {"idle"} \cup InRefresh
    BY <2>3 DEF DInv, OpOf
  <2>5. \A d \in Clients : pc'[d] \in {"idle"} \cup InRefresh
    BY <2>2, <2>4 DEF InRefresh
  <2>6. Apart'
    BY <2>5 DEF Apart, InClear, InRefresh
  <2>7. OpOf'
    BY <2>1, <2>2 DEF DInv, OpOf, InRefresh
  <2>8. QED
    BY <2>6, <2>7
<1>4. CASE Clear(c)
  <2>1. /\ pc[c] = "idle" /\ others("clear")
        /\ op' = [op EXCEPT ![c] = "clear"]
        /\ pc' = [pc EXCEPT ![c] = IF asyncInitOk THEN "stop" ELSE "resetAsync"]
    BY <1>4 DEF Clear, Begin
  <2>2. \A d \in Clients : pc[d] = "idle"
    BY <2>1, OverlapRules
  <2>3. QED
    BY <2>1, <2>2 DEF OpOf, Apart, InClear
<1>5. QED
  BY <1>1, <1>2, <1>3, <1>4

(***************************************************************************)
(* The later steps of a call stay inside it.                               *)
(***************************************************************************)
LEMMA LaterOrder ==
  ASSUME DInv, NEW c \in Clients,
         \/ Insert(c)
         \/ InitOnce(c) \/ AddHandler(c) \/ CheckInit(c) \/ CheckAsyncInited(c)
         \/ InitAsyncOnce(c) \/ Create(c) \/ CreateFails(c) \/ CheckAsync(c)
         \/ Post(c) \/ RefreshLock(c) \/ Touch(c) \/ EndRefresh(c)
         \/ Stop(c) \/ Join(c) \/ ResetAsync(c) \/ DelHandler(c)
         \/ ResetInited(c) \/ ClearLock(c) \/ ClearRefreshLock(c) \/ FreeAll(c)
  PROVE  OpOf' /\ Apart'
<1> USE XhCoreAssumption DEF Threads, Goto, SignalAndGoto, locals
<1> /\ pc \in [Threads -> Labels]
  BY DEF DInv, IInv, TypeOK
<1>1. CASE Insert(c)
  BY <1>1, MovesOrder DEF Insert, DInv, Moves
<1>2. CASE InitOnce(c)
  BY <1>2, MovesOrder DEF InitOnce, DInv, Moves, InRefresh
<1>3. CASE AddHandler(c)
  BY <1>3, MovesOrder DEF AddHandler, DInv, Moves, InRefresh
<1>4. CASE CheckInit(c)
  BY <1>4, MovesOrder DEF CheckInit, DInv, Moves, InRefresh
<1>5. CASE CheckAsyncInited(c)
  BY <1>5, MovesOrder DEF CheckAsyncInited, DInv, Moves, InRefresh
<1>6. CASE InitAsyncOnce(c)
  BY <1>6, MovesOrder DEF InitAsyncOnce, DInv, Moves, InRefresh
<1>7. CASE Create(c)
  BY <1>7, MovesOrder DEF Create, DInv, Moves, InRefresh
<1>8. CASE CreateFails(c)
  BY <1>8, MovesOrder DEF CreateFails, DInv, Moves, InRefresh
<1>9. CASE CheckAsync(c)
  BY <1>9, MovesOrder DEF CheckAsync, DInv, Moves, InRefresh
<1>10. CASE Post(c)
  BY <1>10, MovesOrder DEF Post, DInv, Moves, InRefresh
<1>11. CASE RefreshLock(c)
  BY <1>11, MovesOrder DEF RefreshLock, DInv, Moves, InRefresh
<1>12. CASE Touch(c)
  BY <1>12, MovesOrder DEF Touch, DInv, Moves, InRefresh
<1>13. CASE EndRefresh(c)
  BY <1>13, MovesOrder DEF EndRefresh, DInv, Moves, InRefresh
<1>14. CASE Stop(c)
  BY <1>14, MovesOrder DEF Stop, DInv, Moves, InClear
<1>15. CASE Join(c)
  <2>1. joining[c] \in Workers
    BY <1>15 DEF Join, DInv, IInv, TypeOK
  <2>2. Moves(c)
    BY <1>15, <2>1 DEF Join, Moves, InClear
  <2>3. QED
    BY <2>2, MovesOrder DEF DInv
<1>16. CASE ResetAsync(c)
  BY <1>16, MovesOrder DEF ResetAsync, DInv, Moves, InClear
<1>17. CASE DelHandler(c)
  BY <1>17, MovesOrder DEF DelHandler, DInv, Moves, InClear
<1>18. CASE ResetInited(c)
  BY <1>18, MovesOrder DEF ResetInited, DInv, Moves, InClear
<1>19. CASE ClearLock(c)
  BY <1>19, MovesOrder DEF ClearLock, DInv, Moves, InClear
<1>20. CASE ClearRefreshLock(c)
  BY <1>20, MovesOrder DEF ClearRefreshLock, DInv, Moves, InClear
<1>21. CASE FreeAll(c)
  BY <1>21, MovesOrder DEF FreeAll, DInv, Moves, InClear
<1>22. QED
  BY <1>1, <1>2, <1>3, <1>4, <1>5, <1>6, <1>7, <1>8, <1>9,
     <1>10, <1>11, <1>12, <1>13, <1>14, <1>15, <1>16, <1>17, <1>18,
     <1>19, <1>20, <1>21

(***************************************************************************)
(* The flags at the beginning and the end of a call.                       *)
(***************************************************************************)
LEMMA BeginFlags ==
  ASSUME DInv, NEW c \in Clients,
         \/ Register(c) \/ RegisterRejected(c) \/ Insert(c)
         \/ Refresh(c) \/ Clear(c) \/ EnableProtection(c)
  PROVE  Stages' /\ FlagsAgree' /\ WorkerKnown'
<1> USE XhCoreAssumption DEF Threads, Goto, Begin, flags, worker, locks, signals,
        locals
<1> /\ pc \in [Threads -> Labels]
  BY DEF DInv, IInv, TypeOK
<1>1. CASE Register(c)
  <2>1. Stages'
    BY <1>1 DEF Register, DInv, Stages, FlagsAgree, Apart, InClear, InRefresh,
               IInv, CoreLocked, InCoreSection
  <2>2. FlagsAgree' /\ WorkerKnown'
    BY <1>1 DEF Register, DInv, Stages, FlagsAgree, WorkerKnown, InClear, InRefresh
  <2>3. QED
    BY <2>1, <2>2
<1>2. CASE RegisterRejected(c)
  <2>1. Stages'
    BY <1>2 DEF RegisterRejected, DInv, Stages, FlagsAgree, Apart, InClear, InRefresh,
               IInv, CoreLocked, InCoreSection
  <2>2. FlagsAgree' /\ WorkerKnown'
    BY <1>2 DEF RegisterRejected, DInv, Stages, FlagsAgree, WorkerKnown, InClear, InRefresh
  <2>3. QED
    BY <2>1, <2>2
<1>3. CASE Insert(c)
  <2>1. Stages'
    BY <1>3 DEF Insert, DInv, Stages, FlagsAgree, Apart, InClear, InRefresh,
               IInv, CoreLocked, InCoreSection
  <2>2. FlagsAgree' /\ WorkerKnown'
    BY <1>3 DEF Insert, DInv, Stages, FlagsAgree, WorkerKnown, InClear, InRefresh
  <2>3. QED
    BY <2>1, <2>2
<1>4. CASE Refresh(c)
  <2>1. Stages'
    BY <1>4 DEF Refresh, DInv, Stages, FlagsAgree, Apart, InClear, InRefresh,
               IInv, CoreLocked, InCoreSection
  <2>2. FlagsAgree' /\ WorkerKnown'
    BY <1>4 DEF Refresh, DInv, Stages, FlagsAgree, WorkerKnown, InClear, InRefresh
  <2>3. QED
    BY <2>1, <2>2
<1>5. CASE Clear(c)
  <2>1. Stages'
    BY <1>5 DEF Clear, DInv, Stages, FlagsAgree, Apart, InClear, InRefresh,
               IInv, CoreLocked, InCoreSection
  <2>2. FlagsAgree' /\ WorkerKnown'
    BY <1>5 DEF Clear, DInv, Stages, FlagsAgree, WorkerKnown, InClear, InRefresh
  <2>3. QED
    BY <2>1, <2>2
<1>6. CASE EnableProtection(c)
  <2>1. Stages'
    BY <1>6 DEF EnableProtection, DInv, Stages, FlagsAgree, Apart, InClear, InRefresh,
               IInv, CoreLocked, InCoreSection
  <2>2. FlagsAgree' /\ WorkerKnown'
    BY <1>6 DEF EnableProtection, DInv, Stages, FlagsAgree, WorkerKnown, InClear, InRefresh
  <2>3. QED
    BY <2>1, <2>2
<1>7. QED
  BY <1>1, <1>2, <1>3, <1>4, <1>5, <1>6

(***************************************************************************)
(* Initialization: what double-checked locking gives to disciplined        *)
(* clients.                                                                *)
(***************************************************************************)
LEMMA InitFlags ==
  ASSUME DInv, NEW c \in Clients,
         \/ InitOnce(c) \/ AddHandler(c) \/ CheckInit(c)
         \/ CheckAsyncInited(c) \/ InitAsyncOnce(c) \/ Create(c)
         \/ CreateFails(c) \/ CheckAsync(c) \/ Post(c)
  PROVE  Stages' /\ FlagsAgree' /\ WorkerKnown'
<1> USE XhCoreAssumption DEF Threads, Goto, Begin, flags, worker, locks, signals,
        locals
<1> /\ pc \in [Threads -> Labels]
  BY DEF DInv, IInv, TypeOK
<1>1. CASE InitOnce(c)
  <2>1. Stages'
    BY <1>1 DEF InitOnce, DInv, Stages, FlagsAgree, Apart, InClear, InRefresh,
               IInv, CoreLocked, InCoreSection
  <2>2. FlagsAgree' /\ WorkerKnown'
    BY <1>1 DEF InitOnce, DInv, Stages, FlagsAgree, WorkerKnown, InClear, InRefresh
  <2>3. QED
    BY <2>1, <2>2
<1>2. CASE AddHandler(c)
  <2>1. Stages'
    BY <1>2 DEF AddHandler, DInv, Stages, FlagsAgree, Apart, InClear, InRefresh,
               IInv, CoreLocked, InCoreSection
  <2>2. FlagsAgree' /\ WorkerKnown'
    BY <1>2 DEF AddHandler, DInv, Stages, FlagsAgree, WorkerKnown, InClear, InRefresh
  <2>3. QED
    BY <2>1, <2>2
<1>3. CASE CheckInit(c)
  <2>1. Stages'
    BY <1>3 DEF CheckInit, DInv, Stages, FlagsAgree, Apart, InClear, InRefresh,
               IInv, CoreLocked, InCoreSection
  <2>2. FlagsAgree' /\ WorkerKnown'
    BY <1>3 DEF CheckInit, DInv, Stages, FlagsAgree, WorkerKnown, InClear, InRefresh
  <2>3. QED
    BY <2>1, <2>2
<1>4. CASE CheckAsyncInited(c)
  <2>1. Stages'
    BY <1>4 DEF CheckAsyncInited, DInv, Stages, FlagsAgree, Apart, InClear, InRefresh,
               IInv, CoreLocked, InCoreSection
  <2>2. FlagsAgree' /\ WorkerKnown'
    BY <1>4 DEF CheckAsyncInited, DInv, Stages, FlagsAgree, WorkerKnown, InClear, InRefresh
  <2>3. QED
    BY <2>1, <2>2
<1>5. CASE InitAsyncOnce(c)
  <2>1. Stages'
    BY <1>5 DEF InitAsyncOnce, DInv, Stages, FlagsAgree, Apart, InClear, InRefresh,
               IInv, CoreLocked, InCoreSection
  <2>2. FlagsAgree' /\ WorkerKnown'
    BY <1>5 DEF InitAsyncOnce, DInv, Stages, FlagsAgree, WorkerKnown, InClear, InRefresh
  <2>3. QED
    BY <2>1, <2>2
<1>6. CASE Create(c)
  <2>1. Stages'
    BY <1>6 DEF Create, DInv, Stages, FlagsAgree, Apart, InClear, InRefresh,
               IInv, CoreLocked, InCoreSection
  <2>2. FlagsAgree' /\ WorkerKnown'
    BY <1>6 DEF Create, DInv, Stages, FlagsAgree, WorkerKnown, InClear, InRefresh
  <2>3. QED
    BY <2>1, <2>2
<1>7. CASE CreateFails(c)
  <2>1. Stages'
    BY <1>7 DEF CreateFails, DInv, Stages, FlagsAgree, Apart, InClear, InRefresh,
               IInv, CoreLocked, InCoreSection
  <2>2. FlagsAgree' /\ WorkerKnown'
    BY <1>7 DEF CreateFails, DInv, Stages, FlagsAgree, WorkerKnown, InClear, InRefresh
  <2>3. QED
    BY <2>1, <2>2
<1>8. CASE CheckAsync(c)
  <2>1. Stages'
    BY <1>8 DEF CheckAsync, DInv, Stages, FlagsAgree, Apart, InClear, InRefresh,
               IInv, CoreLocked, InCoreSection
  <2>2. FlagsAgree' /\ WorkerKnown'
    BY <1>8 DEF CheckAsync, DInv, Stages, FlagsAgree, WorkerKnown, InClear, InRefresh
  <2>3. QED
    BY <2>1, <2>2
<1>9. CASE Post(c)
  <2>1. Stages'
    BY <1>9 DEF Post, SignalAndGoto, DInv, Stages, FlagsAgree, Apart, InClear, InRefresh,
               IInv, CoreLocked, InCoreSection
  <2>2. FlagsAgree' /\ WorkerKnown'
    BY <1>9 DEF Post, SignalAndGoto, DInv, Stages, FlagsAgree, WorkerKnown, InClear, InRefresh
  <2>3. QED
    BY <2>1, <2>2
<1>10. QED
  BY <1>1, <1>2, <1>3, <1>4, <1>5, <1>6, <1>7, <1>8, <1>9

(***************************************************************************)
(* The steps of xh_core_clear, which is then alone.                        *)
(***************************************************************************)
LEMMA ClearFlags ==
  ASSUME DInv, NEW c \in Clients,
         \/ Stop(c) \/ Join(c) \/ ResetAsync(c)
         \/ DelHandler(c) \/ ResetInited(c) \/ ClearLock(c)
         \/ ClearRefreshLock(c) \/ FreeAll(c)
  PROVE  Stages' /\ FlagsAgree' /\ WorkerKnown'
<1> USE XhCoreAssumption DEF Threads, Goto, Begin, flags, worker, locks, signals,
        locals
<1> /\ pc \in [Threads -> Labels]
  BY DEF DInv, IInv, TypeOK
<1>1. CASE Stop(c)
  <2>1. Stages'
    BY <1>1 DEF Stop, SignalAndGoto, DInv, Stages, FlagsAgree, Apart, InClear, InRefresh,
               IInv, CoreLocked, InCoreSection
  <2>2. FlagsAgree' /\ WorkerKnown'
    BY <1>1 DEF Stop, SignalAndGoto, DInv, Stages, FlagsAgree, WorkerKnown, InClear, InRefresh
  <2>3. QED
    BY <2>1, <2>2
<1>2. CASE Join(c)
  <2>1. joining[c] \in Workers /\ tid = joining[c]
    BY <1>2 DEF Join, DInv, IInv, TypeOK, WorkerKnown
  <2>2. Stages' /\ FlagsAgree'
    BY <1>2, <2>1 DEF Join, DInv, Stages, FlagsAgree, Apart, InClear, InRefresh
  <2>3. WorkerKnown'
    BY <1>2, <2>1 DEF Join, DInv, WorkerKnown
  <2>4. QED
    BY <2>2, <2>3
<1>3. CASE ResetAsync(c)
  <2>1. Stages'
    BY <1>3 DEF ResetAsync, DInv, Stages, FlagsAgree, Apart, InClear, InRefresh,
               IInv, CoreLocked, InCoreSection
  <2>2. FlagsAgree' /\ WorkerKnown'
    BY <1>3 DEF ResetAsync, DInv, Stages, FlagsAgree, WorkerKnown, InClear, InRefresh
  <2>3. QED
    BY <2>1, <2>2
<1>4. CASE DelHandler(c)
  <2>1. Stages'
    BY <1>4 DEF DelHandler, DInv, Stages, FlagsAgree, Apart, InClear, InRefresh,
               IInv, CoreLocked, InCoreSection
  <2>2. FlagsAgree' /\ WorkerKnown'
    BY <1>4 DEF DelHandler, DInv, Stages, FlagsAgree, WorkerKnown, InClear, InRefresh
  <2>3. QED
    BY <2>1, <2>2
<1>5. CASE ResetInited(c)
  <2>1. Stages'
    BY <1>5 DEF ResetInited, DInv, Stages, FlagsAgree, Apart, InClear, InRefresh,
               IInv, CoreLocked, InCoreSection
  <2>2. FlagsAgree' /\ WorkerKnown'
    BY <1>5 DEF ResetInited, DInv, Stages, FlagsAgree, WorkerKnown, InClear, InRefresh
  <2>3. QED
    BY <2>1, <2>2
<1>6. CASE ClearLock(c)
  <2>1. Stages'
    BY <1>6 DEF ClearLock, DInv, Stages, FlagsAgree, Apart, InClear, InRefresh,
               IInv, CoreLocked, InCoreSection
  <2>2. FlagsAgree' /\ WorkerKnown'
    BY <1>6 DEF ClearLock, DInv, Stages, FlagsAgree, WorkerKnown, InClear, InRefresh
  <2>3. QED
    BY <2>1, <2>2
<1>7. CASE ClearRefreshLock(c)
  <2>1. Stages'
    BY <1>7 DEF ClearRefreshLock, DInv, Stages, FlagsAgree, Apart, InClear, InRefresh,
               IInv, CoreLocked, InCoreSection
  <2>2. FlagsAgree' /\ WorkerKnown'
    BY <1>7 DEF ClearRefreshLock, DInv, Stages, FlagsAgree, WorkerKnown, InClear, InRefresh
  <2>3. QED
    BY <2>1, <2>2
<1>8. CASE FreeAll(c)
  <2>1. Stages'
    BY <1>8 DEF FreeAll, DInv, Stages, FlagsAgree, Apart, InClear, InRefresh,
               IInv, CoreLocked, InCoreSection
  <2>2. FlagsAgree' /\ WorkerKnown'
    BY <1>8 DEF FreeAll, DInv, Stages, FlagsAgree, WorkerKnown, InClear, InRefresh
  <2>3. QED
    BY <2>1, <2>2
<1>9. QED
  BY <1>1, <1>2, <1>3, <1>4, <1>5, <1>6, <1>7, <1>8

(***************************************************************************)
(* The steps of a refresh, by a client or the worker, and of the worker    *)
(* change no flag but the one for the next refresh.                        *)
(***************************************************************************)
LEMMA RefreshFlags ==
  ASSUME DInv, NEW t \in Threads,
         \/ RefreshLock(t) \/ Touch(t) \/ EndRefresh(t)
         \/ t \in Workers /\ (Loop(t) \/ Lock(t) \/ SpuriousWakeup(t))
  PROVE  Stages' /\ FlagsAgree' /\ WorkerKnown' /\ (t \in Workers => OpOf' /\ Apart')
<1> USE XhCoreAssumption DEF Threads, Goto, flags, worker, locks, signals, locals
<1> /\ pc \in [Threads -> Labels]
  BY DEF DInv, IInv, TypeOK
<1> DEFINE Steps ==
      /\ UNCHANGED <<inited, initOk, asyncInited, asyncInitOk, tid, op>>
      /\ \A u \in Threads \ {t} : pc'[u] = pc[u]
<1>1. CASE RefreshLock(t) \/ Touch(t) \/ EndRefresh(t)
  <2>1. /\ Steps
        /\ pc[t] \in {"refreshLock", "traverse", "protected", "bare"}
        /\ pc'[t] \in {"traverse", "protected", "bare", "idle", "loop"}
        /\ t \in Clients => pc'[t] # "loop"
    BY <1>1 DEF RefreshLock, Touch, EndRefresh
  <2>2. QED
    BY <2>1 DEF DInv, Stages, FlagsAgree, WorkerKnown, OpOf, Apart, InClear, InRefresh
<1>2. CASE t \in Workers /\ (Loop(t) \/ Lock(t) \/ SpuriousWakeup(t))
  <2>1. Steps /\ pc[t] # "none"
    BY <1>2 DEF Loop, Lock, SpuriousWakeup
  <2>2. QED
    BY <1>2, <2>1 DEF DInv, Stages, FlagsAgree, WorkerKnown, OpOf, Apart
<1>3. QED
  BY <1>1, <1>2

LEMMA DInit == Init => DInv
<1> SUFFICES ASSUME Init PROVE DInv
  OBVIOUS
<1>1. \A t \in Threads : pc[t] = IF t \in Clients THEN "idle" ELSE "none"
  BY DEF Init
<1>2. OpOf /\ Apart /\ Stages /\ WorkerKnown
  BY <1>1, XhCoreAssumption DEF OpOf, Apart, Stages, WorkerKnown, Threads, InClear,
     InRefresh
<1>3. FlagsAgree
  BY DEF Init, FlagsAgree
<1>4. QED
  BY <1>2, <1>3, InitInv DEF DInv

LEMMA DStep == Disciplined = TRUE /\ DInv /\ [Next]_vars => DInv'
<1> SUFFICES ASSUME Disciplined = TRUE, DInv, [Next]_vars PROVE DInv'
  OBVIOUS
<1>1. IInv'
  BY StepInv DEF DInv
<1>2. CASE UNCHANGED vars
  <2>1. (OpOf /\ Apart /\ Stages /\ FlagsAgree /\ WorkerKnown)'
    BY <1>2 DEF vars, flags, worker, locals, DInv, OpOf, Apart, Stages, FlagsAgree,
                WorkerKnown
  <2>2. QED
    BY <1>1, <2>1 DEF DInv
<1>3. ASSUME NEW c \in Clients, ClientStep(c) PROVE DInv'
  <2>1. c \in Threads
    BY DEF Threads
  <2>2. OpOf' /\ Apart'
    BY <1>3, BeginOrder, LaterOrder DEF ClientStep
  <2>3. Stages' /\ FlagsAgree' /\ WorkerKnown'
    BY <1>3, <2>1, BeginFlags, InitFlags, ClearFlags, RefreshFlags DEF ClientStep
  <2>4. QED
    BY <1>1, <2>2, <2>3 DEF DInv
<1>4. ASSUME NEW w \in Workers, WorkerStep(w) \/ SpuriousWakeup(w) PROVE DInv'
  <2>1. w \in Threads
    BY DEF Threads
  <2>2. OpOf' /\ Apart' /\ Stages' /\ FlagsAgree' /\ WorkerKnown'
    BY <1>4, <2>1, RefreshFlags DEF WorkerStep
  <2>3. QED
    BY <1>1, <2>2 DEF DInv
<1>5. CASE Fault
  <2>1. (OpOf /\ Apart /\ Stages /\ FlagsAgree /\ WorkerKnown)'
    BY <1>5 DEF Fault, flags, worker, locals, DInv, OpOf, Apart, Stages,
                FlagsAgree, WorkerKnown
  <2>2. QED
    BY <1>1, <2>1 DEF DInv
<1>6. QED
  BY <1>2, <1>3, <1>4, <1>5 DEF Next

(***************************************************************************)
(* The flags, the places of the threads and the worker stay consistent     *)
(* for any number of disciplined clients.                                  *)
(***************************************************************************)
THEOREM DisciplinedInvariance ==
  ASSUME Disciplined = TRUE PROVE Spec => []DInv
<1>1. DInv /\ [Next]_vars => DInv'
  BY DStep
<1>2. QED
  BY <1>1, DInit, PTL DEF Spec

(***************************************************************************)
(* Double-checked initialization creates one worker at a time, and the one *)
(* that xh_core_clear will join, whatever sigaction and pthread_create     *)
(* return, when nothing overlaps with a clear.                             *)
(***************************************************************************)
THEOREM WorkerIsAlone == ASSUME Disciplined = TRUE PROVE Spec => []OneWorker
<1>1. DInv => OneWorker
  BY DEF DInv, WorkerKnown, OneWorker
<1>2. QED
  BY <1>1, DisciplinedInvariance, PTL

(***************************************************************************)
(* After xh_core_clear no worker is left.                                  *)
(***************************************************************************)
THEOREM WorkerIsStopped == ASSUME Disciplined = TRUE PROVE Spec => []WorkerStopped
<1>1. DInv => WorkerStopped
  BY DEF DInv, WorkerKnown, FlagsAgree, WorkerStopped
<1>2. QED
  BY <1>1, DisciplinedInvariance, PTL

(***************************************************************************)
(* Nothing is inserted into the lists or freed during a walk: the worker   *)
(* and the clients refresh only when the library is initialized, and then  *)
(* nothing more is registered.                                             *)
(***************************************************************************)
LEMMA WalksAlone ==
  DInv /\ [Next]_vars =>
    [(\E t \in Threads : Traversing(t)) => infos' = infos]_vars
<1> SUFFICES ASSUME DInv, Next, NEW t \in Threads, Traversing(t) PROVE infos' = infos
  OBVIOUS
<1> USE DEF flags, worker, locks, signals, locals
<1>1. ASSUME NEW c \in Clients, Insert(c) PROVE FALSE
  <2>1. pc[c] = "insert" /\ ~inited
    BY <1>1 DEF Insert, DInv, Stages
  <2>2. ~initOk /\ ~asyncInitOk
    BY <2>1 DEF DInv, FlagsAgree
  <2>3. CASE t \in Clients
    BY <2>1, <2>2, <2>3 DEF DInv, Stages, Traversing, InRefresh
  <2>4. CASE t \in Workers
    BY <2>2, <2>4 DEF DInv, WorkerKnown, Traversing
  <2>5. QED
    BY <2>3, <2>4 DEF Threads
<1>2. ASSUME NEW c \in Clients, FreeAll(c) PROVE FALSE
  <2>1. InUseAlone /\ c \in Threads /\ pc[c] = "free"
    BY <1>2, LockedMeansAlone DEF DInv, Threads, FreeAll
  <2>2. c = t
    BY <2>1 DEF InUseAlone
  <2>3. QED
    BY <2>1, <2>2 DEF Traversing
<1>3. ASSUME NEW c \in Clients, ClientStep(c) PROVE infos' = infos
  BY <1>1, <1>2, <1>3 DEF ClientStep, Register, RegisterRejected, Refresh, InitOnce,
     AddHandler, CheckInit, CheckAsyncInited, InitAsyncOnce, Create, CreateFails,
     CheckAsync, Post, RefreshLock, Touch, EndRefresh, Clear, Stop, Join,
     ResetAsync, DelHandler, ResetInited, ClearLock, ClearRefreshLock,
     EnableProtection
<1>4. ASSUME NEW w \in Workers, WorkerStep(w) \/ SpuriousWakeup(w)
      PROVE  infos' = infos
  BY <1>4 DEF WorkerStep, Loop, Lock, SpuriousWakeup, RefreshLock, Touch, EndRefresh
<1>5. QED
  BY <1>3, <1>4 DEF Next, Fault

THEOREM ListsStayFrozen == ASSUME Disciplined = TRUE PROVE Spec => ListsFrozen
<1>1. DInv /\ [Next]_vars =>
        [(\E t \in Threads : Traversing(t)) => infos' = infos]_vars
  BY WalksAlone
<1>2. QED
  BY <1>1, DisciplinedInvariance, PTL DEF Spec, ListsFrozen

-----------------------------------------------------------------------------
(***************************************************************************)
(* The handler for SIGSEGV, when the protection is not switched while the  *)
(* library is initialized.                                                 *)
(***************************************************************************)
LEMMA HInit == Init => HInv
<1> SUFFICES ASSUME Init PROVE HInv
  OBVIOUS
<1>1. Handler /\ ProtectionOn
  BY DEF Init, Handler, ProtectionOn
<1>2. QED
  BY <1>1, DInit DEF HInv

\* Memory is touched under protection only while xhook's handler is there, or
\* has given its place back.
LEMMA ProtectedMeansInstalled ==
  ASSUME HInv, NEW t \in Threads, pc[t] = "protected"
  PROVE  /\ initOk /\ sigEnable
         /\ sigAction = IF yielded THEN "app" ELSE "xhook"
<1>1. initOk
  <2>1. CASE t \in Clients
    BY <2>1 DEF HInv, DInv, Stages, InRefresh
  <2>2. CASE t \in Workers
    BY <2>2 DEF HInv, DInv, WorkerKnown, FlagsAgree
  <2>3. QED
    BY <2>1, <2>2 DEF Threads
<1>2. QED
  BY <1>1 DEF HInv, ProtectionOn, Handler

\* The four actions that have to do with the handler.
LEMMA SignalStep ==
  ASSUME SwitchInited = FALSE, HInv, NEW t \in Threads,
         \/ t \in Clients /\ (AddHandler(t) \/ DelHandler(t) \/ EnableProtection(t))
         \/ Touch(t)
  PROVE  Handler' /\ ProtectionOn'
<1> USE DEF Goto, flags, worker, locks, signals, locals
<1> /\ pc \in [Threads -> Labels] /\ sigEnable \in BOOLEAN /\ initOk \in BOOLEAN
  BY DEF HInv, DInv, IInv, TypeOK
<1>1. CASE t \in Clients /\ AddHandler(t)
  <2>1. ~initOk
    BY <1>1 DEF AddHandler, HInv, DInv, Stages
  <2>2. Handler'
    BY <1>1, <2>1 DEF AddHandler, HInv, Handler
  <2>3. ProtectionOn'
    BY <1>1 DEF AddHandler, HInv, ProtectionOn
  <2>4. QED
    BY <2>2, <2>3
<1>2. CASE t \in Clients /\ DelHandler(t)
  BY <1>2 DEF DelHandler, HInv, Handler, ProtectionOn
<1>3. CASE t \in Clients /\ EnableProtection(t)
  <2>1. ~initOk
    BY <1>3 DEF EnableProtection, HInv, DInv, FlagsAgree
  <2>2. \A u \in Threads : pc[u] # "protected"
    BY <2>1, ProtectedMeansInstalled
  <2>3. QED
    BY <1>3, <2>1, <2>2 DEF EnableProtection, HInv, Handler, ProtectionOn
<1>4. CASE Touch(t)
  BY <1>4 DEF Touch, HInv, Handler, ProtectionOn
<1>5. QED
  BY <1>1, <1>2, <1>3, <1>4

\* All others leave the handler alone and nobody inside sigsetjmp.
LEMMA OtherStep ==
  ASSUME HInv, NEW t \in Threads,
         \/ t \in Clients /\ (Register(t) \/ RegisterRejected(t) \/ Insert(t)
               \/ Refresh(t) \/ InitOnce(t) \/ CheckInit(t) \/ CheckAsyncInited(t)
               \/ InitAsyncOnce(t) \/ CreateFails(t) \/ CheckAsync(t))
         \/ t \in Clients /\ (Clear(t) \/ ResetAsync(t) \/ ResetInited(t)
               \/ ClearLock(t) \/ ClearRefreshLock(t) \/ FreeAll(t))
         \/ t \in Clients /\ (Create(t) \/ Post(t) \/ Stop(t) \/ Join(t))
         \/ RefreshLock(t) \/ EndRefresh(t)
         \/ t \in Workers /\ (Loop(t) \/ Lock(t) \/ SpuriousWakeup(t))
  PROVE  Handler' /\ ProtectionOn'
<1> USE DEF Goto, SignalAndGoto, flags, worker, locks, signals, locals
<1> /\ pc \in [Threads -> Labels]
  BY DEF HInv, DInv, IInv, TypeOK
<1>1. UNCHANGED <<initOk, sigEnable, sigAction, sigOld, yielded>>
  BY DEF Register, RegisterRejected, Insert, Refresh, InitOnce, CheckInit,
     CheckAsyncInited, InitAsyncOnce, Create, CreateFails, CheckAsync, Post,
     Clear, Stop, Join, ResetAsync, ResetInited, ClearLock, ClearRefreshLock,
     FreeAll, RefreshLock, EndRefresh, Loop, Lock, SpuriousWakeup
<1>2. \A u \in Threads : pc'[u] = "protected" => pc[u] = "protected"
  <2>1. CASE t \in Clients /\ (Register(t) \/ RegisterRejected(t) \/ Insert(t)
               \/ Refresh(t) \/ InitOnce(t) \/ CheckInit(t) \/ CheckAsyncInited(t)
               \/ InitAsyncOnce(t) \/ CreateFails(t) \/ CheckAsync(t))
    BY <2>1 DEF Register, RegisterRejected, Insert, Refresh, InitOnce, CheckInit,
       CheckAsyncInited, InitAsyncOnce, CreateFails, CheckAsync
  <2>2. CASE t \in Clients /\ (Clear(t) \/ ResetAsync(t) \/ ResetInited(t)
               \/ ClearLock(t) \/ ClearRefreshLock(t) \/ FreeAll(t))
    BY <2>2 DEF Clear, ResetAsync, ResetInited, ClearLock, ClearRefreshLock, FreeAll
  <2>3. CASE t \in Clients /\ (Create(t) \/ Post(t) \/ Stop(t) \/ Join(t))
    <3>1. CASE Create(t)
      BY <2>3, <3>1 DEF Create
    <3>2. CASE Post(t) \/ Stop(t)
      BY <2>3, <3>2 DEF Post, Stop
    <3>3. CASE Join(t)
      <4>1. /\ joining[t] \in Threads
            /\ pc' = [pc EXCEPT ![joining[t]] = "none", ![t] = "resetAsync"]
        BY <2>3, <3>3 DEF Join, HInv, DInv, IInv, TypeOK, Threads
      <4>2. \A u \in Threads : pc'[u] \in {"none", "resetAsync", pc[u]}
        BY <4>1
      <4>3. QED
        BY <4>2
    <3>4. QED
      BY <2>3, <3>1, <3>2, <3>3
  <2>4. CASE RefreshLock(t) \/ EndRefresh(t)
    BY <2>4 DEF RefreshLock, EndRefresh
  <2>5. CASE t \in Workers /\ (Loop(t) \/ Lock(t) \/ SpuriousWakeup(t))
    BY <2>5 DEF Loop, Lock, SpuriousWakeup
  <2>6. QED
    BY <2>1, <2>2, <2>3, <2>4, <2>5
<1>3. QED
  BY <1>1, <1>2 DEF HInv, Handler, ProtectionOn

LEMMA HStep ==
  Disciplined = TRUE /\ SwitchInited = FALSE /\ HInv /\ [Next]_vars => HInv'
<1> SUFFICES ASSUME Disciplined = TRUE, SwitchInited = FALSE, HInv, [Next]_vars
             PROVE  HInv'
  OBVIOUS
<1>1. DInv'
  BY DStep DEF HInv
<1>2. CASE UNCHANGED vars
  BY <1>1, <1>2 DEF vars, flags, signals, HInv, Handler, ProtectionOn
<1>3. ASSUME NEW c \in Clients, ClientStep(c) PROVE Handler' /\ ProtectionOn'
  <2>1. c \in Threads
    BY DEF Threads
  <2>2. QED
    BY <1>3, <2>1, SignalStep, OtherStep DEF ClientStep
<1>4. ASSUME NEW w \in Workers, WorkerStep(w) \/ SpuriousWakeup(w)
      PROVE  Handler' /\ ProtectionOn'
  <2>1. w \in Threads
    BY DEF Threads
  <2>2. QED
    BY <1>4, <2>1, SignalStep, OtherStep DEF WorkerStep
<1>5. CASE Fault
  BY <1>1, <1>5 DEF Fault, flags, HInv, Handler, ProtectionOn
<1>6. QED
  BY <1>1, <1>2, <1>3, <1>4, <1>5 DEF Next, HInv

THEOREM HandlerInvariance ==
  ASSUME Disciplined = TRUE, SwitchInited = FALSE PROVE Spec => []HInv
<1>1. HInv /\ [Next]_vars => HInv'
  BY HStep
<1>2. QED
  BY <1>1, HInit, PTL DEF Spec

(***************************************************************************)
(* The memory of a library is touched inside sigsetjmp only while xhook's  *)
(* handler is installed, by clients and the worker alike, although         *)
(* xh_core_clear takes the handler away without a mutex, unless a SIGSEGV  *)
(* outside of these sections made the handler put back the application's   *)
(* action (xh_core.c:98): then that is in place until the next clear.      *)
(***************************************************************************)
THEOREM HandlerWhenNeeded ==
  ASSUME Disciplined = TRUE, SwitchInited = FALSE
  PROVE  Spec => []ProtectedInstalled
<1>1. HInv => ProtectedInstalled
  BY ProtectedMeansInstalled DEF ProtectedInstalled
<1>2. QED
  BY <1>1, HandlerInvariance, PTL

(***************************************************************************)
(* After xh_core_clear the application's handler is back, whichever calls  *)
(* were made and signals arrived before, whatever failed in them and       *)
(* whether or not the protection was on.                                   *)
(***************************************************************************)
THEOREM HandlerRestored ==
  ASSUME Disciplined = TRUE, SwitchInited = FALSE
  PROVE  Spec => []SigRestored
<1>1. HInv => SigRestored
  BY DEF HInv, Handler, DInv, FlagsAgree, SigRestored
<1>2. QED
  BY <1>1, HandlerInvariance, PTL
=============================================================================
