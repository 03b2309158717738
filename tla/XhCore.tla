-------------------------------- MODULE XhCore --------------------------------
(***************************************************************************)
(* The control of xhook's core (xh_core.c): application threads register   *)
(* hooks, refresh, clear and toggle the SIGSEGV protection, and a worker   *)
(* thread does the asynchronous refreshes.  xh_core_inited,                *)
(* xh_core_init_ok and their asynchronous counterparts are volatile ints   *)
(* that are read outside the mutex.  A step is one access to shared state  *)
(* or one critical section; the sections in which another thread can see   *)
(* an intermediate value hold the mutex over several steps.                *)
(***************************************************************************)
EXTENDS Integers, FiniteSets

CONSTANTS
  Clients,      \* application threads
  Workers,      \* identifiers for threads created by pthread_create
  Infos,        \* hook and ignore infos that can be registered
  Ops,          \* the operations the clients use
  MaxOps,       \* bound: how many operations each client calls
  InitMayFail,  \* whether sigaction and pthread_create can fail
  SwitchInited, \* whether the protection is switched between refresh and clear
  Disciplined,  \* whether clients wait for each other before they clear, and
                \* between registering and refreshing
  NoThread      \* no owner of a mutex

AllOps == {"register", "refresh", "refreshAsync", "clear", "protect",
           "unprotect"}

Threads == Clients \cup Workers

ASSUME XhCoreAssumption ==
  /\ Clients \cap Workers = {}
  /\ NoThread \notin Threads
  /\ Ops \subseteq AllOps
  /\ MaxOps \in Nat
  /\ {InitMayFail, SwitchInited, Disciplined} \subseteq BOOLEAN

VARIABLES
  inited, initOk,            \* xh_core_inited, xh_core_init_ok
  asyncInited, asyncInitOk,  \* xh_core_async_inited, xh_core_async_init_ok
  running, do,     \* xh_core_refresh_thread_running and _do
  tid,             \* xh_core_refresh_thread_tid
  mutex,           \* xh_core_mutex: its owner
  refreshMutex,    \* xh_core_refresh_mutex: its owner
  infos,           \* xh_core_hook_info and xh_core_ignore_info
  sigEnable,       \* xh_core_sigsegv_enable
  sigAction,       \* the process's action for SIGSEGV
  sigOld,          \* xh_core_sigsegv_act_old
  yielded,         \* xhook's handler has put sigOld back (history)
  pc,              \* where each thread is
  op,              \* the operation a client is in
  info,            \* the info a client registers
  joining,         \* the thread a client waits for in pthread_join
  calls            \* how many operations each client has called

flags == <<inited, initOk, asyncInited, asyncInitOk>>
worker == <<running, do, tid>>
locks == <<mutex, refreshMutex>>
signals == <<sigEnable, sigAction, sigOld, yielded>>
locals == <<op, info, joining, calls>>
vars == <<flags, worker, locks, infos, signals, pc, locals>>

\* Actions for SIGSEGV: the application's, xhook's, and SIG_DFL, which is what
\* the zeroed xh_core_sigsegv_act_old says until it is written.
Actions == {"app", "xhook", "default"}

Init ==
  /\ inited = FALSE /\ initOk = FALSE
  /\ asyncInited = FALSE /\ asyncInitOk = FALSE
  /\ running = FALSE /\ do = FALSE /\ tid = NoThread
  /\ mutex = NoThread /\ refreshMutex = NoThread
  /\ infos = {}
  /\ sigEnable = TRUE /\ sigAction = "app" /\ sigOld = "default"
  /\ yielded = FALSE
  /\ pc = [t \in Threads |-> IF t \in Clients THEN "idle" ELSE "none"]
  /\ op = [c \in Clients |-> "none"]
  /\ info = [c \in Clients |-> {}]
  /\ joining = [c \in Clients |-> NoThread]
  /\ calls = [c \in Clients |-> 0]

-----------------------------------------------------------------------------
Goto(t, label) == pc' = [pc EXCEPT ![t] = label]

\* Calls that disciplined clients make at the same time.
MayOverlap(o, p) ==
  \E together \in {{"register"}, AllOps \ {"register", "clear"}} :
    {o, p} \subseteq together

\* A call begins with a step that reads one flag.
Begin(c, o) ==
  /\ pc[c] = "idle"
  /\ Disciplined => \A d \in Clients : pc[d] # "idle" => MayOverlap(o, op[d])
  /\ o \in Ops
  /\ calls[c] < MaxOps
  /\ op' = [op EXCEPT ![c] = o]
  /\ calls' = [calls EXCEPT ![c] = @ + 1]

\* pthread_cond_signal, after which t goes on at label: one waiting thread, if
\* any, leaves pthread_cond_wait.
SignalAndGoto(t, label) ==
  LET waiting == {w \in Workers : pc[w] = "waiting"} IN
  \/ waiting = {} /\ Goto(t, label)
  \/ \E w \in waiting : pc' = [pc EXCEPT ![w] = "lock", ![t] = label]

-----------------------------------------------------------------------------
Register_Unchecked(c) ==
  /\ Begin(c, "register")
  /\ \E i \in Infos : info' = [info EXCEPT ![c] = {i}]
  /\ Goto(c, "insert")
  /\ UNCHANGED <<flags, worker, locks, infos, signals, joining>>

\* xh_core_register and xh_core_ignore: the check is outside the mutex.
Register(c) ==
  /\ Begin(c, "register")
  /\ ~inited
  /\ \E i \in Infos : info' = [info EXCEPT ![c] = {i}]
  /\ Goto(c, "insert")
  /\ UNCHANGED <<flags, worker, locks, infos, signals, joining>>

\* "do not register hook after refresh()".
RegisterRejected(c) ==
  /\ Begin(c, "register")
  /\ inited
  /\ UNCHANGED <<flags, worker, locks, infos, signals, pc, info, joining>>

Insert(c) ==
  /\ pc[c] = "insert"
  /\ mutex = NoThread
  /\ infos' = infos \cup info[c]
  /\ info' = [info EXCEPT ![c] = {}]
  /\ Goto(c, "idle")
  /\ UNCHANGED <<flags, worker, locks, signals, op, joining, calls>>

-----------------------------------------------------------------------------
\* xh_core_refresh: xh_core_init_once reads xh_core_inited without the mutex,
\* then takes it and reads again.
Refresh(c) ==
  /\ \E o \in {"refresh", "refreshAsync"} : Begin(c, o)
  /\ Goto(c, IF inited THEN "checkInit" ELSE "init")
  /\ UNCHANGED <<flags, worker, locks, infos, signals, info, joining>>

InitOnce_OkBeforeHandler(c) ==
  /\ pc[c] = "init"
  /\ mutex = NoThread
  /\ \/ /\ inited
        /\ Goto(c, "checkInit")
        /\ UNCHANGED <<inited, initOk, mutex>>
     \/ /\ ~inited
        /\ inited' = TRUE
        /\ initOk' = TRUE
        /\ mutex' = c
        /\ Goto(c, "addHandler")
  /\ UNCHANGED <<asyncInited, asyncInitOk, worker, refreshMutex, infos,
                 signals, locals>>

InitOnce(c) ==
  /\ pc[c] = "init"
  /\ mutex = NoThread
  /\ \/ /\ inited
        /\ Goto(c, "checkInit")
        /\ UNCHANGED <<inited, mutex>>
     \/ /\ ~inited
        /\ inited' = TRUE
        /\ mutex' = c
        /\ Goto(c, "addHandler")
  /\ UNCHANGED <<initOk, asyncInited, asyncInitOk, worker, refreshMutex, infos,
                 signals, locals>>

\* xh_core_add_sigsegv_handler and the end of xh_core_init_once.
AddHandler(c) ==
  /\ pc[c] = "addHandler"
  /\ \/ /\ sigEnable
        /\ sigAction' = "xhook"
        /\ sigOld' = sigAction
        /\ yielded' = FALSE
        /\ initOk' = TRUE
     \/ /\ ~sigEnable
        /\ initOk' = TRUE
        /\ UNCHANGED <<sigAction, sigOld, yielded>>
     \/ /\ sigEnable /\ InitMayFail
        /\ UNCHANGED <<initOk, sigAction, sigOld, yielded>>
  /\ mutex' = NoThread
  /\ Goto(c, "checkInit")
  /\ UNCHANGED <<inited, asyncInited, asyncInitOk, worker, refreshMutex, infos,
                 sigEnable, locals>>

CheckInit(c) ==
  /\ pc[c] = "checkInit"
  /\ Goto(c, IF ~initOk THEN "idle"
             ELSE IF op[c] = "refresh" THEN "refreshLock" ELSE "asyncInited")
  /\ UNCHANGED <<flags, worker, locks, infos, signals, locals>>

\* xh_core_init_async_once.
CheckAsyncInited(c) ==
  /\ pc[c] = "asyncInited"
  /\ Goto(c, IF asyncInited THEN "checkAsync" ELSE "initAsync")
  /\ UNCHANGED <<flags, worker, locks, infos, signals, locals>>

InitAsyncOnce_Unchecked(c) ==
  /\ pc[c] = "initAsync"
  /\ mutex = NoThread
  /\ asyncInited' = TRUE
  /\ running' = TRUE
  /\ mutex' = c
  /\ Goto(c, "create")
  /\ UNCHANGED <<inited, initOk, asyncInitOk, do, tid, refreshMutex, infos,
                 signals, locals>>

InitAsyncOnce(c) ==
  /\ pc[c] = "initAsync"
  /\ mutex = NoThread
  /\ \/ /\ asyncInited
        /\ Goto(c, "checkAsync")
        /\ UNCHANGED <<asyncInited, running, mutex>>
     \/ /\ ~asyncInited
        /\ asyncInited' = TRUE
        /\ running' = TRUE
        /\ mutex' = c
        /\ Goto(c, "create")
  /\ UNCHANGED <<inited, initOk, asyncInitOk, do, tid, refreshMutex, infos,
                 signals, locals>>

\* pthread_create: the thread runs at once.
Create(c) ==
  /\ pc[c] = "create"
  /\ \E w \in Workers :
       /\ pc[w] = "none"
       /\ tid' = w
       /\ pc' = [pc EXCEPT ![w] = "loop", ![c] = "checkAsync"]
  /\ asyncInitOk' = TRUE
  /\ mutex' = NoThread
  /\ UNCHANGED <<inited, initOk, asyncInited, running, do, refreshMutex, infos,
                 signals, locals>>

CreateFails(c) ==
  /\ pc[c] = "create"
  /\ InitMayFail
  /\ running' = FALSE
  /\ mutex' = NoThread
  /\ Goto(c, "checkAsync")
  /\ UNCHANGED <<flags, do, tid, refreshMutex, infos, signals, locals>>

CheckAsync(c) ==
  /\ pc[c] = "checkAsync"
  /\ Goto(c, IF asyncInitOk THEN "post" ELSE "idle")
  /\ UNCHANGED <<flags, worker, locks, infos, signals, locals>>

Post_NoSignal(c) ==
  /\ pc[c] = "post"
  /\ mutex = NoThread
  /\ do' = TRUE
  /\ Goto(c, "idle")
  /\ UNCHANGED <<flags, running, tid, locks, infos, signals, locals>>

Post(c) ==
  /\ pc[c] = "post"
  /\ mutex = NoThread
  /\ do' = TRUE
  /\ SignalAndGoto(c, "idle")
  /\ UNCHANGED <<flags, running, tid, locks, infos, signals, locals>>

-----------------------------------------------------------------------------
RefreshLock_Free(t) ==
  /\ pc[t] = "refreshLock"
  /\ refreshMutex' = t
  /\ Goto(t, "traverse")
  /\ UNCHANGED <<flags, worker, mutex, infos, signals, locals>>

\* xh_core_refresh_impl, by a client or by the worker, under the refresh mutex.
RefreshLock(t) ==
  /\ pc[t] = "refreshLock"
  /\ refreshMutex = NoThread
  /\ refreshMutex' = t
  /\ Goto(t, "traverse")
  /\ UNCHANGED <<flags, worker, mutex, infos, signals, locals>>

\* xh_core_check_elf_header and xh_core_hook touch the memory of a library,
\* inside sigsetjmp if the protection is enabled at that moment.
Touch(t) ==
  /\ pc[t] = "traverse"
  /\ Goto(t, IF sigEnable THEN "protected" ELSE "bare")
  /\ UNCHANGED <<flags, worker, locks, infos, signals, locals>>

\* The section is left, at its end or by siglongjmp when the library faults.
EndRefresh(t) ==
  /\ pc[t] \in {"protected", "bare"}
  /\ refreshMutex' = NoThread
  /\ Goto(t, IF t \in Workers THEN "loop" ELSE "idle")
  /\ UNCHANGED <<flags, worker, mutex, infos, signals, locals>>

-----------------------------------------------------------------------------
\* xh_core_refresh_thread_func.
Loop(w) ==
  /\ pc[w] = "loop"
  /\ Goto(w, IF running THEN "lock" ELSE "exited")
  /\ UNCHANGED <<flags, worker, locks, infos, signals, locals>>

\* With the mutex, after taking it or when pthread_cond_wait returns: wait,
\* exit, or take the task.
Lock(w) ==
  /\ pc[w] = "lock"
  /\ mutex = NoThread
  /\ \/ /\ ~do /\ running
        /\ Goto(w, "waiting")
        /\ UNCHANGED do
     \/ /\ ~running
        /\ Goto(w, "exited")
        /\ UNCHANGED do
     \/ /\ do /\ running
        /\ do' = FALSE
        /\ Goto(w, "refreshLock")
  /\ UNCHANGED <<flags, running, tid, locks, infos, signals, locals>>

\* pthread_cond_wait may return without a signal.
SpuriousWakeup(w) ==
  /\ pc[w] = "waiting"
  /\ Goto(w, "lock")
  /\ UNCHANGED <<flags, worker, locks, infos, signals, locals>>

-----------------------------------------------------------------------------
Clear_NoStop(c) ==
  /\ Begin(c, "clear")
  /\ Goto(c, "resetAsync")
  /\ UNCHANGED <<flags, worker, locks, infos, signals, info, joining>>

Clear_TestingInited(c) ==
  /\ Begin(c, "clear")
  /\ Goto(c, IF asyncInited THEN "stop" ELSE "resetAsync")
  /\ UNCHANGED <<flags, worker, locks, infos, signals, info, joining>>

\* xh_core_clear.
Clear(c) ==
  /\ Begin(c, "clear")
  /\ Goto(c, IF asyncInitOk THEN "stop" ELSE "resetAsync")
  /\ UNCHANGED <<flags, worker, locks, infos, signals, info, joining>>

Stop_NoSignal(c) ==
  /\ pc[c] = "stop"
  /\ mutex = NoThread
  /\ running' = FALSE
  /\ joining' = [joining EXCEPT ![c] = tid]
  /\ Goto(c, "join")
  /\ UNCHANGED <<flags, do, tid, locks, infos, signals, op, info, calls>>

\* The worker is told to stop; its identifier is read for pthread_join.
Stop(c) ==
  /\ pc[c] = "stop"
  /\ mutex = NoThread
  /\ running' = FALSE
  /\ joining' = [joining EXCEPT ![c] = tid]
  /\ SignalAndGoto(c, "join")
  /\ UNCHANGED <<flags, do, tid, locks, infos, signals, op, info, calls>>

\* pthread_join returns and its identifier may be used again.
Join(c) ==
  /\ pc[c] = "join"
  /\ pc[joining[c]] = "exited"
  /\ pc' = [pc EXCEPT ![joining[c]] = "none", ![c] = "resetAsync"]
  /\ joining' = [joining EXCEPT ![c] = NoThread]
  /\ asyncInitOk' = FALSE
  /\ UNCHANGED <<inited, initOk, asyncInited, worker, locks, infos, signals,
                 op, info, calls>>

ResetAsync(c) ==
  /\ pc[c] = "resetAsync"
  /\ asyncInited' = FALSE
  /\ Goto(c, "delHandler")
  /\ UNCHANGED <<inited, initOk, asyncInitOk, worker, locks, infos, signals,
                 locals>>

DelHandler_Unchecked(c) ==
  /\ pc[c] = "delHandler"
  /\ sigAction' = IF sigEnable THEN sigOld ELSE sigAction
  /\ initOk' = FALSE
  /\ Goto(c, "resetInited")
  /\ UNCHANGED <<inited, asyncInited, asyncInitOk, worker, locks, infos,
                 sigEnable, sigOld, yielded, locals>>

\* xh_core_del_sigsegv_handler.
DelHandler(c) ==
  /\ pc[c] = "delHandler"
  /\ sigAction' = IF initOk /\ sigEnable THEN sigOld ELSE sigAction
  /\ initOk' = FALSE
  /\ Goto(c, "resetInited")
  /\ UNCHANGED <<inited, asyncInited, asyncInitOk, worker, locks, infos,
                 sigEnable, sigOld, yielded, locals>>

ResetInited(c) ==
  /\ pc[c] = "resetInited"
  /\ inited' = FALSE
  /\ Goto(c, "clearLock")
  /\ UNCHANGED <<initOk, asyncInited, asyncInitOk, worker, locks, infos,
                 signals, locals>>

ClearLock(c) ==
  /\ pc[c] = "clearLock"
  /\ mutex = NoThread
  /\ mutex' = c
  /\ Goto(c, "clearRefreshLock")
  /\ UNCHANGED <<flags, worker, refreshMutex, infos, signals, locals>>

ClearRefreshLock(c) ==
  /\ pc[c] = "clearRefreshLock"
  /\ refreshMutex = NoThread
  /\ refreshMutex' = c
  /\ Goto(c, "free")
  /\ UNCHANGED <<flags, worker, mutex, infos, signals, locals>>

\* The map, hook and ignore infos are freed and both mutexes released.
FreeAll(c) ==
  /\ pc[c] = "free"
  /\ infos' = {}
  /\ mutex' = NoThread
  /\ refreshMutex' = NoThread
  /\ Goto(c, "idle")
  /\ UNCHANGED <<flags, worker, signals, locals>>

-----------------------------------------------------------------------------
\* xh_core_enable_sigsegv_protection, at any time or, without SwitchInited,
\* only while nothing depends on the switch.
EnableProtection(c) ==
  /\ SwitchInited \/ ~inited
  /\ \E o \in {"protect", "unprotect"} :
       /\ Begin(c, o)
       /\ sigEnable' = (o = "protect")
  /\ UNCHANGED <<flags, worker, locks, infos, sigAction, sigOld, yielded, pc,
                 info, joining>>

-----------------------------------------------------------------------------
\* A SIGSEGV anywhere in the process while xh_core_sigsegv_flag is 0:
\* xh_core_sigsegv_handler puts the action before it back, for good, and leaves
\* xh_core_init_ok as it is.
Fault ==
  /\ sigAction = "xhook"
  /\ \A t \in Threads : pc[t] # "protected"
  /\ sigAction' = sigOld
  /\ yielded' = TRUE
  /\ UNCHANGED <<flags, worker, locks, infos, sigEnable, sigOld, pc, locals>>

-----------------------------------------------------------------------------
ClientStep(c) ==
  \/ Register(c) \/ RegisterRejected(c) \/ Insert(c)
  \/ Refresh(c) \/ InitOnce(c) \/ AddHandler(c) \/ CheckInit(c)
  \/ CheckAsyncInited(c) \/ InitAsyncOnce(c) \/ Create(c) \/ CreateFails(c)
  \/ CheckAsync(c) \/ Post(c)
  \/ RefreshLock(c) \/ Touch(c) \/ EndRefresh(c)
  \/ Clear(c) \/ Stop(c) \/ Join(c) \/ ResetAsync(c) \/ DelHandler(c)
  \/ ResetInited(c) \/ ClearLock(c) \/ ClearRefreshLock(c) \/ FreeAll(c)
  \/ EnableProtection(c)

WorkerStep(w) ==
  Loop(w) \/ Lock(w) \/ RefreshLock(w) \/ Touch(w) \/ EndRefresh(w)

Next ==
  \/ \E c \in Clients : ClientStep(c)
  \/ \E w \in Workers : WorkerStep(w) \/ SpuriousWakeup(w)
  \/ Fault

Spec == Init /\ [][Next]_vars

(***************************************************************************)
(* A thread inside a call and the worker keep running.  Nothing makes a    *)
(* client call, pthread_cond_wait return without a signal, or the process  *)
(* fault.                                                                  *)
(***************************************************************************)
Fairness ==
  /\ \A c \in Clients : WF_vars(pc[c] # "idle" /\ ClientStep(c))
  /\ \A w \in Workers : WF_vars(WorkerStep(w))

FairSpec == Spec /\ Fairness

-----------------------------------------------------------------------------
\* Threads that are reading the lists of infos in xh_core_refresh_impl.
Traversing(t) == pc[t] \in {"traverse", "protected", "bare"}

Idle == \A c \in Clients : pc[c] = "idle"

Labels == {"idle", "none", "insert", "init", "addHandler", "checkInit",
           "asyncInited", "initAsync", "create", "checkAsync", "post",
           "refreshLock", "traverse", "protected", "bare", "loop", "lock",
           "waiting", "exited", "stop", "join", "resetAsync", "delHandler",
           "resetInited", "clearLock", "clearRefreshLock", "free"}

(***************************************************************************)
(* Shape of the state; in particular xh_core_clear calls pthread_join only *)
(* with the identifier of a thread that was created (xh_core.c:606-613).   *)
(***************************************************************************)
TypeOK ==
  /\ inited \in BOOLEAN /\ initOk \in BOOLEAN
  /\ asyncInited \in BOOLEAN /\ asyncInitOk \in BOOLEAN
  /\ running \in BOOLEAN /\ do \in BOOLEAN
  /\ tid \in Workers \cup {NoThread}
  /\ mutex \in Threads \cup {NoThread}
  /\ refreshMutex \in Threads \cup {NoThread}
  /\ infos \subseteq Infos
  /\ sigEnable \in BOOLEAN /\ sigAction \in Actions /\ sigOld \in Actions
  /\ yielded \in BOOLEAN
  /\ pc \in [Threads -> Labels]
  /\ op \in [Clients -> AllOps \cup {"none"}]
  /\ info \in [Clients -> SUBSET Infos]
  /\ joining \in [Clients -> Workers \cup {NoThread}]
  /\ calls \in [Clients -> 0 .. MaxOps]
  /\ \A c \in Clients : pc[c] = "join" => joining[c] # NoThread

(***************************************************************************)
(* While a refresh walks over the hook and ignore infos nothing is         *)
(* inserted into the lists or freed: "do not register hook after           *)
(* refresh()" (xh_core.c:147), since the walk (lines 380-400) and the      *)
(* insertion (lines 171-173) hold different mutexes.                       *)
(***************************************************************************)
ListsFrozen == [][(\E t \in Threads : Traversing(t)) => infos' = infos]_vars

(***************************************************************************)
(* xh_core_clear frees no info that a refresh of any thread is walking     *)
(* over (xh_core.c:627), and two refreshes never run at once.              *)
(***************************************************************************)
InUseAlone ==
  \A t, u \in Threads :
    t # u /\ Traversing(t) => ~Traversing(u) /\ pc[u] # "free"

(***************************************************************************)
(* Memory of a library is touched inside sigsetjmp only while xhook's      *)
(* handler is installed ("signal handler for SIGSEGV for xh_elf_init(),    *)
(* xh_elf_hook(), xh_elf_check_elfheader()", xh_core.c:85-86): otherwise a *)
(* bad library kills the process.  There is one way around it, and no      *)
(* other: after a SIGSEGV outside of those sections the handler has put    *)
(* the application's action back (xh_core.c:98), xh_core_init_ok is still  *)
(* 1, and until a clear every later refresh is without it.                 *)
(***************************************************************************)
ProtectedInstalled ==
  \A t \in Threads : pc[t] = "protected" =>
    sigAction = IF yielded THEN "app" ELSE "xhook"

(***************************************************************************)
(* Once everything has been cleared the application's handler for SIGSEGV  *)
(* is back ("unregister the sig handler", xh_core.c:618), also when        *)
(* xhook's handler had put it back before.                                 *)
(***************************************************************************)
SigRestored == Idle /\ ~inited => sigAction = "app"

(***************************************************************************)
(* Once everything has been cleared no worker is left ("stop the async     *)
(* refresh thread", xh_core.c:605).                                        *)
(***************************************************************************)
WorkerStopped == Idle /\ ~inited => \A w \in Workers : pc[w] = "none"

(***************************************************************************)
(* At most one worker is alive, and xh_core_clear can join it              *)
(* (xh_core_init_async_once, xh_core.c:549-572).                           *)
(***************************************************************************)
OneWorker ==
  \A w \in Workers : pc[w] \notin {"none", "exited"} => tid = w

(***************************************************************************)
(* Every call of the API returns; in particular xh_core_clear is not       *)
(* stuck in pthread_join (xh_core.c:608-613).                              *)
(***************************************************************************)
CallsReturn == \A c \in Clients : pc[c] # "idle" ~> pc[c] = "idle"

(***************************************************************************)
(* An asynchronous refresh that was posted is taken up unless the worker   *)
(* is told to stop (xh_core.c:494-504, 587-590): no signal is lost.        *)
(***************************************************************************)
PostedIsTaken == do /\ running ~> ~do \/ ~running
=============================================================================
