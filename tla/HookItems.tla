------------------------------ MODULE HookItems ------------------------------
(***************************************************************************)
(* The Java side of hooking: YafyaMain.doHookDefault with the hook items   *)
(* of a plugin, PookAnnotation.hookClass with the annotated methods of a   *)
(* class, and findAndBackupAndHook called by the application.  All of them *)
(* find methods by reflection, check types and call backupAndHookNative,   *)
(* which is HookAbs here.  Calls are made one at a time; what a class      *)
(* declares, and whether loading it throws, are constants.                 *)
(***************************************************************************)
EXTENDS Integers, SequencesExt

CONSTANTS
  Decl,        \* the declaration of each method: class, name, kind, params, ret
  Super,       \* the types each type can be assigned to
  Load,        \* what loading and initializing a class ends in
  Annotation,  \* the annotation of each annotated method: kind, class, name
  Calls,       \* the calls the application may make, each of them once
  MaxCalls,    \* bound: how many calls it makes
  Late,        \* classes that may become visibly initialized late
  None

Methods == DOMAIN Decl
Requests == [target : Methods, hook : Methods, backup : Methods \cup {None}]

ASSUME HookItemsAssumption ==
  /\ None \notin Methods /\ MaxCalls \in Nat
  /\ DOMAIN Annotation \subseteq Methods
  /\ \A t \in DOMAIN Super : t \in Super[t] /\ Super[t] \subseteq DOMAIN Super
  /\ \A m \in Methods : Decl[m].kind \in {"static", "instance", "constructor"}

VARIABLES
  dest, settled, broken,  \* the state of HookAbs
  pc, call,               \* where the thread is, in which call
  items,                  \* hook items left to do
  methods,                \* declared methods hookClass has not looked at yet
  hooks, backups,         \* the maps of hookClass
  req,                    \* the arguments of backupAndHook
  original,               \* the destination the backup trampoline gets
  failed,                 \* a half failed in backupAndHookNative
  log,                    \* the calls of backupAndHookNative (history)
  ended                   \* the finished calls and how they ended (history)

native == <<dest, settled, broken>>
maps == <<methods, hooks, backups>>
vars == <<native, pc, call, items, maps, req, original, failed, log, ended>>

H == INSTANCE HookAbs WITH
       Methods <- Methods, Requests <- Requests, None <- None,
       dest <- dest, settled <- settled, broken <- broken

-----------------------------------------------------------------------------
\* Reflection and the checks.

\* GetMethodID and GetStaticMethodID: the method a class declares or inherits;
\* without one they throw, and findMethodNative clears the exception.
MethodID(c, sig, statically) ==
  LET ms == {m \in Methods :
               /\ sig = [name |-> Decl[m].name, params |-> Decl[m].params,
                         ret |-> Decl[m].ret]
               /\ (Decl[m].kind = "static") = statically
               /\ Decl[m].class \in Super[c]
               /\ Decl[m].kind = "constructor" => Decl[m].class = c}
  IN  IF ms = {} THEN None
      ELSE CHOOSE m \in ms : \A n \in ms : Decl[n].class \in Super[Decl[m].class]

findMethodNative(c, sig) ==
  LET m == MethodID(c, sig, FALSE)
  IN  IF m # None THEN m ELSE MethodID(c, sig, TRUE)

\* What callers pass, with the receiver first.
Params(m) ==
  (IF Decl[m].kind = "static" THEN <<>> ELSE <<Decl[m].class>>) \o Decl[m].params

Compatible_Reversed(o, r) ==
  /\ IF Decl[o].kind = "constructor" THEN Decl[r].ret # "Void"
     ELSE Decl[r].ret \in Super[Decl[o].ret]
  /\ Len(Params(r)) = Len(Params(o))
  /\ \A i \in DOMAIN Params(o) : Params(o)[i] \in Super[Params(r)[i]]

\* checkCompatibleMethods; a constructor has no return type to compare with,
\* and Void is java.lang.Void.
Compatible(o, r) ==
  /\ IF Decl[o].kind = "constructor" THEN Decl[r].ret # "Void"
     ELSE Decl[r].ret \in Super[Decl[o].ret]
  /\ Len(Params(r)) = Len(Params(o))
  /\ \A i \in DOMAIN Params(o) : Params(r)[i] \in Super[Params(o)[i]]

IsStatic(m) == Decl[m].kind = "static"

\* The hook items of all plugins.
Items == UNION {ToSet(c.items) : c \in {d \in Calls : d.kind = "plugin"}}

\* Classes, arguments and signatures are what reflection can find; of any
\* methods a class has, one overrides the others.
ASSUME CallsAssumption ==
  /\ \A t \in DOMAIN Super :
       \A ms \in (SUBSET {m \in Methods : Decl[m].class \in Super[t]}) \ {{}} :
         \E m \in ms : \A n \in ms : Decl[n].class \in Super[Decl[m].class]
  /\ \A m \in Methods : \A i \in DOMAIN Params(m) : Params(m)[i] \in DOMAIN Super
  /\ \A i \in Items :
       i.class # None /\ Load[i.class] = "ok" => i.class \in DOMAIN Super
  /\ \A c \in Calls :
       /\ c.kind \in {"plugin", "class", "method"}
       /\ c.kind = "plugin" => c.items \in Seq(Items)
       /\ c.kind = "method" =>
            /\ c.class \in DOMAIN Super \cup {None}
            /\ {c.hook, c.backup} \subseteq Methods \cup {None}

\* The checks of backupAndHook; otherwise it throws IllegalArgumentException.
Accepted(r) ==
  /\ r.target # None /\ r.hook # None
  /\ IsStatic(r.hook) /\ Compatible(r.target, r.hook)
  /\ r.backup # None => IsStatic(r.backup) /\ Compatible(r.target, r.backup)

\* What the loading in doHookItemDefault ends in: "skip" is a logged return.
Loading(i) ==
  IF Load[i.item] # "ok" THEN Load[i.item]
  ELSE IF i.class = None THEN "skip"
  ELSE IF Load[i.class] # "ok" THEN Load[i.class]
  ELSE IF \E m \in Methods : Decl[m].class = i.item /\ Decl[m].name = "hook"
                             /\ IsStatic(m) THEN "ok"
  ELSE "skip"

\* Static methods of an item by name; the last one in the order of
\* getDeclaredMethods, which Java leaves open, is taken.
Named(i, name) ==
  {m \in Methods : Decl[m].class = i.item /\ Decl[m].name = name /\ IsStatic(m)}

OrNone(ms) == IF ms = {} THEN {None} ELSE ms

\* The arguments an item may lead to.
ItemRequests(i) ==
  {[target |-> findMethodNative(i.class, i.sig), hook |-> h, backup |-> b] :
     h \in Named(i, "hook"), b \in OrNone(Named(i, "backup"))}

StaticKinds == {"StaticMethodHook", "StaticMethodBackup"}

TargetOf_AnyKind ==
  [m \in DOMAIN Annotation |->
     LET a == Annotation[m]
         ps == Decl[m].params
         found == {t \in Methods :
                     /\ Decl[t].name = a.name
                     /\ IF a.kind \in StaticKinds
                        THEN Decl[t].class = a.class /\ Decl[t].params = ps
                        ELSE /\ ps # <<>> /\ Decl[t].class = Head(ps)
                             /\ Decl[t].params = Tail(ps)}
     IN  IF found = {} THEN None ELSE CHOOSE t \in found : TRUE]

\* The target of an annotated method, None when looking for it throws.
TargetOf ==
  [m \in DOMAIN Annotation |->
     LET a == Annotation[m]
         ps == Decl[m].params
         found == {t \in Methods :
                     /\ Decl[t].name = a.name
                     /\ IsStatic(t) = (a.kind \in StaticKinds)
                     /\ IF a.kind \in StaticKinds
                        THEN Decl[t].class = a.class /\ Decl[t].params = ps
                        ELSE /\ ps # <<>> /\ Decl[t].class = Head(ps)
                             /\ Decl[t].params = Tail(ps)}
     IN  IF found = {} THEN None ELSE CHOOSE t \in found : TRUE]

\* hookClass puts the method into hooks, not into backups.
IsHook(m) ==
  Annotation[m].kind \in {"ConstructorHook", "MethodHook", "StaticMethodHook"}

-----------------------------------------------------------------------------
Init ==
  /\ settled = {m \in Methods : Decl[m].class \notin Late}
  /\ H!Init
  /\ pc = "idle" /\ call = None
  /\ items = <<>> /\ methods = {} /\ hooks = <<>> /\ backups = <<>>
  /\ req = None /\ original = None /\ failed = FALSE
  /\ log = <<>> /\ ended = {}

\* The call under way returns or throws.
End(how) ==
  /\ pc' = "idle"
  /\ call' = None
  /\ ended' = ended \cup {[call |-> call, how |-> how]}

\* The exception leaves every catch clause behind: they are for Exception.
Escape ==
  /\ End("error")
  /\ UNCHANGED <<native, items, maps, req, original, failed, log>>

Start(c) ==
  /\ pc = "idle"
  /\ Cardinality(ended) < MaxCalls /\ \A e \in ended : e.call # c
  /\ call' = c
  /\ pc' = "load"
  /\ UNCHANGED <<native, items, maps, req, original, failed, log, ended>>

\* doHookDefault loads HookInfo and catches an Exception.
LoadInfo ==
  /\ pc = "load" /\ call.kind = "plugin"
  /\ \/ Load[call.info] = "error" /\ Escape
     \/ /\ Load[call.info] = "exception" /\ End("ok")
        /\ UNCHANGED <<native, items, maps, req, original, failed, log>>
     \/ /\ Load[call.info] = "ok" /\ items' = call.items /\ pc' = "item"
        /\ UNCHANGED <<native, call, maps, req, original, failed, log, ended>>

\* hookClass asks for the declared methods of the class.
DeclaredMethods ==
  /\ pc = "load" /\ call.kind = "class"
  /\ \/ Load[call.class] # "ok" /\ Escape
     \/ /\ Load[call.class] = "ok"
        /\ methods' = {m \in DOMAIN Annotation : Decl[m].class = call.class}
        /\ hooks' = <<>> /\ backups' = <<>>
        /\ pc' = "collect"
        /\ UNCHANGED <<native, call, items, req, original, failed, log, ended>>

\* findAndBackupAndHook; an argument that is null makes findMethod throw.
FindMethod ==
  /\ pc = "load" /\ call.kind = "method"
  /\ \/ /\ None \in {call.class, call.sig}
        /\ End("exception")
        /\ UNCHANGED <<native, items, maps, req, original, failed, log>>
     \/ /\ None \notin {call.class, call.sig}
        /\ req' = [target |-> findMethodNative(call.class, call.sig),
                   hook |-> call.hook, backup |-> call.backup]
        /\ pc' = "check"
        /\ UNCHANGED <<native, call, items, maps, original, failed, log, ended>>

\* doHookItemDefault for the next item, up to its own Utils.initClass.
Item ==
  /\ pc = "item" /\ items # <<>>
  /\ LET i == Head(items) IN
       \/ Loading(i) = "error" /\ Escape
       \/ /\ Loading(i) \in {"exception", "skip"}
          /\ items' = Tail(items)
          /\ UNCHANGED <<native, pc, call, maps, req, original, failed, log, ended>>
       \/ /\ Loading(i) = "ok"
          /\ req' \in ItemRequests(i)
          /\ pc' = "initItem"
          /\ UNCHANGED <<native, call, items, maps, original, failed, log, ended>>

LastItem ==
  /\ pc = "item" /\ items = <<>>
  /\ End("ok")
  /\ UNCHANGED <<native, items, maps, req, original, failed, log>>

\* Map.put.
Put(f, t, m) == [u \in DOMAIN f \cup {t} |-> IF u = t THEN m ELSE f[u]]

\* One turn of the loop over the declared methods; without a target the
\* exception is logged.
Collect(m) ==
  /\ pc = "collect"
  /\ methods' = methods \ {m}
  /\ LET t == TargetOf[m] IN
       /\ hooks' = IF t # None /\ IsHook(m) THEN Put(hooks, t, m) ELSE hooks
       /\ backups' = IF t # None /\ ~IsHook(m) THEN Put(backups, t, m)
                     ELSE backups
  /\ UNCHANGED <<native, pc, call, items, req, original, failed, log, ended>>

\* The loop over hooks, in any order; hooks keeps those that are left.
Install(t) ==
  /\ pc = "collect" /\ methods = {}
  /\ hooks' = [u \in DOMAIN hooks \ {t} |-> hooks[u]]
  /\ req' = [target |-> t, hook |-> hooks[t],
             backup |-> IF t \in DOMAIN backups THEN backups[t] ELSE None]
  /\ pc' = "check"
  /\ UNCHANGED <<native, call, items, methods, backups, original, failed, log,
                 ended>>

LastInstall ==
  /\ pc = "collect" /\ methods = {} /\ DOMAIN hooks = {}
  /\ End("ok")
  /\ UNCHANGED <<native, items, maps, req, original, failed, log>>

Resume_Retrying(how) ==
  /\ req' = None
  /\ IF call.kind = "method" THEN End(how) /\ UNCHANGED items
     ELSE /\ pc' = IF call.kind = "plugin" THEN "item" ELSE "collect"
          /\ items' = IF call.kind = "plugin" /\ ~failed THEN Tail(items)
                      ELSE items
          /\ UNCHANGED <<call, ended>>

\* backupAndHook returned or threw: the loops catch what it throws.
Resume(how) ==
  /\ req' = None
  /\ IF call.kind = "method" THEN End(how) /\ UNCHANGED items
     ELSE /\ pc' = IF call.kind = "plugin" THEN "item" ELSE "collect"
          /\ items' = IF call.kind = "plugin" THEN Tail(items) ELSE items
          /\ UNCHANGED <<call, ended>>

\* The checks of backupAndHook.
Check ==
  /\ pc = "check"
  /\ \/ /\ Accepted(req)
        /\ pc' = "init" /\ H!Renew /\ failed' = FALSE
        /\ UNCHANGED <<call, items, maps, req, original, log, ended>>
     \/ /\ ~Accepted(req)
        /\ Resume("exception")
        /\ UNCHANGED <<native, maps, original, failed, log>>

\* Utils.initClass in doHookItemDefault or in backupAndHook; a failure is
\* logged.
InitClass ==
  /\ pc \in {"initItem", "init"}
  /\ H!Settle(Methods \ settled) \/ H!Break
  /\ pc' = IF pc = "initItem" THEN "check"
           ELSE IF req.backup # None THEN "read" ELSE "target"
  /\ UNCHANGED <<call, items, maps, req, original, failed, log, ended>>

\* replaceMethod for the backup: it reads where the target leads, and writes.
Read ==
  /\ pc = "read"
  /\ \/ original' = dest[req.target] /\ pc' = "backup" /\ UNCHANGED <<native, failed>>
     \/ H!Break /\ failed' = TRUE /\ pc' = "target" /\ UNCHANGED original
  /\ UNCHANGED <<call, items, maps, req, log, ended>>

Backup ==
  /\ pc = "backup"
  /\ H!Backup(req) /\ dest'[req.backup] = original
  /\ pc' = "target"
  /\ UNCHANGED <<call, items, maps, req, original, failed, log, ended>>

\* replaceMethod for the target.
Target ==
  /\ pc = "target"
  /\ \/ H!Hook(req) /\ UNCHANGED failed
     \/ H!Break /\ failed' = TRUE
  /\ pc' = "return"
  /\ UNCHANGED <<call, items, maps, req, original, log, ended>>

\* What the request under way is for: the hook item at a position of the list,
\* or the target of annotated methods.
Slot ==
  CASE call.kind = "plugin" -> Len(call.items) - Len(items) + 1
    [] call.kind = "class" -> req.target
    [] call.kind = "method" -> None

\* backupAndHook throws when backupAndHookNative returned false.
Return ==
  /\ pc = "return"
  /\ log' = Append(log, [call |-> call, slot |-> Slot, req |-> req])
  /\ Resume(IF failed THEN "exception" ELSE "ok")
  /\ UNCHANGED <<native, maps, original, failed>>

Hooking ==
  \/ \E c \in Calls : Start(c)
  \/ LoadInfo \/ DeclaredMethods \/ FindMethod
  \/ Item \/ LastItem
  \/ \E m \in methods : Collect(m)
  \/ \E t \in DOMAIN hooks : Install(t)
  \/ LastInstall
  \/ Check \/ InitClass \/ Read \/ Backup \/ Target \/ Return

\* A class becomes visibly initialized.
Runtime ==
  /\ \E c \in Late :
       LET ms == {m \in Methods : Decl[m].class = c} IN
         ms # {} /\ H!Settle(ms)
  /\ UNCHANGED <<pc, call, items, maps, req, original, failed, log, ended>>

Next == Hooking \/ Runtime

Spec == Init /\ [][Next]_vars

-----------------------------------------------------------------------------
\* A method that is called with the arguments of o can take them.
Fits(o, r) ==
  /\ Len(Params(r)) = Len(Params(o))
  /\ \A i \in DOMAIN Params(o) : Params(r)[i] \in Super[Params(o)[i]]

\* What a call declares: for each slot the requests of which one is to be made.
Slots(c) ==
  CASE c.kind = "plugin" ->
         [n \in {k \in DOMAIN c.items :
                   Load[c.info] = "ok" /\ Loading(c.items[k]) = "ok"} |->
            ItemRequests(c.items[n])]
    [] c.kind = "class" ->
         LET of(t, hooking) ==
               {m \in DOMAIN Annotation :
                  /\ Decl[m].class = c.class /\ TargetOf[m] = t
                  /\ hooking = (Annotation[m].kind \in {"ConstructorHook",
                                  "MethodHook", "StaticMethodHook"})}
         IN  [t \in {u \in Methods : of(u, TRUE) # {}} |->
                [target : {t}, hook : of(t, TRUE), backup : OrNone(of(t, FALSE))]]
    [] c.kind = "method" ->
         IF None \in {c.class, c.sig} THEN <<>>
         ELSE [n \in {None} |->
                 {[target |-> findMethodNative(c.class, c.sig), hook |-> c.hook,
                   backup |-> c.backup]}]

AllSlots == [c \in Calls |-> Slots(c)]

\* When, in the order of the log, a call handed something over.
Turns(c) == {n \in DOMAIN log : log[n].call = c}

\* The requests that got through the checks.
AllMade ==
  {log[n].req : n \in DOMAIN log}
    \cup (IF pc \in {"init", "read", "backup", "target", "return"} THEN {req}
          ELSE {})

(***************************************************************************)
(* Shape of the state; in particular the maps of hookClass only have       *)
(* methods under targets of the kind of their annotation                   *)
(* (PookAnnotation.java:88 and 104).                                       *)
(***************************************************************************)
TypeOK ==
  /\ dest \in [Methods -> Methods] /\ settled \subseteq Methods
  /\ {broken, failed} \subseteq BOOLEAN
  /\ pc \in {"idle", "load", "item", "initItem", "collect", "check", "init",
             "read", "backup", "target", "return"}
  /\ call \in Calls \cup {None}
  /\ methods \subseteq DOMAIN Annotation
  /\ \A f \in {hooks, backups} : \A t \in DOMAIN f :
       /\ t \in Methods /\ f[t] \in DOMAIN Annotation
       /\ IsStatic(t) = (Annotation[f[t]].kind \in StaticKinds)
  /\ pc \in {"init", "read", "backup", "target", "return"} => req \in Requests
  /\ original \in Methods \cup {None}
  /\ \A n \in DOMAIN log : log[n].call \in Calls /\ log[n].req \in Requests

(***************************************************************************)
(* A call that returns, unless an Error got past its catch clauses, has    *)
(* called backupAndHookNative exactly once for each item or annotated      *)
(* target, with its own hook and, when there is one, backup, whatever went *)
(* wrong with the others or in the call itself, and in whatever order      *)
(* reflection lists them; for an item or target that may not type-check at *)
(* most once, and never with what does not (YafyaMain.java:69-74, 116 and  *)
(* 166, PookAnnotation.java:158-168).                                      *)
(***************************************************************************)
HandedOver ==
  pc = "idle" => \A e \in ended : e.how # "error" =>
    LET declared == AllSlots[e.call] IN
      /\ \A n \in Turns(e.call) :
           /\ log[n].slot \in DOMAIN declared
           /\ log[n].req \in declared[log[n].slot] /\ Accepted(log[n].req)
      /\ \A d \in DOMAIN declared :
           LET turns == {n \in Turns(e.call) : log[n].slot = d} IN
             /\ Cardinality(turns) <= 1
             /\ (\A r \in declared[d] : Accepted(r)) => turns # {}

(***************************************************************************)
(* Whatever a target and its backup lead to, after any chain of hooks and  *)
(* failures, takes the arguments that callers of the target pass ("their   *)
(* parameters should match the ones of target", README.md:84).             *)
(***************************************************************************)
ArgumentsFit ==
  \A r \in AllMade :
    /\ Fits(r.target, dest[r.target])
    /\ r.backup # None => Fits(r.target, dest[r.backup])
=============================================================================
