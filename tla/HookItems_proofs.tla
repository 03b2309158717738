--------------------------- MODULE HookItems_proofs ---------------------------
(***************************************************************************)
(* Proof that targets and backups only ever lead to methods that take the  *)
(* arguments of the target: for any classes, plugins, annotated methods    *)
(* and calls, and any failure, as long as the requests keep their backups  *)
(* apart.  Then, that each call of the API hands over what it is given:    *)
(* one request for each valid item and annotated target.                   *)
(***************************************************************************)
EXTENDS HookItems, FiniteSetTheorems, TLAPS

-----------------------------------------------------------------------------
\* What reaches the checks of backupAndHook.
MaybeMethods == Methods \cup {None}
Candidates == [target : MaybeMethods, hook : MaybeMethods, backup : MaybeMethods]

\* backupAndHookNative is under way.
Hooks == {"init", "read", "backup", "target", "return"}

\* Which loop of which call the thread is in, and with what.
Control ==
  /\ pc # "idle" => call \in Calls
  /\ pc \in {"item", "initItem"} => call.kind = "plugin"
  /\ pc = "collect" => call.kind = "class"
  /\ items \in Seq(Items)
  /\ pc \notin {"idle", "load", "item"} /\ call.kind = "plugin" => items # <<>>
  /\ pc \in {"initItem", "check"} => req \in Candidates
  /\ pc \in {"read", "backup"} => req.backup # None
  /\ pc = "backup" => original \in Methods

\* Only requests that were checked get to backupAndHookNative.
Checked == \A r \in AllMade : r \in Requests /\ Accepted(r)

\* A method leads to itself, or some request had it redirected.
Redirected ==
  \A m \in Methods :
    \/ dest[m] = m
    \/ \E r \in AllMade : r.target = m /\ dest[m] = r.hook
    \/ \E r \in AllMade : r.backup = m

\* What the log consists of.
Entries ==
  [call : Calls, slot : Int \cup MaybeMethods, req : Requests]

IInv == TypeOK /\ Control /\ Checked /\ Redirected /\ log \in Seq(Entries)

\* No method is the backup of two targets, or a target itself: no code of the
\* library checks that.
BackupsApart ==
  \A r, s \in AllMade : r.backup # None =>
    /\ r.backup # s.target
    /\ r.backup = s.backup => r.target = s.target

\* What the backups lead to, or are about to.
BackupsFit ==
  BackupsApart =>
    /\ \A r \in AllMade : r.backup # None => Fits(r.target, dest[r.backup])
    /\ pc = "backup" => Fits(req.target, original)

-----------------------------------------------------------------------------
(***************************************************************************)
(* Reflection finds a method or nothing.                                   *)
(***************************************************************************)
LEMMA MethodIDType ==
  ASSUME NEW c \in DOMAIN Super, NEW sig, NEW statically
  PROVE  MethodID(c, sig, statically) \in MaybeMethods
<1> DEFINE ms == {m \in Methods :
               /\ sig = [name |-> Decl[m].name, params |-> Decl[m].params,
                         ret |-> Decl[m].ret]
               /\ (Decl[m].kind = "static") = statically
               /\ Decl[m].class \in Super[c]
               /\ Decl[m].kind = "constructor" => Decl[m].class = c}
<1> DEFINE Best(m) == \A n \in ms : Decl[n].class \in Super[Decl[m].class]
<1>1. CASE ms = {}
  BY <1>1 DEF MethodID, MaybeMethods
<1>2. CASE ms # {}
  <2>1. ms \in (SUBSET {m \in Methods : Decl[m].class \in Super[c]}) \ {{}}
    BY <1>2
  <2>2. \E m \in ms : Best(m)
    BY <2>1, CallsAssumption
  <2>3. (CHOOSE m \in ms : Best(m)) \in ms
    <3> HIDE DEF ms, Best
    <3> QED BY <2>2
  <2> QED
    BY <1>2, <2>3 DEF MethodID, MaybeMethods
<1> QED
  BY <1>1, <1>2

LEMMA FoundType ==
  ASSUME NEW c \in DOMAIN Super, NEW sig
  PROVE  findMethodNative(c, sig) \in MaybeMethods
BY MethodIDType DEF findMethodNative

(***************************************************************************)
(* What a hook item leads to can be checked.                               *)
(***************************************************************************)
LEMMA ItemRequestsType ==
  ASSUME NEW i \in Items, Loading(i) = "ok"
  PROVE  ItemRequests(i) \subseteq Candidates
<1>1. i.class \in DOMAIN Super
  BY CallsAssumption DEF Loading
<1>2. findMethodNative(i.class, i.sig) \in MaybeMethods
  BY <1>1, FoundType
<1>3. /\ Named(i, "hook") \subseteq MaybeMethods
      /\ OrNone(Named(i, "backup")) \subseteq MaybeMethods
  BY DEF Named, OrNone, MaybeMethods
<1> QED
  BY <1>2, <1>3 DEF ItemRequests, Candidates

(***************************************************************************)
(* The target of an annotated method is of the kind of its annotation.     *)
(***************************************************************************)
LEMMA TargetOfType ==
  ASSUME NEW m \in DOMAIN Annotation, TargetOf[m] # None
  PROVE  /\ TargetOf[m] \in Methods
         /\ IsStatic(TargetOf[m]) = (Annotation[m].kind \in StaticKinds)
<1> DEFINE a == Annotation[m]
           ps == Decl[m].params
           found == {t \in Methods :
                     /\ Decl[t].name = a.name
                     /\ IsStatic(t) = (a.kind \in StaticKinds)
                     /\ IF a.kind \in StaticKinds
                        THEN Decl[t].class = a.class /\ Decl[t].params = ps
                        ELSE /\ ps # <<>> /\ Decl[t].class = Head(ps)
                             /\ Decl[t].params = Tail(ps)}
<1>1. TargetOf[m] = IF found = {} THEN None ELSE CHOOSE t \in found : TRUE
  BY DEF TargetOf
<1>2. TargetOf[m] \in found
  <2> HIDE DEF found
  <2> QED BY <1>1
<1> QED
  BY <1>2

(***************************************************************************)
(* A method takes its own arguments, and hooks and backups those of the    *)
(* target.                                                                 *)
(***************************************************************************)
LEMMA FitsItself ==
  ASSUME NEW m \in Methods
  PROVE  Fits(m, m)
BY HookItemsAssumption, CallsAssumption DEF Fits

LEMMA AcceptedFit ==
  ASSUME NEW r, Accepted(r)
  PROVE  /\ Fits(r.target, r.hook)
         /\ r.backup # None => Fits(r.target, r.backup)
BY DEF Accepted, Compatible, Fits

(***************************************************************************)
(* While backups are apart, whatever a target leads to takes its           *)
(* arguments.                                                              *)
(***************************************************************************)
LEMMA TargetsFit ==
  ASSUME IInv, BackupsApart, NEW r \in AllMade
  PROVE  Fits(r.target, dest[r.target])
<1>1. r \in Requests /\ r.target \in Methods
  BY DEF IInv, Checked, Requests
<1>2. CASE dest[r.target] = r.target
  BY <1>1, <1>2, FitsItself
<1>3. ASSUME NEW s \in AllMade, s.target = r.target, dest[r.target] = s.hook
      PROVE  Fits(r.target, dest[r.target])
  BY <1>3, AcceptedFit DEF IInv, Checked
<1>4. ~ \E s \in AllMade : s.backup = r.target
  BY <1>1, HookItemsAssumption DEF BackupsApart
<1> QED
  BY <1>1, <1>2, <1>3, <1>4 DEF IInv, Redirected

-----------------------------------------------------------------------------
\* The parts of TypeOK.
NativeType ==
  /\ dest \in [Methods -> Methods] /\ settled \subseteq Methods
  /\ broken \in BOOLEAN /\ failed \in BOOLEAN

CallType ==
  /\ pc \in {"idle", "load", "item", "initItem", "collect", "check"} \cup Hooks
  /\ call \in Calls \cup {None}

MapType(f) ==
  \A t \in DOMAIN f :
    /\ t \in Methods /\ f[t] \in DOMAIN Annotation
    /\ IsStatic(t) = (Annotation[f[t]].kind \in StaticKinds)

MapsType ==
  methods \subseteq DOMAIN Annotation /\ MapType(hooks) /\ MapType(backups)

RequestType ==
  /\ pc \in Hooks => req \in Requests
  /\ original \in MaybeMethods
  /\ \A n \in DOMAIN log : log[n].call \in Calls /\ log[n].req \in Requests

LEMMA TypeParts ==
  TypeOK <=> NativeType /\ CallType /\ MapsType /\ RequestType
BY DEF TypeOK, NativeType, CallType, MapsType, MapType, RequestType, Hooks,
       MaybeMethods

LEMMA TypePartsNext ==
  TypeOK' <=> NativeType' /\ CallType' /\ MapsType' /\ RequestType'
BY DEF TypeOK, NativeType, CallType, MapsType, MapType, RequestType, Hooks,
       MaybeMethods

(***************************************************************************)
(* Where methods lead changes in the two halves and when a class becomes   *)
(* visibly initialized.                                                    *)
(***************************************************************************)
LEMMA NativeSteps ==
  ASSUME [Next]_vars
  PROVE  \/ UNCHANGED dest
         \/ pc = "backup" /\ Backup
         \/ pc = "target" /\ Target
         \/ InitClass
         \/ Runtime
<1>1. CASE Hooking
  <2>1. ASSUME NEW c \in Calls, Start(c) PROVE UNCHANGED dest
    BY <2>1 DEF Start, native
  <2>2. CASE LoadInfo \/ DeclaredMethods \/ FindMethod \/ Item \/ LastItem
    BY <2>2 DEF LoadInfo, DeclaredMethods, FindMethod, Item, LastItem, Escape,
                native
  <2>3. ASSUME NEW m \in methods, Collect(m) PROVE UNCHANGED dest
    BY <2>3 DEF Collect, native
  <2>4. ASSUME NEW t \in DOMAIN hooks, Install(t) PROVE UNCHANGED dest
    BY <2>4 DEF Install, native
  <2>5. CASE LastInstall \/ Return
    BY <2>5 DEF LastInstall, Return, native
  <2>6. CASE Check
    BY <2>6 DEF Check, native, H!Renew
  <2>7. CASE Read
    BY <2>7 DEF Read, native, H!Break
  <2>8. CASE Backup \/ Target
    BY <2>8 DEF Backup, Target
  <2> QED
    BY <1>1, <2>1, <2>2, <2>3, <2>4, <2>5, <2>6, <2>7, <2>8 DEF Hooking
<1>2. CASE UNCHANGED vars
  BY <1>2 DEF vars, native
<1> QED
  BY <1>1, <1>2 DEF Next

LEMMA NativeTypeStep ==
  ASSUME IInv, [Next]_vars
  PROVE  NativeType'
<1>1. NativeType
  BY TypeParts DEF IInv
<1>2. CASE UNCHANGED <<native, failed>>
  BY <1>1, <1>2 DEF NativeType, native
<1>3. CASE Check
  BY <1>1, <1>3 DEF Check, NativeType, native, H!Renew
<1>4. CASE InitClass \/ Runtime
  BY <1>1, <1>4 DEF InitClass, Runtime, NativeType, H!Settle, H!Break
<1>5. CASE Read
  BY <1>1, <1>5 DEF Read, NativeType, native, H!Break
<1>6. CASE Backup
  <2>1. PICK m \in Methods : dest' = [dest EXCEPT ![req.backup] = m]
    BY <1>6 DEF Backup, H!Backup
  <2>2. UNCHANGED <<settled, broken, failed>>
    BY <1>6 DEF Backup, H!Backup
  <2> QED
    BY <1>1, <2>1, <2>2 DEF NativeType
<1>7. CASE Target
  <2>1. req.hook \in Methods
    BY <1>7, TypeParts DEF Target, IInv, RequestType, Hooks, Requests
  <2> QED
    BY <1>1, <1>7, <2>1 DEF Target, NativeType, H!Hook, H!Break
<1> QED
  BY <1>2, <1>3, <1>4, <1>5, <1>6, <1>7
     DEF Next, Hooking, vars, Start, LoadInfo, DeclaredMethods, FindMethod,
         Item, LastItem, Collect, Install, LastInstall, Return, Escape

LEMMA MapsTypeStep ==
  ASSUME IInv, [Next]_vars
  PROVE  MapsType'
<1>1. MapsType
  BY TypeParts DEF IInv
<1>2. CASE UNCHANGED maps
  BY <1>1, <1>2 DEF MapsType, MapType, maps
<1>3. CASE DeclaredMethods
  <2>1. CASE UNCHANGED maps
    BY <1>2, <2>1
  <2>2. CASE /\ methods' \subseteq DOMAIN Annotation
             /\ hooks' = <<>> /\ backups' = <<>>
    BY <2>2 DEF MapsType, MapType
  <2> QED
    BY <1>3, <2>1, <2>2 DEF DeclaredMethods, Escape
<1>4. ASSUME NEW m \in methods, Collect(m) PROVE MapsType'
  <2> DEFINE t == TargetOf[m]
  <2>1. m \in DOMAIN Annotation
    BY <1>1 DEF MapsType
  <2>2. ASSUME NEW f, MapType(f), t # None PROVE MapType(Put(f, t, m))
    <3>1. t \in Methods /\ IsStatic(t) = (Annotation[m].kind \in StaticKinds)
      BY <2>1, <2>2, TargetOfType
    <3> HIDE DEF t
    <3> QED
      BY <2>1, <2>2, <3>1 DEF MapType, Put
  <2>3. MapType(hooks) /\ MapType(backups)
    BY <1>1 DEF MapsType
  <2>4. /\ methods' \subseteq methods
        /\ hooks' = hooks \/ (t # None /\ hooks' = Put(hooks, t, m))
        /\ backups' = backups \/ (t # None /\ backups' = Put(backups, t, m))
    <3>1. /\ methods' = methods \ {m}
          /\ hooks' = IF t # None /\ IsHook(m) THEN Put(hooks, t, m) ELSE hooks
          /\ backups' = IF t # None /\ ~IsHook(m) THEN Put(backups, t, m)
                        ELSE backups
      BY <1>4 DEF Collect
    <3> HIDE DEF t
    <3> QED BY <3>1
  <2>5. MapType(hooks') /\ MapType(backups')
    <3> HIDE DEF t
    <3> QED BY <2>2, <2>3, <2>4
  <2> QED
    BY <1>1, <2>4, <2>5 DEF MapsType, MapType
<1>5. ASSUME NEW t \in DOMAIN hooks, Install(t) PROVE MapsType'
  BY <1>1, <1>5 DEF Install, MapsType, MapType
<1> QED
  BY <1>2, <1>3, <1>4, <1>5
     DEF Next, Hooking, vars, Start, LoadInfo, FindMethod, Item, LastItem,
         LastInstall, Check, InitClass, Read, Backup, Target, Return, Runtime,
         Escape

-----------------------------------------------------------------------------
(***************************************************************************)
(* The control of the calls, one action at a time.                         *)
(***************************************************************************)
LEMMA ControlStep ==
  ASSUME IInv, [Next]_vars
  PROVE  Control' /\ CallType'
<1>1. CallType /\ Control
  BY TypeParts DEF IInv
<1> DEFINE Goal == Control' /\ CallType'
<1>2. ASSUME NEW c \in Calls, Start(c) PROVE Goal
  BY <1>1, <1>2 DEF Start, Control, CallType, Hooks
<1>3. CASE LoadInfo
  <2>1. CASE pc' = "idle" /\ UNCHANGED <<items, req, original>> /\ call' = None
    BY <1>1, <2>1 DEF Control, CallType
  <2>2. CASE /\ call.kind = "plugin" /\ items' = call.items /\ pc' = "item"
             /\ UNCHANGED <<call, req, original>>
    <3>1. call \in Calls
      BY <1>1, <1>3 DEF LoadInfo, Control
    <3>2. items' \in Seq(Items)
      BY <2>2, <3>1, CallsAssumption
    <3> QED
      BY <2>2, <3>1, <3>2 DEF Control, CallType, Hooks
  <2> QED
    BY <1>3, <2>1, <2>2 DEF LoadInfo, Escape, End
<1>4. CASE DeclaredMethods
  BY <1>1, <1>4 DEF DeclaredMethods, Escape, End, Control, CallType, Hooks
<1>5. CASE FindMethod
  <2>1. CASE None \in {call.class, call.sig}
    BY <1>1, <1>5, <2>1 DEF FindMethod, End, Control, CallType
  <2>2. CASE None \notin {call.class, call.sig}
    <3>1. call \in Calls /\ call.kind = "method"
      BY <1>1, <1>5 DEF FindMethod, Control
    <3>2. call.class \in DOMAIN Super /\ {call.hook, call.backup} \subseteq MaybeMethods
      BY <2>2, <3>1, CallsAssumption DEF MaybeMethods
    <3>3. findMethodNative(call.class, call.sig) \in MaybeMethods
      BY <3>2, FoundType
    <3>4. req' \in Candidates /\ pc' = "check" /\ UNCHANGED <<call, items, original>>
      BY <1>5, <2>2, <3>2, <3>3 DEF FindMethod, Candidates
    <3> QED
      BY <1>1, <3>1, <3>4 DEF Control, CallType, Hooks
  <2> QED
    BY <2>1, <2>2
<1>6. CASE Item
  <2>1. Head(items) \in Items /\ Tail(items) \in Seq(Items)
    BY <1>1, <1>6 DEF Item, Control
  <2>2. CASE Loading(Head(items)) = "error" /\ Escape
    BY <1>1, <2>2 DEF Escape, End, Control, CallType
  <2>3. CASE items' = Tail(items) /\ UNCHANGED <<pc, call, req, original>>
    BY <1>1, <1>6, <2>1, <2>3 DEF Item, Control, CallType
  <2>4. CASE /\ Loading(Head(items)) = "ok" /\ req' \in ItemRequests(Head(items))
             /\ pc' = "initItem" /\ UNCHANGED <<call, items, original>>
    <3>1. req' \in Candidates
      BY <2>1, <2>4, ItemRequestsType
    <3> QED
      BY <1>1, <1>6, <2>4, <3>1 DEF Item, Control, CallType
  <2> QED
    BY <1>6, <2>2, <2>3, <2>4 DEF Item
<1>7. CASE LastItem \/ LastInstall
  BY <1>1, <1>7 DEF LastItem, LastInstall, End, Control, CallType
<1>8. ASSUME NEW m \in methods, Collect(m) PROVE Goal
  BY <1>1, <1>8 DEF Collect, Control, CallType
<1>9. ASSUME NEW t \in DOMAIN hooks, Install(t) PROVE Goal
  <2>1. hooks[t] \in MaybeMethods /\ t \in MaybeMethods
    BY TypeParts, HookItemsAssumption
       DEF IInv, MapsType, MapType, MaybeMethods
  <2>2. t \in DOMAIN backups => backups[t] \in MaybeMethods
    BY TypeParts, HookItemsAssumption
       DEF IInv, MapsType, MapType, MaybeMethods
  <2>3. req' \in Candidates
    BY <1>9, <2>1, <2>2 DEF Install, Candidates, MaybeMethods
  <2> QED
    BY <1>1, <1>9, <2>3 DEF Install, Control, CallType, Hooks
<1>10. ASSUME NEW how, Resume(how), pc \in {"check", "return"},
              UNCHANGED original
       PROVE Goal
  <2>1. call \in Calls
    BY <1>1, <1>10 DEF Control
  <2>2. CASE call.kind = "method"
    BY <1>1, <1>10, <2>2 DEF Resume, End, Control, CallType
  <2>3. CASE call.kind # "method"
    <3>1. call.kind \in {"plugin", "class"}
      BY <2>1, <2>3, CallsAssumption
    <3>2. call.kind = "plugin" => Tail(items) \in Seq(Items)
      BY <1>1, <1>10 DEF Control
    <3> QED
      BY <1>1, <1>10, <2>1, <2>3, <3>1, <3>2 DEF Resume, Control, CallType
  <2> QED
    BY <2>2, <2>3
<1>11. CASE Check
  <2>1. CASE pc' = "init" /\ UNCHANGED <<call, items, req, original>>
    BY <1>1, <1>11, <2>1 DEF Check, Control, CallType, Hooks
  <2> QED
    BY <1>10, <1>11, <2>1 DEF Check
<1>12. CASE InitClass
  BY <1>1, <1>12 DEF InitClass, Control, CallType, Hooks
<1>13. CASE Read
  <2>1. pc = "read" => dest[req.target] \in Methods
    BY TypeParts DEF IInv, NativeType, RequestType, Hooks, Requests
  <2> QED
    BY <1>1, <1>13, <2>1 DEF Read, Control, CallType, Hooks
<1>14. CASE Backup \/ Target
  BY <1>1, <1>14 DEF Backup, Target, Control, CallType, Hooks
<1>15. CASE Return
  BY <1>10, <1>15 DEF Return
<1>16. CASE Runtime \/ UNCHANGED vars
  BY <1>1, <1>16 DEF Runtime, vars, Control, CallType
<1> QED
  BY <1>2, <1>3, <1>4, <1>5, <1>6, <1>7, <1>8, <1>9, <1>11, <1>12, <1>13,
     <1>14, <1>15, <1>16 DEF Next, Hooking

-----------------------------------------------------------------------------
(***************************************************************************)
(* The log grows by one entry in each Return.                              *)
(***************************************************************************)
LEMMA LogEntry ==
  ASSUME IInv, Return, NEW entry,
         entry = [call |-> call, slot |-> Slot, req |-> req]
  PROVE  /\ entry \in Entries /\ log' = Append(log, entry)
         /\ log' \in Seq(Entries) /\ Len(log) \in Nat
         /\ DOMAIN log = 1 .. Len(log) /\ DOMAIN log' = 1 .. Len(log) + 1
         /\ \A n \in DOMAIN log : log'[n] = log[n]
         /\ log'[Len(log) + 1] = entry
<1>1. pc = "return" /\ log' = Append(log, entry) /\ log \in Seq(Entries)
  BY DEF Return, IInv
<1>2. call \in Calls /\ req \in Requests
  BY <1>1, TypeParts DEF IInv, Control, RequestType, Hooks
<1>3. Slot \in Int \cup MaybeMethods
  <2>1. CASE call.kind = "plugin"
    <3>1. Len(call.items) \in Nat /\ Len(items) \in Nat
      BY <1>2, <2>1, CallsAssumption DEF IInv, Control
    <3> QED
      BY <2>1, <3>1 DEF Slot
  <2>2. CASE call.kind = "class"
    BY <1>2, <2>2 DEF Slot, Requests, MaybeMethods
  <2>3. CASE call.kind = "method"
    BY <2>3 DEF Slot, MaybeMethods
  <2> QED
    BY <1>2, <2>1, <2>2, <2>3, CallsAssumption
<1>4. entry \in Entries
  BY <1>2, <1>3 DEF Entries
<1> HIDE DEF Slot
<1> QED
  BY <1>1, <1>4

LEMMA LogSteps ==
  ASSUME [Next]_vars
  PROVE  UNCHANGED log \/ Return
BY DEF Next, Hooking, vars, Start, LoadInfo, DeclaredMethods, FindMethod,
       Item, LastItem, Collect, Install, LastInstall, Check, InitClass, Read,
       Backup, Target, Runtime, Escape

LEMMA LogTypeStep ==
  ASSUME IInv, [Next]_vars
  PROVE  log' \in Seq(Entries)
BY LogSteps, LogEntry DEF IInv

(***************************************************************************)
(* Requests that got through the checks are never forgotten, and only      *)
(* Check adds one.                                                         *)
(***************************************************************************)
LEMMA MadeSteps ==
  ASSUME IInv, [Next]_vars
  PROVE  \/ AllMade' = AllMade
         \/ /\ pc = "check" /\ Check /\ Accepted(req)
            /\ req' = req /\ pc' = "init" /\ UNCHANGED dest
            /\ AllMade' = AllMade \cup {req}
<1>1. ASSUME pc \notin Hooks, pc' \notin Hooks, UNCHANGED log
      PROVE  AllMade' = AllMade
  BY <1>1 DEF AllMade, Hooks
<1>2. ASSUME pc \in Hooks, pc' \in Hooks, UNCHANGED <<log, req>>
      PROVE  AllMade' = AllMade
  BY <1>2 DEF AllMade, Hooks
<1>3. ASSUME NEW how, Resume(how) PROVE pc' \in {"idle", "item", "collect"}
  BY <1>3 DEF Resume, End
<1>4. ASSUME NEW c \in Calls, Start(c) PROVE AllMade' = AllMade
  BY <1>1, <1>4 DEF Start, Hooks
<1>5. CASE LoadInfo \/ DeclaredMethods \/ FindMethod \/ Item \/ LastItem
  BY <1>1, <1>5 DEF LoadInfo, DeclaredMethods, FindMethod, Item, LastItem,
                    Escape, End, Hooks
<1>6. ASSUME NEW m \in methods, Collect(m) PROVE AllMade' = AllMade
  BY <1>1, <1>6 DEF Collect, Hooks
<1>7. ASSUME NEW t \in DOMAIN hooks, Install(t) PROVE AllMade' = AllMade
  BY <1>1, <1>7 DEF Install, Hooks
<1>8. CASE LastInstall
  BY <1>1, <1>8 DEF LastInstall, End, Hooks
<1>9. CASE Check /\ ~Accepted(req)
  <2>1. pc = "check" /\ UNCHANGED log /\ pc' \in {"idle", "item", "collect"}
    BY <1>3, <1>9 DEF Check, Resume, End
  <2> QED
    BY <1>1, <2>1 DEF Hooks
<1>10. CASE Check /\ Accepted(req)
  <2>1. pc = "check" /\ UNCHANGED <<log, req, dest>> /\ pc' = "init"
    BY <1>10 DEF Check, H!Renew
  <2> DEFINE logged == {log[n].req : n \in DOMAIN log}
  <2>2. AllMade = logged /\ AllMade' = logged \cup {req}
    BY <2>1 DEF AllMade
  <2> QED
    BY <1>10, <2>1, <2>2
<1>11. CASE InitClass \/ Read \/ Backup \/ Target
  BY <1>1, <1>2, <1>11 DEF InitClass, Read, Backup, Target, Hooks
<1>12. CASE Return
  <2>1. pc = "return" /\ pc' \in {"idle", "item", "collect"}
    BY <1>3, <1>12 DEF Return
  <2>2. AllMade = {log[n].req : n \in DOMAIN log} \cup {req}
    BY <2>1 DEF AllMade
  <2>3. AllMade' = {log'[n].req : n \in DOMAIN log'}
    BY <2>1 DEF AllMade
  <2>4. PICK entry : entry = [call |-> call, slot |-> Slot, req |-> req]
    OBVIOUS
  <2>5. entry.req = req
    BY <2>4
  <2>6. /\ DOMAIN log = 1 .. Len(log) /\ DOMAIN log' = 1 .. Len(log) + 1
        /\ \A n \in DOMAIN log : log'[n] = log[n]
        /\ log'[Len(log) + 1] = entry /\ Len(log) \in Nat
    BY <1>12, <2>4, LogEntry
  <2>7. \A r : r \in AllMade' => r \in AllMade
    <3>1. SUFFICES ASSUME NEW n \in DOMAIN log' PROVE log'[n].req \in AllMade
      BY <2>3
    <3> QED
      BY <2>2, <2>5, <2>6
  <2>8. \A r : r \in AllMade => r \in AllMade'
    <3>1. \A n \in DOMAIN log : log'[n].req \in AllMade' /\ log'[n] = log[n]
      BY <2>3, <2>6
    <3>2. req \in AllMade'
      BY <2>3, <2>5, <2>6
    <3> QED
      BY <2>2, <3>1, <3>2
  <2> QED
    BY <2>7, <2>8
<1>13. CASE Runtime \/ UNCHANGED vars
  BY <1>1, <1>2, <1>13 DEF Runtime, vars
<1> QED
  BY <1>4, <1>5, <1>6, <1>7, <1>8, <1>9, <1>10, <1>11, <1>12, <1>13
     DEF Next, Hooking

LEMMA CheckedStep ==
  ASSUME IInv, [Next]_vars
  PROVE  Checked'
<1>1. ASSUME pc = "check", Accepted(req) PROVE req \in Requests
  BY <1>1, HookItemsAssumption
     DEF IInv, Control, Candidates, MaybeMethods, Requests, Accepted
<1>2. \A r \in AllMade' : r \in Requests /\ Accepted(r)
  BY <1>1, MadeSteps DEF IInv, Checked
<1> QED
  BY <1>2 DEF Checked, Accepted, Compatible, Requests

LEMMA RequestTypeStep ==
  ASSUME IInv, [Next]_vars
  PROVE  RequestType'
<1>1. RequestType /\ CallType
  BY TypeParts DEF IInv
<1>2. pc' \in Hooks => req' \in Requests
  <2>1. pc' \in Hooks => req' \in AllMade'
    BY DEF AllMade, Hooks
  <2> QED
    BY <2>1, CheckedStep DEF Checked
<1>3. original' \in MaybeMethods
  <2>1. CASE UNCHANGED original
    BY <1>1, <2>1 DEF RequestType
  <2>2. CASE Read /\ original' = dest[req.target]
    BY <1>1, <2>2, TypeParts
       DEF Read, RequestType, IInv, NativeType, Hooks, Requests, MaybeMethods
  <2> QED
    BY <2>1, <2>2
       DEF Next, Hooking, vars, Start, LoadInfo, DeclaredMethods, FindMethod,
           Item, LastItem, Collect, Install, LastInstall, Check, InitClass, Read,
           Backup, Target, Return, Runtime, Escape
<1>4. \A n \in DOMAIN log' : log'[n].call \in Calls /\ log'[n].req \in Requests
  <2>1. log' \in Seq(Entries)
    BY LogTypeStep
  <2>2. \A n \in DOMAIN log' : log'[n] \in Entries
    BY <2>1
  <2> QED
    BY <2>2 DEF Entries
<1> QED
  BY <1>2, <1>3, <1>4 DEF RequestType

(***************************************************************************)
(* Where a method leads is explained by the requests so far.               *)
(***************************************************************************)
LEMMA RedirectedStep ==
  ASSUME IInv, [Next]_vars
  PROVE  Redirected'
<1>1. AllMade \subseteq AllMade'
  BY MadeSteps
<1>2. dest \in [Methods -> Methods] /\ Redirected
  BY TypeParts DEF IInv, NativeType
<1>3. CASE UNCHANGED dest
  BY <1>1, <1>2, <1>3 DEF Redirected
<1>4. ASSUME NEW ms, H!Settle(ms) PROVE Redirected'
  <2>1. dest' = [m \in Methods |-> IF m \in ms THEN m ELSE dest[m]]
    BY <1>4 DEF H!Settle
  <2> QED
    BY <1>1, <1>2, <2>1 DEF Redirected
<1>5. CASE pc = "backup" /\ Backup
  <2>1. req \in AllMade'
    BY <1>1, <1>5 DEF AllMade
  <2>2. PICK v \in Methods : dest' = [dest EXCEPT ![req.backup] = v]
    BY <1>5 DEF Backup, H!Backup
  <2>3. \A m \in Methods : m = req.backup \/ dest'[m] = dest[m]
    BY <1>2, <2>2
  <2> QED
    BY <1>1, <1>2, <2>1, <2>3 DEF Redirected
<1>6. CASE pc = "target" /\ Target
  <2>1. req \in AllMade'
    BY <1>1, <1>6 DEF AllMade
  <2>2. CASE H!Hook(req)
    <3>1. dest' = [dest EXCEPT ![req.target] = req.hook]
      BY <2>2 DEF H!Hook
    <3>2. \A m \in Methods :
            dest'[m] = dest[m] \/ (m = req.target /\ dest'[m] = req.hook)
      BY <1>2, <3>1
    <3> QED
      BY <1>1, <1>2, <2>1, <3>2 DEF Redirected
  <2>3. CASE H!Break
    BY <1>3, <2>3 DEF H!Break
  <2> QED
    BY <1>6, <2>2, <2>3 DEF Target
<1> QED
  BY <1>3, <1>4, <1>5, <1>6, NativeSteps DEF InitClass, Runtime, H!Break

-----------------------------------------------------------------------------
LEMMA InitIInv == Init => IInv
<1> SUFFICES ASSUME Init PROVE IInv
  OBVIOUS
<1>1. dest = [m \in Methods |-> m] /\ settled \subseteq Methods /\ broken = FALSE
  BY DEF Init, H!Init
<1>2. AllMade = {}
  BY DEF Init, AllMade
<1>3. MapType(<<>>)
  BY DEF MapType
<1>4. TypeOK
  <2>1. DOMAIN log = {}
    BY DEF Init
  <2> QED
    BY <1>1, <1>3, <2>1, TypeParts
     DEF Init, NativeType, CallType, MapsType, RequestType, Hooks, MaybeMethods
<1>5. Control
  BY DEF Init, Control
<1>6. log \in Seq(Entries)
  BY DEF Init
<1> QED
  BY <1>1, <1>2, <1>4, <1>5, <1>6 DEF IInv, Checked, Redirected

LEMMA StepIInv == IInv /\ [Next]_vars => IInv'
BY TypePartsNext, NativeTypeStep, MapsTypeStep, RequestTypeStep, ControlStep,
   CheckedStep, RedirectedStep, LogTypeStep DEF IInv

(***************************************************************************)
(* While backups are apart, they keep leading to methods that fit.         *)
(***************************************************************************)
LEMMA BackupsFitStep ==
  ASSUME IInv, BackupsFit, [Next]_vars
  PROVE  BackupsFit'
<1> SUFFICES ASSUME BackupsApart'
             PROVE  /\ \A r \in AllMade' :
                         r.backup # None => Fits(r.target, dest'[r.backup])
                    /\ pc' = "backup" => Fits(req'.target, original')
  BY DEF BackupsFit, Fits, Params
<1>1. AllMade \subseteq AllMade'
  BY MadeSteps
<1>2. BackupsApart
  BY <1>1 DEF BackupsApart
<1>3. /\ \A r \in AllMade : r.backup # None => Fits(r.target, dest[r.backup])
      /\ pc = "backup" => Fits(req.target, original)
  BY <1>2 DEF BackupsFit
<1>4. dest \in [Methods -> Methods]
  BY TypeParts DEF IInv, NativeType
<1>5. \A r \in AllMade' :
        /\ r.target \in Methods /\ r.hook \in Methods
        /\ r.backup \in Methods \cup {None}
        /\ r.backup # None => Fits(r.target, r.backup)
  BY CheckedStep, AcceptedFit DEF Checked, Requests
<1>6. ASSUME NEW r \in AllMade', r.backup # None
      PROVE  Fits(r.target, dest'[r.backup])
  <2>1. CASE AllMade' = AllMade /\ UNCHANGED dest
    BY <1>3, <1>6, <2>1
  <2>2. CASE pc = "check" /\ AllMade' = AllMade \cup {req} /\ UNCHANGED dest
    <3>1. CASE r \in AllMade
      BY <1>3, <1>6, <2>2, <3>1
    <3>2. CASE dest[r.backup] = r.backup
      BY <1>5, <1>6, <2>2, <3>2
    <3>3. ~ \E s \in AllMade : s.target = r.backup
      BY <1>1, <1>6 DEF BackupsApart
    <3>4. ASSUME NEW s \in AllMade, s.backup = r.backup
          PROVE  Fits(r.target, dest'[r.backup])
      <4>1. s.target = r.target
        BY <1>1, <1>6, <3>4 DEF BackupsApart
      <4> QED
        BY <1>3, <1>6, <2>2, <3>4, <4>1
    <3>5. r.backup \in Methods
      BY <1>5, <1>6
    <3> QED
      BY <3>2, <3>3, <3>4, <3>5 DEF IInv, Redirected
  <2>3. ASSUME AllMade' = AllMade, NEW ms, H!Settle(ms)
        PROVE  Fits(r.target, dest'[r.backup])
    <3>1. r.backup \in Methods
      BY <1>5, <1>6
    <3>2. dest'[r.backup] = IF r.backup \in ms THEN r.backup ELSE dest[r.backup]
      BY <2>3, <3>1 DEF H!Settle
    <3> QED
      BY <1>3, <1>5, <1>6, <2>3, <3>2
  <2>4. CASE AllMade' = AllMade /\ pc = "backup" /\ Backup
    <3>1. req \in AllMade /\ req.backup # None
      BY <2>4 DEF AllMade, IInv, Control
    <3>2. PICK v \in Methods : dest' = [dest EXCEPT ![req.backup] = v]
      BY <2>4 DEF Backup, H!Backup
    <3>3. CASE r.backup = req.backup
      <4>1. r.target = req.target
        BY <1>1, <1>6, <3>1, <3>3 DEF BackupsApart
      <4>2. dest'[r.backup] = original
        BY <2>4, <3>3 DEF Backup
      <4> QED
        BY <1>3, <2>4, <4>1, <4>2
    <3>4. CASE r.backup # req.backup
      <4>1. dest'[r.backup] = dest[r.backup]
        BY <1>4, <1>5, <1>6, <3>2, <3>4
      <4> QED
        BY <1>3, <1>6, <2>4, <4>1
    <3> QED
      BY <3>3, <3>4
  <2>5. CASE AllMade' = AllMade /\ pc = "target" /\ Target
    <3>1. req \in AllMade
      BY <2>5 DEF AllMade
    <3>2. req.target # r.backup
      BY <1>1, <1>6, <3>1 DEF BackupsApart
    <3>3. dest'[r.backup] = dest[r.backup]
      <4>1. CASE dest' = [dest EXCEPT ![req.target] = req.hook]
        BY <1>4, <1>5, <1>6, <3>2, <4>1
      <4>2. CASE UNCHANGED dest
        BY <4>2
      <4> QED
        BY <2>5, <4>1, <4>2 DEF Target, H!Hook, H!Break
    <3> QED
      BY <1>3, <1>6, <2>5, <3>3
  <2>6. CASE AllMade' = AllMade
    BY <2>1, <2>3, <2>4, <2>5, <2>6, NativeSteps
       DEF InitClass, Runtime, H!Break
  <2> QED
    BY <2>2, <2>6, MadeSteps
<1>7. ASSUME pc' = "backup" PROVE Fits(req'.target, original')
  <2>1. CASE pc = "backup" /\ UNCHANGED <<req, original>>
    BY <1>3, <2>1
  <2>2. CASE pc = "read" /\ req' = req /\ original' = dest[req.target]
    <3>1. req \in AllMade
      BY <2>2 DEF AllMade
    <3> QED
      BY <1>2, <2>2, <3>1, TargetsFit
  <2>3. Read \/ (pc = "backup" /\ UNCHANGED <<req, original>>)
    BY <1>7 DEF Next, Hooking, vars, Start, LoadInfo, DeclaredMethods,
                FindMethod, Item, LastItem, Collect, Install, LastInstall,
                Check, InitClass, Backup, Target, Return, Runtime, Resume,
                Escape, End
  <2>4. Read => pc = "read" /\ req' = req /\ original' = dest[req.target]
    BY <1>7 DEF Read
  <2> QED
    BY <2>1, <2>2, <2>3, <2>4
<1> QED
  BY <1>6, <1>7

LEMMA FitAll == IInv /\ BackupsFit => (BackupsApart => ArgumentsFit)
BY TargetsFit DEF BackupsFit, ArgumentsFit

-----------------------------------------------------------------------------
(***************************************************************************)
(* The shape of the state; in particular the maps of hookClass only have   *)
(* methods under targets of the kind of their annotation                   *)
(* (PookAnnotation.java:88 and 104), and only what passed the checks of    *)
(* backupAndHook gets further.                                             *)
(***************************************************************************)
THEOREM TypeInvariance == Spec => []TypeOK
<1>1. IInv => TypeOK
  BY DEF IInv
<1>2. QED
  BY <1>1, InitIInv, StepIInv, PTL DEF Spec

(***************************************************************************)
(* While no backup is shared by two targets or a target itself, whatever a *)
(* target and its backup lead to takes the arguments that callers of the   *)
(* target pass, after any chain of hooks and failures (README.md:84).      *)
(***************************************************************************)
THEOREM ArgumentsAlwaysFit == Spec => [](BackupsApart => ArgumentsFit)
<1> DEFINE FInv == IInv /\ BackupsFit
<1>1. Init => FInv
  <2>1. Init => AllMade = {} /\ pc = "idle"
    BY DEF Init, AllMade
  <2> QED
    BY <2>1, InitIInv DEF BackupsFit
<1>2. FInv /\ [Next]_vars => FInv'
  BY StepIInv, BackupsFitStep
<1>3. FInv => (BackupsApart => ArgumentsFit)
  BY FitAll
<1> HIDE DEF FInv
<1>4. QED
  BY <1>1, <1>2, <1>3, PTL DEF Spec

-----------------------------------------------------------------------------
(***************************************************************************)
(* What a call hands over.                                                 *)
(***************************************************************************)
\* What a call has handed over.
Made(c) == {log[n] : n \in Turns(c)}

\* One of the requests of a slot was made, or not all of them are valid.
Met(d, s, made) == (\E e \in made : e.slot = d) \/ \E r \in s : ~Accepted(r)

\* What HandedOver says of a call, but for the number of times.
Complete(c, made) ==
  /\ \A e \in made : /\ e.slot \in DOMAIN Slots(c) /\ e.req \in Slots(c)[e.slot]
                     /\ Accepted(e.req)
  /\ \A d \in DOMAIN Slots(c) : Met(d, Slots(c)[d], made)

\* doHookDefault has come to the n-th item of the call, the rest being left.
PluginAt(c, n, rest, made) ==
  /\ n <= Len(c.items) /\ Len(rest) = Len(c.items) - n
  /\ \A i \in 1 .. Len(rest) : rest[i] = c.items[n + i]
  /\ \A i \in 1 .. n :
       Loading(c.items[i]) = "ok" => Met(i, ItemRequests(c.items[i]), made)
  /\ \A e \in made :
       /\ e.slot \in 1 .. n /\ Loading(c.items[e.slot]) = "ok"
       /\ e.req \in ItemRequests(c.items[e.slot])

\* The annotated methods of a class for a target.
Group(c, t, hooking) ==
  {m \in DOMAIN Annotation :
     Decl[m].class = c.class /\ TargetOf[m] = t /\ hooking = IsHook(m)}

Targets(c) == {t \in Methods : Group(c, t, TRUE) # {}}

ClassSlot(c, t) ==
  [target : {t}, hook : Group(c, t, TRUE), backup : OrNone(Group(c, t, FALSE))]

\* hookClass has the methods ms left to look at and the maps hs and bs, and is
\* busy with the targets in now.
ClassAt(c, ms, hs, bs, now, made) ==
  /\ ms \subseteq {m \in DOMAIN Annotation : Decl[m].class = c.class}
  /\ \A t \in DOMAIN hs : hs[t] \in Group(c, t, TRUE)
  /\ \A t \in DOMAIN bs : bs[t] \in Group(c, t, FALSE)
  /\ \A t \in Methods : Group(c, t, FALSE) # {} =>
       t \in DOMAIN bs \/ Group(c, t, FALSE) \cap ms # {}
  /\ now \subseteq Targets(c) \ DOMAIN hs
  /\ now # {} \/ made # {} => ms = {}
  /\ \A t \in Targets(c) :
       \/ t \in DOMAIN hs \cup now \/ Group(c, t, TRUE) \cap ms # {}
       \/ Met(t, ClassSlot(c, t), made)
  /\ \A e \in made :
       /\ e.slot \in Targets(c) \ (DOMAIN hs \cup now)
       /\ e.req \in ClassSlot(c, e.slot)

\* The call under way.
Progress ==
  pc \notin {"idle", "load"} =>
    /\ call.kind = "plugin" =>
         /\ Load[call.info] = "ok"
         /\ \E n \in Nat : PluginAt(call, n, items, Made(call))
         /\ pc # "item" => /\ Loading(Head(items)) = "ok"
                           /\ req \in ItemRequests(Head(items))
    /\ call.kind = "class" =>
         /\ ClassAt(call, methods, hooks, backups,
                    IF pc = "collect" THEN {} ELSE {req.target}, Made(call))
         /\ pc # "collect" => req \in ClassSlot(call, req.target)
    /\ call.kind = "method" =>
         Made(call) = {} /\ Slots(call) = [n \in {None} |-> {req}]

\* Each call is made once.
Once ==
  /\ \A x \in ended : x.call \in Calls
  /\ \A n \in DOMAIN log :
       \/ pc # "idle" /\ log[n].call = call
       \/ \E x \in ended : log[n].call = x.call
  /\ pc # "idle" => \A x \in ended : x.call # call
  /\ pc = "load" => Made(call) = {}

Completed == \A x \in ended : x.how # "error" => Complete(x.call, Made(x.call))

\* Nothing is handed over twice for one slot.
OncePerSlot ==
  \A m, n \in DOMAIN log :
    log[m].call = log[n].call /\ log[m].slot = log[n].slot => m = n

HandInv == Progress /\ Once /\ Completed /\ OncePerSlot

(***************************************************************************)
(* A set in which any two elements are equal has at most one.              *)
(***************************************************************************)
LEMMA AtMostOne ==
  ASSUME NEW S, \A r, q \in S : r = q
  PROVE  Cardinality(S) <= 1
<1>1. CASE S = {}
  BY <1>1, FS_EmptySet
<1>2. ASSUME NEW r \in S PROVE Cardinality(S) <= 1
  <2>1. S = {r}
    OBVIOUS
  <2>2. QED
    BY <2>1, FS_Singleton
<1>3. QED
  BY <1>1, <1>2

\* A slot that was met stays met.
LEMMA MetMore ==
  ASSUME NEW d, NEW s, NEW made, NEW more, made \subseteq more, Met(d, s, made)
  PROVE  Met(d, s, more)
BY DEF Met

-----------------------------------------------------------------------------
(***************************************************************************)
(* The items of a plugin, one after the other.                             *)
(***************************************************************************)
LEMMA PluginItems ==
  ASSUME NEW c \in Calls, c.kind = "plugin"
  PROVE  /\ c.items \in Seq(Items) /\ Len(c.items) \in Nat
         /\ DOMAIN c.items = 1 .. Len(c.items)
BY CallsAssumption

LEMMA PluginSlots ==
  ASSUME NEW c, c.kind = "plugin"
  PROVE  Slots(c) = [n \in {k \in DOMAIN c.items :
                              Load[c.info] = "ok" /\ Loading(c.items[k]) = "ok"} |->
                       ItemRequests(c.items[n])]
BY DEF Slots

LEMMA PluginFirst ==
  ASSUME NEW c \in Calls, c.kind = "plugin"
  PROVE  PluginAt(c, 0, c.items, {})
<1>1. 1 .. 0 = {}
  OBVIOUS
<1>2. QED
  BY <1>1, PluginItems DEF PluginAt

LEMMA PluginNext ==
  ASSUME NEW c \in Calls, c.kind = "plugin", NEW n \in Nat,
         NEW rest \in Seq(Items), rest # <<>>, NEW made, NEW more,
         PluginAt(c, n, rest, made),
         \/ /\ more = made
            /\ Loading(Head(rest)) = "ok" =>
                 \E r \in ItemRequests(Head(rest)) : ~Accepted(r)
         \/ /\ Loading(Head(rest)) = "ok"
            /\ \E e : /\ more = made \cup {e} /\ e.slot = n + 1
                     /\ e.req \in ItemRequests(Head(rest))
  PROVE  PluginAt(c, n + 1, Tail(rest), more)
<1> DEFINE k == n + 1
           i == Head(rest)
           R(j) == ItemRequests(c.items[j])
<1>1. /\ Len(c.items) \in Nat /\ Len(rest) \in Nat
      /\ n <= Len(c.items) /\ Len(rest) = Len(c.items) - n
      /\ Len(rest) >= 1 /\ DOMAIN c.items = 1 .. Len(c.items)
  BY PluginItems DEF PluginAt
<1>2. k \in 1 .. Len(c.items) /\ c.items[k] = i
  BY <1>1 DEF PluginAt
<1>3. /\ Len(Tail(rest)) = Len(c.items) - k
      /\ \A j \in 1 .. Len(Tail(rest)) : Tail(rest)[j] = c.items[k + j]
  <2>1. Len(Tail(rest)) = Len(rest) - 1
    BY <1>1
  <2>2. \A j \in 1 .. Len(Tail(rest)) : Tail(rest)[j] = rest[j + 1]
    BY <1>1
  <2>3. SUFFICES ASSUME NEW j \in 1 .. Len(Tail(rest))
                 PROVE  Tail(rest)[j] = c.items[k + j]
    BY <1>1, <2>1
  <2>4. j + 1 \in 1 .. Len(rest) /\ n + (j + 1) = k + j
    BY <1>1, <2>1
  <2>5. rest[j + 1] = c.items[n + (j + 1)]
    BY <2>4 DEF PluginAt
  <2>6. QED
    BY <2>2, <2>3, <2>4, <2>5
<1>4. made \subseteq more
  OBVIOUS
<1>5. \A j \in 1 .. k : j = k \/ j \in 1 .. n
  BY <1>1
<1>6. ASSUME NEW j \in 1 .. k, Loading(c.items[j]) = "ok"
      PROVE  Met(j, R(j), more)
  <2>1. CASE j \in 1 .. n
    BY <1>4, <1>6, <2>1, MetMore DEF PluginAt
  <2>2. CASE j = k
    BY <1>2, <1>6, <2>2 DEF Met
  <2>3. QED
    BY <1>5, <2>1, <2>2
<1>7. ASSUME NEW e \in more
      PROVE  e.slot \in 1 .. k /\ Loading(c.items[e.slot]) = "ok" /\ e.req \in R(e.slot)
  <2>1. CASE e \in made
    <3>1. e.slot \in 1 .. n
      BY <2>1 DEF PluginAt
    <3>2. e.slot \in 1 .. k
      BY <1>1, <3>1
    <3>3. QED
      BY <2>1, <3>2 DEF PluginAt
  <2>2. CASE e \notin made
    <3>1. Loading(i) = "ok" /\ e.slot = k /\ e.req \in ItemRequests(i)
      BY <1>7, <2>2
    <3>2. k \in 1 .. k
      BY <1>1
    <3>3. QED
      BY <1>2, <3>1, <3>2
  <2>3. QED
    BY <2>1, <2>2
<1>9. k <= Len(c.items)
  BY <1>1, <1>2
<1>10. QED
  <2> HIDE DEF k
  <2>1. PluginAt(c, k, Tail(rest), more)
    BY <1>3, <1>6, <1>7, <1>9 DEF PluginAt
  <2>2. QED
    BY <2>1 DEF k

LEMMA PluginLast ==
  ASSUME NEW c \in Calls, c.kind = "plugin", NEW n \in Nat, NEW made,
         PluginAt(c, n, <<>>, made), Load[c.info] = "ok",
         \A e \in made : Accepted(e.req)
  PROVE  Complete(c, made)
<1>1. n = Len(c.items) /\ DOMAIN c.items = 1 .. n
  BY PluginItems DEF PluginAt
<1>2. /\ DOMAIN Slots(c) = {k \in 1 .. n : Loading(c.items[k]) = "ok"}
      /\ \A k \in DOMAIN Slots(c) : Slots(c)[k] = ItemRequests(c.items[k])
  <2>1. DOMAIN Slots(c) =
          {k \in DOMAIN c.items : Load[c.info] = "ok" /\ Loading(c.items[k]) = "ok"}
    BY PluginSlots
  <2>2. \A k \in DOMAIN Slots(c) : Slots(c)[k] = ItemRequests(c.items[k])
    BY PluginSlots
  <2>3. \A k : k \in DOMAIN c.items <=> k \in 1 .. n
    BY <1>1
  <2>4. QED
    BY <2>1, <2>2, <2>3
<1>3. ASSUME NEW e \in made
      PROVE  e.slot \in DOMAIN Slots(c) /\ e.req \in Slots(c)[e.slot]
  BY <1>2 DEF PluginAt
<1>4. ASSUME NEW d \in DOMAIN Slots(c) PROVE Met(d, Slots(c)[d], made)
  BY <1>2 DEF PluginAt
<1>5. QED
  BY <1>3, <1>4 DEF Complete

LEMMA PluginUnloaded ==
  ASSUME NEW c, c.kind = "plugin", Load[c.info] # "ok"
  PROVE  Complete(c, {})
BY PluginSlots DEF Complete

-----------------------------------------------------------------------------
(***************************************************************************)
(* The annotated methods of a class.                                       *)
(***************************************************************************)
LEMMA ClassSlots ==
  ASSUME NEW c, c.kind = "class"
  PROVE  Slots(c) = [t \in Targets(c) |-> ClassSlot(c, t)]
BY DEF Slots, ClassSlot, Targets, Group, IsHook

LEMMA ClassFirst ==
  ASSUME NEW c, NEW ms,
         ms = {m \in DOMAIN Annotation : Decl[m].class = c.class}
  PROVE  ClassAt(c, ms, <<>>, <<>>, {}, {})
<1>1. \A t : \A m \in Group(c, t, TRUE) : m \in ms
  BY DEF Group
<1>2. \A t : \A m \in Group(c, t, FALSE) : m \in ms
  BY DEF Group
<1>3. \A t \in Targets(c) : Group(c, t, TRUE) # {}
  BY DEF Targets
<1>4. ASSUME NEW e, DOMAIN e = {} PROVE ClassAt(c, ms, e, e, {}, {})
  <2>1. {} \subseteq Targets(c) \ DOMAIN e
    OBVIOUS
  <2>2. \A t \in Methods : Group(c, t, FALSE) # {} =>
          t \in DOMAIN e \/ Group(c, t, FALSE) \cap ms # {}
    BY <1>2
  <2>3. \A t \in Targets(c) :
          \/ t \in DOMAIN e \cup {} \/ Group(c, t, TRUE) \cap ms # {}
          \/ Met(t, ClassSlot(c, t), {})
    BY <1>1, <1>3
  <2>4. /\ \A t \in DOMAIN e : e[t] \in Group(c, t, TRUE)
        /\ \A t \in DOMAIN e : e[t] \in Group(c, t, FALSE)
    BY <1>4
  <2>5. QED
    BY <2>1, <2>2, <2>3, <2>4 DEF ClassAt
<1>5. DOMAIN <<>> = {}
  OBVIOUS
<1>6. QED
  BY <1>4, <1>5

LEMMA ClassCollect ==
  ASSUME NEW c, NEW ms, NEW hs, NEW bs, NEW made,
         ClassAt(c, ms, hs, bs, {}, made),
         NEW m \in ms,
         NEW t, t = TargetOf[m],
         NEW hs2, hs2 = IF t # None /\ IsHook(m) THEN Put(hs, t, m) ELSE hs,
         NEW bs2, bs2 = IF t # None /\ ~IsHook(m) THEN Put(bs, t, m) ELSE bs
  PROVE  ClassAt(c, ms \ {m}, hs2, bs2, {}, made)
<1>1. made = {} /\ m \in DOMAIN Annotation /\ Decl[m].class = c.class
  BY DEF ClassAt
<1>2. t # None => t \in Methods
  BY <1>1, TargetOfType
<1>3. \A u, h : m \in Group(c, u, h) <=> u = t /\ h = IsHook(m)
  BY <1>1 DEF Group
<1>4. \A h \in BOOLEAN : \A u \in Methods :
        Group(c, u, h) \cap ms # {} =>
          \/ Group(c, u, h) \cap (ms \ {m}) # {}
          \/ u = t /\ h = IsHook(m)
  BY <1>3
<1>5. /\ \A u \in DOMAIN hs2 : hs2[u] \in Group(c, u, TRUE)
      /\ DOMAIN hs \subseteq DOMAIN hs2
      /\ t # None /\ IsHook(m) => t \in DOMAIN hs2
      /\ \A u \in DOMAIN hs2 : u \in DOMAIN hs \/ (u = t /\ IsHook(m))
  <2>1. CASE t # None /\ IsHook(m)
    <3>1. /\ DOMAIN hs2 = DOMAIN hs \cup {t}
          /\ \A u \in DOMAIN hs \cup {t} : hs2[u] = IF u = t THEN m ELSE hs[u]
      <4>1. hs2 = Put(hs, t, m)
        BY <2>1
      <4>2. QED
        BY <4>1 DEF Put
    <3>2. m \in Group(c, t, TRUE)
      BY <1>1, <2>1 DEF Group
    <3>3. QED
      BY <2>1, <3>1, <3>2 DEF ClassAt
  <2>2. CASE ~(t # None /\ IsHook(m))
    BY <2>2 DEF ClassAt
  <2>3. QED
    BY <2>1, <2>2
<1>6. /\ \A u \in DOMAIN bs2 : bs2[u] \in Group(c, u, FALSE)
      /\ DOMAIN bs \subseteq DOMAIN bs2
      /\ t # None /\ ~IsHook(m) => t \in DOMAIN bs2
  <2>1. CASE t # None /\ ~IsHook(m)
    <3>1. /\ DOMAIN bs2 = DOMAIN bs \cup {t}
          /\ \A u \in DOMAIN bs \cup {t} : bs2[u] = IF u = t THEN m ELSE bs[u]
      <4>1. bs2 = Put(bs, t, m)
        BY <2>1
      <4>2. QED
        BY <4>1 DEF Put
    <3>2. m \in Group(c, t, FALSE)
      BY <1>1, <2>1 DEF Group, IsHook
    <3>3. QED
      BY <2>1, <3>1, <3>2 DEF ClassAt
  <2>2. CASE ~(t # None /\ ~IsHook(m))
    BY <2>2 DEF ClassAt
  <2>3. QED
    BY <2>1, <2>2
<1>7. ASSUME NEW u \in Methods, Group(c, u, FALSE) # {}
      PROVE  u \in DOMAIN bs2 \/ Group(c, u, FALSE) \cap (ms \ {m}) # {}
  <2>1. u \in DOMAIN bs \/ Group(c, u, FALSE) \cap ms # {}
    BY <1>7 DEF ClassAt
  <2>2. u # None
    BY HookItemsAssumption
  <2>3. QED
    BY <1>4, <1>6, <2>1, <2>2
<1>8. ASSUME NEW u \in Targets(c)
      PROVE  \/ u \in DOMAIN hs2 \/ Group(c, u, TRUE) \cap (ms \ {m}) # {}
             \/ Met(u, ClassSlot(c, u), made)
  <2>1. \/ u \in DOMAIN hs \/ Group(c, u, TRUE) \cap ms # {}
        \/ Met(u, ClassSlot(c, u), made)
    BY <1>8 DEF ClassAt
  <2>2. u \in Methods /\ u # None
    BY <1>8, HookItemsAssumption DEF Targets
  <2>3. QED
    BY <1>4, <1>5, <2>1, <2>2
<1>9. QED
  BY <1>1, <1>5, <1>6, <1>7, <1>8 DEF ClassAt

LEMMA ClassInstall ==
  ASSUME NEW c, NEW hs, NEW bs, NEW made,
         ClassAt(c, {}, hs, bs, {}, made),
         NEW t \in DOMAIN hs, t \in Methods,
         NEW r, r = [target |-> t, hook |-> hs[t],
                     backup |-> IF t \in DOMAIN bs THEN bs[t] ELSE None]
  PROVE  /\ ClassAt(c, {}, [u \in DOMAIN hs \ {t} |-> hs[u]], bs, {t}, made)
         /\ r \in ClassSlot(c, t)
<1>1. hs[t] \in Group(c, t, TRUE) /\ t \in Targets(c)
  BY DEF ClassAt, Targets
<1>2. (IF t \in DOMAIN bs THEN bs[t] ELSE None) \in OrNone(Group(c, t, FALSE))
  BY DEF ClassAt, OrNone
<1>3. r \in ClassSlot(c, t)
  BY <1>1, <1>2 DEF ClassSlot
<1>4. \A e \in made : e.slot # t
  BY DEF ClassAt
<1>5. QED
  BY <1>1, <1>3, <1>4 DEF ClassAt

LEMMA ClassInstalled ==
  ASSUME NEW c, NEW hs, NEW bs, NEW made, NEW more, NEW r,
         ClassAt(c, {}, hs, bs, {r.target}, made),
         r \in ClassSlot(c, r.target),
         \/ more = made /\ ~Accepted(r)
         \/ \E e : more = made \cup {e} /\ e.slot = r.target /\ e.req = r
  PROVE  ClassAt(c, {}, hs, bs, {}, more)
<1>1. made \subseteq more
      /\ \A e \in more : e \in made \/ (e.slot = r.target /\ e.req = r)
  OBVIOUS
<1>2. Met(r.target, ClassSlot(c, r.target), more)
  BY DEF Met
<1>3. \A t \in Targets(c) : t \in DOMAIN hs \/ Met(t, ClassSlot(c, t), more)
  BY <1>1, <1>2, MetMore DEF ClassAt
<1>4. \A e \in more : /\ e.slot \in Targets(c) \ (DOMAIN hs \cup {})
                      /\ e.req \in ClassSlot(c, e.slot)
  BY <1>1 DEF ClassAt
<1>5. QED
  BY <1>3, <1>4 DEF ClassAt

LEMMA ClassLast ==
  ASSUME NEW c, c.kind = "class", NEW hs, NEW bs, NEW made,
         ClassAt(c, {}, hs, bs, {}, made), DOMAIN hs = {},
         \A e \in made : Accepted(e.req)
  PROVE  Complete(c, made)
<1>1. /\ DOMAIN Slots(c) = Targets(c)
      /\ \A t \in Targets(c) : Slots(c)[t] = ClassSlot(c, t)
  BY ClassSlots
<1>2. \A t \in Targets(c) : Met(t, ClassSlot(c, t), made)
  BY DEF ClassAt
<1>3. \A e \in made : e.slot \in Targets(c) /\ e.req \in ClassSlot(c, e.slot)
  BY DEF ClassAt
<1>4. QED
  BY <1>1, <1>2, <1>3 DEF Complete

-----------------------------------------------------------------------------
(***************************************************************************)
(* The log of the requests.                                                *)
(***************************************************************************)
LEMMA MadeSame ==
  ASSUME UNCHANGED log
  PROVE  \A c : Made(c)' = Made(c)
BY DEF Made, Turns

LEMMA MadeReturn ==
  ASSUME IInv, NEW c, c = call, Return, NEW entry,
         entry = [call |-> call, slot |-> Slot, req |-> req]
  PROVE  /\ Made(c)' = Made(c) \cup {entry}
         /\ \A d : d # c => Made(d)' = Made(d)
<1>1. entry.call = c
  OBVIOUS
<1>2. /\ DOMAIN log = 1 .. Len(log) /\ DOMAIN log' = 1 .. Len(log) + 1
      /\ \A n \in DOMAIN log : log'[n] = log[n]
      /\ log'[Len(log) + 1] = entry /\ Len(log) \in Nat
  BY LogEntry
<1>3. ASSUME NEW d PROVE Turns(d)' = IF d = c THEN Turns(d) \cup {Len(log) + 1}
                                     ELSE Turns(d)
  BY <1>1, <1>2 DEF Turns
<1>4. ASSUME NEW d
      PROVE  {log'[n] : n \in Turns(d)} = Made(d) /\ Len(log) + 1 \notin Turns(d)
  BY <1>2 DEF Turns, Made
<1>5. ASSUME NEW d, d # c PROVE Made(d)' = Made(d)
  BY <1>3, <1>4, <1>5 DEF Made
<1>6. Made(c)' = Made(c) \cup {entry}
  <2>1. Made(c)' = {log'[n] : n \in Turns(c) \cup {Len(log) + 1}}
    BY <1>3 DEF Made
  <2>2. QED
    BY <1>2, <1>4, <2>1
<1>7. QED
  BY <1>5, <1>6

LEMMA MadeAccepted ==
  ASSUME Checked
  PROVE  /\ \A c : \A e \in Made(c) : Accepted(e.req)
         /\ pc = "return" => Accepted(req)
BY DEF Checked, AllMade, Made, Turns

\* A call that was not made before has handed over nothing.
LEMMA MadeNothing ==
  ASSUME Once, NEW c, \A x \in ended : x.call # c, pc # "idle" => c # call
  PROVE  Made(c) = {}
BY DEF Once, Made, Turns

\* The call under way goes on, or ends and is complete.
Continues(c) ==
  \/ UNCHANGED ended /\ (pc # "idle" => pc' # "idle" /\ call' = call)
  \/ /\ pc # "idle" /\ pc' = "idle"
     /\ \E how : /\ ended' = ended \cup {[call |-> c, how |-> how]}
                 /\ how = "error" \/ Complete(c, Made(c)')

LEMMA QuietProgress ==
  ASSUME Progress, UNCHANGED <<call, items, maps, req, log, ended>>,
         pc' \in {"idle", "load"} <=> pc \in {"idle", "load"},
         pc' = "idle" <=> pc = "idle",
         pc' = "item" <=> pc = "item", pc' = "collect" <=> pc = "collect",
         NEW c
  PROVE  Progress' /\ Continues(c)
<1>1. Continues(c)
  BY DEF Continues
<1>2. CASE pc \in {"idle", "load"}
  <2>1. pc' \in {"idle", "load"}
    BY <1>2
  <2>2. Progress'
    BY <2>1, Zenon DEF Progress
  <2>3. QED
    BY <1>1, <2>2
<1>3. CASE pc \notin {"idle", "load"}
  <2>1. Made(call)' = Made(call)
    BY DEF Made, Turns
  <2>2. (IF pc = "collect" THEN {} ELSE {req.target})'
           = IF pc = "collect" THEN {} ELSE {req.target}
    OBVIOUS
  <2>3. UNCHANGED <<methods, hooks, backups>>
    BY DEF maps
  <2>4. QED
    BY <1>1, <1>3, <2>1, <2>2, <2>3 DEF Progress
<1>4. QED
  BY <1>2, <1>3

LEMMA ResumeProgress ==
  ASSUME IInv, Progress, NEW c \in Calls, c = call,
         pc \in {"check", "return"}, NEW how, Resume(how), UNCHANGED maps,
         NEW more, more = Made(c)', \A e \in more : Accepted(e.req),
         \/ more = Made(c) /\ ~Accepted(req)
         \/ \E e : more = Made(c) \cup {e} /\ e.slot = Slot /\ e.req = req
  PROVE  Progress' /\ Continues(c)
<1>1. c.kind \in {"plugin", "class", "method"}
  BY CallsAssumption
<1>2. UNCHANGED <<methods, hooks, backups>>
  BY DEF maps
<1>3. CASE c.kind = "method"
  <2>1. End(how) /\ pc' = "idle" /\ ended' = ended \cup {[call |-> c, how |-> how]}
    BY <1>3 DEF Resume, End
  <2>2. Made(c) = {} /\ Slots(c) = [n \in {None} |-> {req}] /\ Slot = None
    BY <1>3 DEF Progress, Slot
  <2>3. Complete(c, more)
    <3>1. DOMAIN Slots(c) = {None} /\ Slots(c)[None] = {req}
      BY <2>2
    <3>2. \A e \in more : e.slot = None /\ e.req = req
      BY <2>2
    <3>3. Met(None, {req}, more)
      BY <2>2 DEF Met
    <3>4. QED
      BY <3>1, <3>2, <3>3 DEF Complete
  <2>4. QED
    BY <2>1, <2>3 DEF Progress, Continues
<1>4. CASE c.kind = "plugin"
  <2>1. /\ pc' = "item" /\ items' = Tail(items) /\ UNCHANGED <<call, ended>>
    BY <1>4 DEF Resume
  <2>2. /\ Load[c.info] = "ok" /\ Loading(Head(items)) = "ok"
        /\ req \in ItemRequests(Head(items))
    BY <1>4 DEF Progress
  <2>3. PICK n \in Nat : PluginAt(c, n, items, Made(c))
    BY <1>4 DEF Progress
  <2>4. items \in Seq(Items) /\ items # <<>>
    BY <1>4 DEF IInv, Control
  <2>5. PluginAt(c, n + 1, Tail(items), more)
    <3> DEFINE made == Made(c)
    <3>1. Slot = n + 1
      <4>1. Len(items) = Len(c.items) - n
        BY <2>3 DEF PluginAt
      <4>2. Len(c.items) \in Nat
        BY <1>4, PluginItems
      <4>3. Slot = Len(c.items) - Len(items) + 1
        BY <1>4 DEF Slot
      <4>4. QED
        BY <4>1, <4>2, <4>3
    <3>2. \/ /\ more = made
             /\ Loading(Head(items)) = "ok" =>
                  \E r \in ItemRequests(Head(items)) : ~Accepted(r)
          \/ /\ Loading(Head(items)) = "ok"
             /\ \E e : /\ more = made \cup {e} /\ e.slot = n + 1
                      /\ e.req \in ItemRequests(Head(items))
      BY <2>2, <3>1
    <3>3. PluginAt(c, n, items, made)
      BY <2>3
    <3> HIDE DEF made
    <3>4. QED
      BY <1>4, <2>4, <3>2, <3>3, PluginNext
  <2>6. n + 1 \in Nat
    OBVIOUS
  <2>7. call' = c /\ Made(call)' = more
    <3>1. call' = c
      BY <2>1
    <3>2. QED
      BY <3>1 DEF Made, Turns
  <2>8. Progress'
    BY <1>4, <2>1, <2>2, <2>5, <2>6, <2>7 DEF Progress
  <2>9. QED
    BY <2>1, <2>8 DEF Continues
<1>5. CASE c.kind = "class"
  <2>1. pc' = "collect" /\ UNCHANGED <<call, ended>>
    BY <1>5 DEF Resume
  <2>2. /\ ClassAt(c, methods, hooks, backups, {req.target}, Made(c))
        /\ req \in ClassSlot(c, req.target)
    BY <1>5 DEF Progress
  <2>3. methods = {}
    BY <2>2 DEF ClassAt
  <2>4. ClassAt(c, methods, hooks, backups, {}, more)
    <3>1. Slot = req.target
      BY <1>5 DEF Slot
    <3>2. QED
      BY <2>2, <2>3, <3>1, ClassInstalled
  <2>5. call' = c /\ Made(call)' = more
    <3>1. call' = c
      BY <2>1
    <3>2. QED
      BY <3>1 DEF Made, Turns
  <2>6. Progress'
    BY <1>2, <1>5, <2>1, <2>4, <2>5 DEF Progress
  <2>7. QED
    BY <2>1, <2>6 DEF Continues
<1>6. QED
  BY <1>1, <1>3, <1>4, <1>5

LEMMA StepProgress ==
  ASSUME IInv, Once, Progress, [Next]_vars,
         NEW c, pc # "idle" => c = call
  PROVE  Progress' /\ Continues(c)
<1> DEFINE Goal == Progress' /\ Continues(c)
<1>1. /\ pc # "idle" => call \in Calls /\ c \in Calls
      /\ \A d : \A e \in Made(d) : Accepted(e.req)
      /\ pc = "return" => Accepted(req)
  BY MadeAccepted DEF IInv, Control
<1>2. ASSUME NEW d \in Calls, Start(d) PROVE Goal
  BY <1>2 DEF Start, Progress, Continues
<1>3. ASSUME pc # "idle", Escape PROVE Goal
  BY <1>3 DEF Escape, End, Progress, Continues
<1>4. CASE LoadInfo
  <2>1. pc = "load" /\ c.kind = "plugin" /\ Made(c) = {}
    BY <1>4 DEF LoadInfo, Once
  <2>2. CASE Escape
    BY <1>3, <2>1, <2>2
  <2>3. CASE Load[call.info] = "exception" /\ End("ok") /\ UNCHANGED log
    <3>1. Complete(c, {}) /\ Made(c)' = {}
      BY <2>1, <2>3, PluginUnloaded, MadeSame
    <3>2. QED
      BY <2>1, <2>3, <3>1 DEF End, Progress, Continues
  <2>4. CASE /\ Load[call.info] = "ok" /\ items' = call.items /\ pc' = "item"
             /\ UNCHANGED <<call, log, ended>>
    <3>1. PluginAt(c, 0, c.items, {})
      BY <1>1, <2>1, PluginFirst
    <3>2. Made(call)' = {}
      BY <2>1, <2>4 DEF Made, Turns
    <3>3. call' = c /\ c.kind = "plugin" /\ 0 \in Nat
      BY <2>1, <2>4
    <3>4. Progress'
      BY <2>1, <2>4, <3>1, <3>2, <3>3 DEF Progress
    <3>5. QED
      BY <2>4, <3>4 DEF Continues
  <2>5. QED
    BY <1>4, <2>2, <2>3, <2>4 DEF LoadInfo
<1>5. CASE DeclaredMethods
  <2>1. pc = "load" /\ c.kind = "class" /\ Made(c) = {}
    BY <1>5 DEF DeclaredMethods, Once
  <2>2. CASE Escape
    BY <1>3, <2>1, <2>2
  <2>3. CASE /\ methods' = {m \in DOMAIN Annotation : Decl[m].class = call.class}
             /\ hooks' = <<>> /\ backups' = <<>> /\ pc' = "collect"
             /\ UNCHANGED <<call, log, ended>>
    <3>1. ClassAt(c, methods', <<>>, <<>>, {}, {})
      BY <2>1, <2>3, ClassFirst
    <3>2. Made(call)' = {}
      BY <2>1, <2>3 DEF Made, Turns
    <3>3. call' = c /\ c.kind = "class"
      BY <2>1, <2>3
    <3>4. ClassAt(call', methods', hooks', backups',
                  IF pc' = "collect" THEN {} ELSE {req'.target}, Made(call)')
      BY <2>3, <3>1, <3>2, <3>3
    <3>5. Progress'
      BY <2>3, <3>3, <3>4 DEF Progress
    <3>6. QED
      BY <2>3, <3>5 DEF Continues
  <2>4. QED
    BY <1>5, <2>2, <2>3 DEF DeclaredMethods
<1>6. CASE FindMethod
  <2>1. pc = "load" /\ c.kind = "method" /\ Made(c) = {} /\ UNCHANGED log
    BY <1>6 DEF FindMethod, Once
  <2>2. CASE None \in {call.class, call.sig}
    <3>1. DOMAIN Slots(c) = {}
      BY <2>1, <2>2 DEF Slots
    <3>2. Complete(c, {}) /\ Made(c)' = {}
      BY <2>1, <3>1, MadeSame DEF Complete
    <3>3. End("exception")
      BY <1>6, <2>2 DEF FindMethod
    <3>4. QED
      BY <2>1, <3>2, <3>3 DEF End, Progress, Continues
  <2>3. CASE None \notin {call.class, call.sig}
    <3>1. /\ req' = [target |-> findMethodNative(c.class, c.sig),
                     hook |-> c.hook, backup |-> c.backup]
          /\ pc' = "check" /\ UNCHANGED <<call, ended>>
      BY <1>6, <2>1, <2>3 DEF FindMethod
    <3>2. Slots(c) = [n \in {None} |-> {req'}]
      BY <2>1, <2>3, <3>1 DEF Slots
    <3>3. Made(call)' = {}
      BY <2>1, <3>1 DEF Made, Turns
    <3>4. call' = c /\ c.kind = "method"
      BY <2>1, <3>1
    <3>5. Progress'
      BY <3>1, <3>2, <3>3, <3>4 DEF Progress
    <3>6. QED
      BY <3>1, <3>5 DEF Continues
  <2>4. QED
    BY <2>2, <2>3
<1>7. CASE Item
  <2> DEFINE i == Head(items)
  <2>1. /\ pc = "item" /\ c.kind = "plugin" /\ c = call /\ Load[c.info] = "ok"
        /\ items \in Seq(Items) /\ items # <<>>
    BY <1>7 DEF Item, IInv, Control, Progress
  <2>2. PICK n \in Nat : PluginAt(c, n, items, Made(c))
    BY <2>1 DEF Progress
  <2>3. CASE Loading(i) = "error" /\ Escape
    BY <1>3, <2>1, <2>3
  <2>4. CASE /\ Loading(i) \in {"exception", "skip"}
             /\ items' = Tail(items) /\ UNCHANGED <<pc, call, log, ended>>
    <3> DEFINE made == Made(c)
    <3>1. PluginAt(c, n, items, made) /\ Loading(Head(items)) # "ok"
      BY <2>2, <2>4
    <3>2. PluginAt(c, n + 1, Tail(items), made)
      <4> HIDE DEF made, i
      <4>1. QED
        BY <1>1, <2>1, <3>1, PluginNext
    <3>3. Made(call)' = made
      BY <2>1, <2>4 DEF Made, Turns
    <3>4. call' = c /\ c.kind = "plugin" /\ n + 1 \in Nat
      BY <2>1, <2>4
    <3>5. Progress'
      <4> HIDE DEF made, i
      <4>1. QED
        BY <2>1, <2>4, <3>2, <3>3, <3>4 DEF Progress
    <3>6. QED
      BY <2>1, <2>4, <3>5 DEF Continues
  <2>5. CASE /\ Loading(i) = "ok" /\ req' \in ItemRequests(i)
             /\ pc' = "initItem" /\ UNCHANGED <<call, items, log, ended>>
    <3>1. Made(call)' = Made(c)
      BY <2>1, <2>5 DEF Made, Turns
    <3>2. call' = c /\ c.kind = "plugin"
      BY <2>1, <2>5
    <3>3. Progress'
      BY <2>1, <2>2, <2>5, <3>1, <3>2 DEF Progress
    <3>4. QED
      BY <2>1, <2>5, <3>3 DEF Continues
  <2>6. QED
    BY <1>7, <2>3, <2>4, <2>5 DEF Item
<1>8. CASE LastItem
  <2>1. /\ pc = "item" /\ c.kind = "plugin" /\ c = call /\ Load[c.info] = "ok"
        /\ items = <<>> /\ End("ok") /\ UNCHANGED log
    BY <1>8 DEF LastItem, IInv, Control, Progress
  <2>2. PICK n \in Nat : PluginAt(c, n, <<>>, Made(c))
    BY <2>1 DEF Progress
  <2>3. Complete(c, Made(c)) /\ Made(c)' = Made(c)
    BY <1>1, <2>1, <2>2, PluginLast, MadeSame
  <2>4. QED
    BY <2>1, <2>3 DEF End, Progress, Continues
<1>9. ASSUME NEW m \in methods, Collect(m) PROVE Goal
  <2>1. /\ pc = "collect" /\ c.kind = "class" /\ c = call
        /\ UNCHANGED <<pc, call, log, ended>>
    BY <1>9 DEF Collect, IInv, Control
  <2>2. ClassAt(c, methods, hooks, backups, {}, Made(c))
    BY <2>1 DEF Progress
  <2>3. m \in DOMAIN Annotation /\ Decl[m].class = c.class
    BY <1>9, <2>2 DEF ClassAt
  <2>4. /\ methods' = methods \ {m}
        /\ hooks' = IF TargetOf[m] # None /\ IsHook(m)
                    THEN Put(hooks, TargetOf[m], m) ELSE hooks
        /\ backups' = IF TargetOf[m] # None /\ ~IsHook(m)
                      THEN Put(backups, TargetOf[m], m) ELSE backups
    BY <1>9 DEF Collect
  <2>5. ClassAt(c, methods', hooks', backups', {}, Made(c))
    BY <2>2, <2>3, <2>4, ClassCollect
  <2>6. Made(call)' = Made(c) /\ call' = c
    BY <2>1 DEF Made, Turns
  <2>7. Progress'
    BY <2>1, <2>5, <2>6 DEF Progress
  <2>8. QED
    BY <2>1, <2>7 DEF Continues
<1>10. ASSUME NEW t \in DOMAIN hooks, Install(t) PROVE Goal
  <2>1. /\ pc = "collect" /\ c.kind = "class" /\ c = call /\ methods = {}
        /\ pc' = "check" /\ UNCHANGED <<methods, backups, call, log, ended>>
        /\ hooks' = [u \in DOMAIN hooks \ {t} |-> hooks[u]]
        /\ req' = [target |-> t, hook |-> hooks[t],
                   backup |-> IF t \in DOMAIN backups THEN backups[t] ELSE None]
    BY <1>10 DEF Install, IInv, Control
  <2>2. ClassAt(c, {}, hooks, backups, {}, Made(c))
    BY <2>1 DEF Progress
  <2>3. t \in Methods
    BY TypeParts DEF IInv, MapsType, MapType
  <2>4. /\ ClassAt(c, {}, hooks', backups, {t}, Made(c))
        /\ req' \in ClassSlot(c, t)
    BY <2>1, <2>2, <2>3, ClassInstall
  <2>5. Made(call)' = Made(c) /\ call' = c /\ req'.target = t
    BY <2>1 DEF Made, Turns
  <2>6. Progress'
    BY <2>1, <2>4, <2>5 DEF Progress
  <2>7. QED
    BY <2>1, <2>6 DEF Continues
<1>11. CASE LastInstall
  <2>1. /\ pc = "collect" /\ c.kind = "class" /\ c = call /\ methods = {}
        /\ DOMAIN hooks = {} /\ End("ok") /\ UNCHANGED log
    BY <1>11 DEF LastInstall, IInv, Control
  <2>2. ClassAt(c, {}, hooks, backups, {}, Made(c))
    BY <2>1 DEF Progress
  <2>3. Complete(c, Made(c)) /\ Made(c)' = Made(c)
    BY <1>1, <2>1, <2>2, ClassLast, MadeSame
  <2>4. QED
    BY <2>1, <2>3 DEF End, Progress, Continues
<1>12. CASE Check /\ ~Accepted(req)
  <2>1. pc = "check" /\ Resume("exception") /\ UNCHANGED <<maps, log>>
    BY <1>12 DEF Check
  <2>2. Made(c)' = Made(c)
    BY <2>1, MadeSame
  <2>3. QED
    BY <1>1, <1>12, <2>1, <2>2, ResumeProgress
<1>13. CASE Return
  <2>1. /\ pc = "return" /\ UNCHANGED maps
        /\ Resume(IF failed THEN "exception" ELSE "ok")
    BY <1>13 DEF Return
  <2>2. PICK entry : entry = [call |-> call, slot |-> Slot, req |-> req]
    OBVIOUS
  <2>3. Made(c)' = Made(c) \cup {entry}
    BY <1>13, <2>1, <2>2, MadeReturn
  <2>4. entry.slot = Slot /\ entry.req = req
    BY <2>2
  <2>5. \A e \in Made(c)' : Accepted(e.req)
    BY <1>1, <2>1, <2>3, <2>4
  <2>6. QED
    BY <1>1, <2>1, <2>3, <2>4, <2>5, ResumeProgress
<1>14. CASE (Check /\ Accepted(req)) \/ InitClass \/ Read \/ Backup \/ Target
  <2>1. /\ UNCHANGED <<call, items, maps, req, log, ended>>
        /\ pc \in {"check", "initItem"} \cup Hooks
        /\ pc' \in {"check", "initItem"} \cup Hooks
    BY <1>14 DEF Check, InitClass, Read, Backup, Target, Hooks
  <2>2. QED
    BY <2>1, QuietProgress DEF Hooks
<1>15. CASE Runtime \/ UNCHANGED vars
  <2>1. UNCHANGED <<pc, call, items, maps, req, log, ended>>
    BY <1>15 DEF Runtime, vars
  <2>2. QED
    BY <2>1, QuietProgress
<1>16. QED
  BY <1>2, <1>4, <1>5, <1>6, <1>7, <1>8, <1>9, <1>10, <1>11, <1>12, <1>13,
     <1>14, <1>15 DEF Next, Hooking

LEMMA StepOnce ==
  ASSUME IInv, Once, Progress, [Next]_vars
  PROVE  Once'
<1>1. ASSUME NEW d \in Calls, Start(d) PROVE Once'
  <2>1. /\ pc = "idle" /\ pc' = "load" /\ call' = d /\ UNCHANGED <<log, ended>>
        /\ \A x \in ended : x.call # d
    BY <1>1 DEF Start
  <2>2. Made(d) = {}
    BY <2>1, MadeNothing
  <2>3. Made(call)' = {}
    BY <2>1, <2>2 DEF Made, Turns
  <2>4. QED
    BY <2>1, <2>3 DEF Once
<1>2. CASE ~ \E d \in Calls : Start(d)
  <2>1. PICK c : c = call
    OBVIOUS
  <2>2. Continues(c)
    BY <2>1, StepProgress
  <2>3. /\ pc' # "idle" => pc # "idle"
        /\ pc' = "load" => pc = "load" /\ UNCHANGED log
    BY <1>2 DEF Next, Hooking, Runtime, vars, LoadInfo, DeclaredMethods,
       FindMethod, Item, LastItem, Collect, Install, LastInstall, Check,
       InitClass, Read, Backup, Target, Return, Resume, Escape, End
  <2>4. pc # "idle" => c \in Calls
    BY <2>1 DEF IInv, Control
  <2>5. \A x \in ended' : x \in ended \/ (x.call = c /\ pc # "idle" /\ pc' = "idle")
    BY <2>2 DEF Continues
  <2>6. \A n \in DOMAIN log' :
          \/ n \in DOMAIN log /\ log'[n] = log[n]
          \/ log'[n].call = c /\ pc # "idle"
    <3>1. CASE UNCHANGED log
      BY <3>1
    <3>2. CASE Return
      <4>1. PICK entry : entry = [call |-> call, slot |-> Slot, req |-> req]
        OBVIOUS
      <4>2. entry.call = c /\ pc # "idle"
        BY <2>1, <3>2, <4>1 DEF Return
      <4>3. QED
        BY <3>2, <4>1, <4>2, LogEntry
    <3>3. QED
      BY <3>1, <3>2, LogSteps
  <2>7. pc # "idle" => \/ pc' # "idle" /\ call' = c /\ UNCHANGED ended
                       \/ pc' = "idle" /\ \E x \in ended' : x.call = c
    <3>1. ASSUME NEW how, ended' = ended \cup {[call |-> c, how |-> how]}
          PROVE  \E x \in ended' : x.call = c
      <4>1. [call |-> c, how |-> how] \in ended'
        BY <3>1
      <4>2. QED
        BY <4>1
    <3>2. QED
      BY <2>1, <2>2, <3>1 DEF Continues
  <2>8. ended \subseteq ended'
    BY <2>2 DEF Continues
  <2>9. \A x \in ended' : x.call \in Calls
    BY <2>4, <2>5 DEF Once
  <2>10. \A n \in DOMAIN log' :
           \/ pc' # "idle" /\ log'[n].call = call'
           \/ \E x \in ended' : log'[n].call = x.call
    BY <2>1, <2>6, <2>7, <2>8 DEF Once
  <2>11. pc' # "idle" => \A x \in ended' : x.call # call'
    BY <2>1, <2>3, <2>7 DEF Once
  <2>12. pc' = "load" => Made(call)' = {}
    BY <2>1, <2>3, <2>7 DEF Once, Made, Turns
  <2>13. QED
    BY <2>9, <2>10, <2>11, <2>12 DEF Once
<1>3. QED
  BY <1>1, <1>2

LEMMA StepCompleted ==
  ASSUME IInv, Once, Progress, Completed, [Next]_vars
  PROVE  Completed'
<1>1. PICK c : c = call
  OBVIOUS
<1>2. Continues(c)
  BY <1>1, StepProgress
<1>3. SUFFICES ASSUME NEW x \in ended', x.how # "error"
               PROVE  Complete(x.call, Made(x.call)')
  BY DEF Completed
<1>4. CASE x \in ended
  <2>1. Complete(x.call, Made(x.call))
    BY <1>3, <1>4 DEF Completed
  <2>2. pc # "idle" => x.call # c
    BY <1>1, <1>4 DEF Once
  <2>3. Made(x.call)' = Made(x.call)
    <3>1. CASE UNCHANGED log
      BY <3>1, MadeSame
    <3>2. CASE Return
      <4>1. pc # "idle"
        BY <3>2 DEF Return
      <4>2. PICK entry : entry = [call |-> call, slot |-> Slot, req |-> req]
        OBVIOUS
      <4>3. QED
        BY <1>1, <2>2, <3>2, <4>1, <4>2, MadeReturn
    <3>3. QED
      BY <3>1, <3>2, LogSteps
  <2>4. QED
    BY <2>1, <2>3
<1>5. CASE x \notin ended
  <2>1. PICK how : /\ ended' = ended \cup {[call |-> c, how |-> how]}
                   /\ how = "error" \/ Complete(c, Made(c)')
    BY <1>2, <1>3, <1>5 DEF Continues
  <2>2. x = [call |-> c, how |-> how]
    BY <1>3, <1>5, <2>1
  <2>3. x.call = c /\ x.how = how
    BY <2>2
  <2>4. QED
    BY <1>3, <2>1, <2>3
<1>6. QED
  BY <1>4, <1>5

(***************************************************************************)
(* What is handed over is for a slot nothing was handed over for.          *)
(***************************************************************************)
LEMMA SlotFresh ==
  ASSUME IInv, Progress, pc = "return"
  PROVE  \A e \in Made(call) : e.slot # Slot
<1>1. call \in Calls /\ call.kind \in {"plugin", "class", "method"}
  BY CallsAssumption DEF IInv, Control
<1>2. CASE call.kind = "plugin"
  <2>1. PICK n \in Nat : PluginAt(call, n, items, Made(call))
    BY <1>2 DEF Progress
  <2>2. Len(call.items) \in Nat /\ Len(items) = Len(call.items) - n
    BY <1>1, <1>2, <2>1, PluginItems DEF PluginAt
  <2>3. Slot = n + 1
    BY <1>2, <2>2 DEF Slot
  <2>4. \A e \in Made(call) : e.slot \in 1 .. n
    BY <2>1 DEF PluginAt
  <2>5. QED
    BY <2>3, <2>4
<1>3. CASE call.kind = "class"
  BY <1>3 DEF Progress, ClassAt, Slot
<1>4. CASE call.kind = "method"
  BY <1>4 DEF Progress
<1>5. QED
  BY <1>1, <1>2, <1>3, <1>4

LEMMA StepOncePerSlot ==
  ASSUME IInv, Progress, OncePerSlot, [Next]_vars
  PROVE  OncePerSlot'
<1>1. CASE UNCHANGED log
  BY <1>1 DEF OncePerSlot
<1>2. CASE Return
  <2>1. PICK entry : entry = [call |-> call, slot |-> Slot, req |-> req]
    OBVIOUS
  <2>2. /\ DOMAIN log = 1 .. Len(log) /\ DOMAIN log' = 1 .. Len(log) + 1
        /\ \A n \in DOMAIN log : log'[n] = log[n]
        /\ log'[Len(log) + 1] = entry /\ Len(log) \in Nat
    BY <1>2, <2>1, LogEntry
  <2>3. \A n \in DOMAIN log : ~(log[n].call = entry.call /\ log[n].slot = entry.slot)
    <3>1. entry.call = call /\ entry.slot = Slot /\ pc = "return"
      BY <1>2, <2>1 DEF Return
    <3>2. \A n \in DOMAIN log : log[n].call = call => log[n] \in Made(call)
      BY DEF Made, Turns
    <3>3. QED
      BY <3>1, <3>2, SlotFresh
  <2>4. \A n \in DOMAIN log' : n \in DOMAIN log \/ n = Len(log) + 1
    BY <2>2
  <2>5. QED
    BY <2>2, <2>3, <2>4 DEF OncePerSlot
<1>3. QED
  BY <1>1, <1>2, LogSteps

(***************************************************************************)
(* A call that was complete has handed over what HandedOver asks for.      *)
(***************************************************************************)
LEMMA CompleteOnce ==
  ASSUME OncePerSlot, NEW c, Complete(c, Made(c))
  PROVE  /\ \A n \in Turns(c) :
              /\ log[n].slot \in DOMAIN Slots(c)
              /\ log[n].req \in Slots(c)[log[n].slot] /\ Accepted(log[n].req)
         /\ \A d \in DOMAIN Slots(c) :
              LET turns == {n \in Turns(c) : log[n].slot = d} IN
                /\ Cardinality(turns) <= 1
                /\ (\A r \in Slots(c)[d] : Accepted(r)) => turns # {}
<1>1. \A n \in Turns(c) : log[n] \in Made(c)
  BY DEF Made
<1>2. ASSUME NEW d \in DOMAIN Slots(c)
      PROVE  LET turns == {n \in Turns(c) : log[n].slot = d} IN
               /\ Cardinality(turns) <= 1
               /\ (\A r \in Slots(c)[d] : Accepted(r)) => turns # {}
  <2> DEFINE turns == {n \in Turns(c) : log[n].slot = d}
  <2>1. \A m, n \in turns : m = n
    BY DEF OncePerSlot, Turns
  <2>2. Cardinality(turns) <= 1
    <3> HIDE DEF turns
    <3>1. QED
      BY <2>1, AtMostOne
  <2>3. Met(d, Slots(c)[d], Made(c))
    BY DEF Complete
  <2>4. ASSUME \A r \in Slots(c)[d] : Accepted(r) PROVE turns # {}
    <3>1. PICK e \in Made(c) : e.slot = d
      BY <2>3, <2>4 DEF Met
    <3>2. QED
      BY <3>1 DEF Made
  <2>5. QED
    BY <2>2, <2>4
<1>3. QED
  BY <1>1, <1>2 DEF Complete

(***************************************************************************)
(* A call that returns without an Error has called backupAndHookNative     *)
(* exactly once for each item and each annotated target that is valid      *)
(* whichever methods reflection takes, at most once for any other, and     *)
(* with nothing that does not type-check (YafyaMain.java:69-74 and 166,    *)
(* PookAnnotation.java:158-168), for any classes, plugins and annotations, *)
(* whatever fails natively.                                                *)
(***************************************************************************)
THEOREM AlwaysHandedOver == Spec => []HandedOver
<1>1. Init => IInv /\ HandInv
  <2>1. Init => HandInv
    BY DEF Init, HandInv, Progress, Once, Completed, OncePerSlot
  <2>2. QED
    BY <2>1, InitIInv
<1>2. IInv /\ HandInv /\ [Next]_vars => (IInv /\ HandInv)'
  <2>1. ASSUME IInv, HandInv, [Next]_vars PROVE HandInv'
    <3>1. Progress'
      BY <2>1, StepProgress DEF HandInv
    <3>2. QED
      BY <2>1, <3>1, StepOnce, StepCompleted, StepOncePerSlot DEF HandInv
  <2>2. QED
    BY <2>1, StepIInv
<1>3. IInv /\ HandInv => HandedOver
  <2>1. SUFFICES ASSUME HandInv, NEW x \in ended, x.how # "error", pc = "idle"
                 PROVE  Complete(x.call, Made(x.call)) /\ OncePerSlot
                        /\ AllSlots[x.call] = Slots(x.call)
    BY CompleteOnce DEF HandedOver
  <2>2. QED
    BY <2>1 DEF HandInv, Once, Completed, AllSlots
<1>4. QED
  BY <1>1, <1>2, <1>3, PTL DEF Spec
=============================================================================
