------------------------------- MODULE HookAbs -------------------------------
(***************************************************************************)
(* What backupAndHook promises, without ArtMethod structures: dest is the  *)
(* method whose body an entry point leads to.  Requests redirect methods,  *)
(* one method in a step, and apart from them only the initialization of a  *)
(* class ever changes where its methods lead, once.                        *)
(***************************************************************************)
CONSTANTS Methods, Requests, None

VARIABLES
  dest,     \* where each method leads
  settled,  \* methods whose class is visibly initialized
  broken    \* something failed in the call that is under way

vars == <<dest, settled, broken>>

Init ==
  /\ dest = [m \in Methods |-> m]
  /\ settled \subseteq Methods
  /\ broken = FALSE

\* A call begins or ends, and something fails in it.
Renew == broken' = FALSE /\ UNCHANGED <<dest, settled>>
Break == broken' = TRUE /\ UNCHANGED <<dest, settled>>

\* The backup leads to where the target led.
Backup(r) ==
  /\ \E m \in Methods :
       /\ broken \/ m = dest[r.target]
       /\ dest' = [dest EXCEPT ![r.backup] = m]
  /\ UNCHANGED <<settled, broken>>

\* The target leads to the hook, when its backup is in place.
Hook(r) ==
  /\ r.backup # None /\ ~broken => dest[r.backup] = dest[r.target]
  /\ dest' = [dest EXCEPT ![r.target] = r.hook]
  /\ UNCHANGED <<settled, broken>>

\* Classes become visibly initialized and their methods lead to themselves.
Settle(ms) ==
  /\ ms \cap settled = {}
  /\ settled' = settled \cup ms
  /\ dest' = [m \in Methods |-> IF m \in ms THEN m ELSE dest[m]]
  /\ UNCHANGED broken

Next ==
  \/ Renew \/ Break
  \/ \E r \in Requests : (r.backup # None /\ Backup(r)) \/ Hook(r)
  \/ \E ms \in SUBSET Methods : Settle(ms)

Spec == Init /\ [][Next]_vars
=============================================================================
