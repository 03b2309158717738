---------------------------- MODULE TrampolineAbs ----------------------------
(***************************************************************************)
(* What a user of genTrampoline relies on: every trampoline it ever        *)
(* returned owns its own bytes, aligned to the pointer size, for good.     *)
(***************************************************************************)
EXTENDS TrampolineSpace

VARIABLE issued   \* the trampolines returned so far

Init == issued = {}

\* One more trampoline is returned; it shares no byte with an earlier one.
Issue ==
  \E r \in issued' \ issued :
    /\ issued' = issued \cup {r}
    /\ r.at # NULL
    /\ r.at % PtrSize = 0
    /\ \A s \in issued : Disjoint(r, s)

Spec == Init /\ [][Issue]_issued
=============================================================================
