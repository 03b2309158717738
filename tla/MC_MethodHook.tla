---------------------------- MODULE MC_MethodHook ----------------------------
(* Requests for TLC: a target that two requests hook, one without backup.   *)
EXTENDS MethodHook

CONSTANTS t1, h1, h2, b1

First == [target |-> t1, hook |-> h1, backup |-> b1]
Second == [target |-> t1, hook |-> h2, backup |-> None]

BothRequests == {First, Second}
OneRequest == {First}
AllSdks == 21 .. 33

\* Every invocation goes through the ArtMethod; a caller has the target, or
\* the placeholder, inlined; nothing is inlined in a debuggable build
\* (README.md:102).
Optimized(ms) == [debuggable |-> FALSE, inlined |-> ms]
Debuggable == [debuggable |-> TRUE, inlined |-> {}]
AllBuilds == {Optimized({}), Optimized({t1}), Optimized({b1}), Debuggable}
=============================================================================
