-------------------------- MODULE XhRefresh_proofs --------------------------
(***************************************************************************)
(* For any libraries, places, registrations and bounds: the old and the    *)
(* new map share no entry, a refresh replaces only the pointers it should, *)
(* hooked calls come to the original function, and what stays mapped is    *)
(* hooked, however libraries are loaded and unloaded meanwhile.            *)
(***************************************************************************)
EXTENDS XhRefresh, WellFoundedInduction, TLAPS

Shape == TypeOK /\ MapsDisjoint

\* xh_elf_replace_function was called for a hook info that is to be applied, and
\* the protection it found is that of a library whose path contains the other.
AtWork ==
  /\ pc \in Replacing =>
       /\ next \in Matching(cur.path) /\ Verdict(hooks[next], cur.path) = "hook"
       /\ hooks[next].symbol \in Lib[elf].imports
  /\ pc \in {"save", "store"} =>
       checked \in Paths /\ cur.path \in Lib[checked].contains

IInv == Shape /\ AtWork

-----------------------------------------------------------------------------
(***************************************************************************)
(* A mapped library has a path of its own and a pointer for each import.   *)
(***************************************************************************)
LEMMA ImageFacts ==
  ASSUME TypeOK, NEW b \in Bases, Mapped(b)
  PROVE  /\ image[b] \in Images
         /\ image[b].path \in Paths
         /\ image[b] = [path |-> image[b].path, slots |-> image[b].slots]
         /\ image[b].slots \in [Lib[image[b].path].imports ->
                                  Funcs \cup {"orig"}]
BY DEF TypeOK, Mapped, Images

LEMMA MakeImage ==
  ASSUME NEW p \in Paths, NEW f \in [Lib[p].imports -> Funcs \cup {"orig"}]
  PROVE  [path |-> p, slots |-> f] \in Images
BY DEF Images

(***************************************************************************)
(* The functions of the hook infos are functions, and the symbol of one    *)
(* that xh_core_hook_impl passes to xh_elf_hook is ignored nowhere.        *)
(***************************************************************************)
LEMMA HookFacts ==
  ASSUME TypeOK, NEW k \in DOMAIN hooks
  PROVE  hooks[k].new \in Funcs
BY DEF TypeOK, Funcs, hooks

LEMMA VerdictHook ==
  ASSUME NEW k \in DOMAIN hooks, NEW p \in hooks[k].paths,
         Verdict(hooks[k], p) = "hook"
  PROVE  k \in Wanted(p, hooks[k].symbol)
<1>1. {i \in DOMAIN ignores : Relevant(i, p, hooks[k].symbol)} = {}
  BY DEF Verdict
<1>2. QED
  BY <1>1 DEF Wanted, Matching

LEMMA InitInv == Init => IInv
<1>1. SUFFICES ASSUME Init PROVE IInv
  OBVIOUS
<1>2. TypeOK
  <2>1. wild \in BOOLEAN
    BY <1>1 DEF Init
  <2>2. QED
    BY <1>1, <2>1 DEF Init, TypeOK, NoPrev, Replacing
<1>3. MapsDisjoint /\ AtWork
  BY <1>1 DEF Init, MapsDisjoint, AtWork, Replacing
<1>4. QED
  BY <1>2, <1>3 DEF IInv, Shape

-----------------------------------------------------------------------------
LEMMA LoadInv ==
  ASSUME Shape, NEW b \in Bases, NEW p \in Paths, Load(b, p)
  PROVE  Shape'
<1> DEFINE new == [path |-> p, slots |-> [s \in Lib[p].imports |-> "orig"]]
<1>1. new \in Images
  BY MakeImage
<1>2. /\ image' = [image EXCEPT ![b] = new]
      /\ stable' \subseteq stable
      /\ UNCHANGED <<setup, tree, refreshed, old, pc, prev, cur, elf, next,
                     wild>>
  BY DEF Load, maps, walk, trace
<1>3. image' \in [Bases -> Images \cup {None}]
  BY <1>1, <1>2 DEF Shape, TypeOK
<1>4. TypeOK'
  BY <1>2, <1>3 DEF Shape, TypeOK, hooks, Images
<1>5. QED
  BY <1>2, <1>4 DEF Shape, MapsDisjoint

LEMMA UnloadInv ==
  ASSUME Shape, NEW b \in Bases, Unload(b)
  PROVE  Shape'
<1>1. /\ image' = [image EXCEPT ![b] = None]
      /\ stable' = stable \ {b}
      /\ UNCHANGED <<setup, tree, refreshed, old, pc, prev, cur, elf, next,
                     wild>>
  BY DEF Unload, maps, walk, trace
<1>2. TypeOK'
  BY <1>1 DEF Shape, TypeOK, hooks, Images
<1>3. QED
  BY <1>1, <1>2 DEF Shape, MapsDisjoint

LEMMA StartInv ==
  ASSUME Shape, StartRefresh
  PROVE  Shape'
<1>1. UNCHANGED <<image, setup, tree, refreshed, old, elf, next, wild>>
      /\ pc' = "read" /\ prev' = NoPrev
      /\ stable' \subseteq Bases
  BY DEF StartRefresh, maps, memory, trace
<1>2. TypeOK'
  BY <1>1 DEF Shape, TypeOK, hooks, Images, NoPrev, Replacing
<1>3. QED
  BY <1>1, <1>2 DEF Shape, MapsDisjoint

(***************************************************************************)
(* What ReadLine takes as the base address of a library is one.            *)
(***************************************************************************)
LEMMA ReadLineInv ==
  ASSUME Shape, ReadLine
  PROVE  Shape'
<1>1. UNCHANGED <<image, setup, tree, refreshed, old, elf, next, stable, wild>>
      /\ pc = "read"
  BY DEF ReadLine, maps, memory, trace
<1>2. PICK l \in Lines :
        \/ UNCHANGED <<prev, cur, pc>>
        \/ /\ prev' = [path |-> image[l.base].path, base |-> l.base, seg |-> l.seg]
           /\ UNCHANGED <<cur, pc>>
        \/ /\ BaseOf(l, image[l.base].path) # None
           /\ cur' = [path |-> image[l.base].path,
                      base |-> BaseOf(l, image[l.base].path)]
           /\ pc' = "header"
           /\ UNCHANGED prev
  BY DEF ReadLine
<1>3. l.base \in Bases /\ image[l.base].path \in Paths
  BY ImageFacts DEF Lines, Shape
<1>4. BaseOf(l, image[l.base].path) # None =>
        BaseOf(l, image[l.base].path) \in Bases
  BY <1>3, XhRefreshAssumption DEF BaseOf, Shape, TypeOK
<1>5. /\ prev'.path # None => prev'.base \in Bases
      /\ pc' \in {"read", "header"}
      /\ pc' = "header" => cur'.path \in Paths /\ cur'.base \in Bases
  BY <1>1, <1>2, <1>3, <1>4 DEF Shape, TypeOK
<1>6. TypeOK'
  BY <1>1, <1>5 DEF Shape, TypeOK, hooks, Images, Replacing
<1>7. QED
  BY <1>1, <1>6 DEF Shape, MapsDisjoint

LEMMA HeaderOkInv ==
  ASSUME Shape, HeaderOk
  PROVE  Shape'
<1>1. cur.path \in Paths /\ cur.base \in Bases
  BY DEF HeaderOk, Shape, TypeOK
<1>2. UNCHANGED <<image, setup, old, prev, cur, elf, next, stable, wild>>
      /\ pc' \in {"init", "read"}
      /\ tree' = [tree EXCEPT ![cur.path] = None]
      /\ refreshed' = IF refreshed[cur.path] = None
                      THEN [refreshed EXCEPT ![cur.path] = cur.base] ELSE refreshed
  BY DEF HeaderOk, Found, memory, walk, trace
<1>3. TypeOK'
  BY <1>1, <1>2 DEF Shape, TypeOK, hooks, Images, Replacing
<1>4. MapsDisjoint'
  BY <1>1, <1>2 DEF Shape, TypeOK, MapsDisjoint
<1>5. QED
  BY <1>3, <1>4 DEF Shape

(***************************************************************************)
(* The steps that change neither the maps nor the memory.                  *)
(***************************************************************************)
LEMMA QuietInv ==
  ASSUME Shape,
         \/ HeaderFails \/ ElfInitFails \/ ElfInit \/ HookEnds \/ HookSkips
         \/ HookFaults \/ HookFinds \/ HookQueries \/ HookLeaves
  PROVE  Shape'
<1>1. UNCHANGED <<image, setup, tree, refreshed, old, prev, cur, stable, wild>>
      /\ pc' \in {"read", "hook", "query", "save"}
  BY DEF HeaderFails, ElfInitFails, ElfInit, HookEnds, HookSkips, HookFaults,
     HookFinds, HookQueries, HookLeaves, Hooks, memory, maps, walk, trace, Shape,
     TypeOK
<1>2. pc' # "read" => pc \in {"init", "hook", "query", "save"}
  BY DEF HeaderFails, ElfInitFails, ElfInit, HookEnds, HookSkips, HookFaults,
     HookFinds, HookQueries, HookLeaves, Hooks
<1>3. /\ pc' = "hook" => elf' \in Paths /\ next' \in 1 .. Len(hooks) + 1
      /\ pc' \in Replacing => elf' \in Paths /\ next' \in DOMAIN hooks
  <2>1. hooks \in Seq(HookInfo)
    BY XhRefreshAssumption DEF hooks, Shape, TypeOK
  <2>2. CASE ElfInit
    <3>1. cur.base \in Bases /\ Mapped(cur.base)
      BY <2>2 DEF ElfInit, HasTables, Shape, TypeOK
    <3>2. elf' \in Paths
      BY <2>2, <3>1, ImageFacts DEF ElfInit, Shape
    <3>3. QED
      BY <2>1, <2>2, <3>2 DEF ElfInit, Replacing
  <2>3. CASE HookSkips \/ HookLeaves
    <3>1. next \in DOMAIN hooks /\ next' = next + 1 /\ elf' = elf /\ elf \in Paths
      BY <2>3 DEF HookSkips, HookLeaves, Hooks, Matching, Shape, TypeOK, Replacing
    <3>2. pc' = "hook"
      BY <2>3 DEF HookSkips, HookLeaves
    <3>3. QED
      BY <2>1, <3>1, <3>2 DEF Replacing
  <2>4. CASE HeaderFails \/ ElfInitFails \/ HookEnds \/ HookFaults
    BY <2>4 DEF HeaderFails, ElfInitFails, HookEnds, HookFaults, Replacing
  <2>5. CASE HookFinds \/ HookQueries
    BY <2>5 DEF HookFinds, HookQueries, Hooks, Matching, walk, Shape, TypeOK,
       Replacing
  <2>6. QED
    BY <2>2, <2>3, <2>4, <2>5
<1>4. TypeOK'
  BY <1>1, <1>2, <1>3 DEF Shape, TypeOK, hooks, Images, Replacing
<1>5. QED
  BY <1>1, <1>4 DEF Shape, MapsDisjoint

(***************************************************************************)
(* "save old func" changes only *old_func.                                 *)
(***************************************************************************)
LEMMA SaveInv ==
  ASSUME IInv, HookSaves
  PROVE  Shape'
<1>1. /\ next \in DOMAIN hooks /\ elf \in Paths
      /\ cur.base \in Bases /\ Mapped(cur.base)
      /\ hooks[next].symbol \in Lib[elf].imports
  BY DEF HookSaves, IInv, Shape, AtWork, TypeOK, Replacing
<1>2. /\ UNCHANGED <<image, setup, tree, refreshed, prev, cur, elf, next, stable>>
      /\ pc' = "store" /\ pc = "save" /\ wild' \in BOOLEAN
  BY DEF HookSaves, Use, memory, maps, walk, IInv, Shape, TypeOK
<1>3. image[cur.base].slots
        \in [Lib[image[cur.base].path].imports -> Funcs \cup {"orig"}]
  BY <1>1, ImageFacts DEF IInv, Shape
<1>4. PICK w \in Words(hooks[next].symbol) :
        old' = [old EXCEPT ![hooks[next].new] =
                  IF w = None THEN "data" ELSE image[cur.base].slots[w]]
  BY DEF HookSaves
<1>5. w = None \/ image[cur.base].slots[w] \in Funcs \cup {"orig"}
  BY <1>1, <1>3, <1>4 DEF Words, Holds
<1>6. old' \in [Funcs -> Funcs \cup {"orig", "data", None}]
  BY <1>4, <1>5 DEF IInv, Shape, TypeOK
<1>7. TypeOK'
  BY <1>1, <1>2, <1>6 DEF IInv, Shape, TypeOK, hooks, Images, Replacing
<1>8. QED
  BY <1>2, <1>7 DEF IInv, Shape, MapsDisjoint

(***************************************************************************)
(* "replace func" changes one word at most: in the library that was parsed *)
(* the pointer, in another one any pointer or none.                        *)
(***************************************************************************)
Writes(w) ==
  /\ Holds(cur.base, elf) => w = hooks[next].symbol
  /\ image'[cur.base] = [path |-> image[cur.base].path,
                         slots |-> [image[cur.base].slots EXCEPT
                                      ![w] = hooks[next].new]]
  /\ image' = [image EXCEPT ![cur.base] = image'[cur.base]]

LEMMA StoreFacts ==
  ASSUME IInv, HookStores
  PROVE  /\ next \in DOMAIN hooks /\ elf \in Paths /\ cur.path \in Paths
         /\ cur.base \in Bases /\ Mapped(cur.base)
         /\ hooks[next].symbol \in Lib[elf].imports
         /\ hooks[next].new \in Funcs
         /\ \/ UNCHANGED image /\ ~Holds(cur.base, elf)
            \/ \E w \in DOMAIN image[cur.base].slots : Writes(w)
<1>1. /\ next \in DOMAIN hooks /\ elf \in Paths /\ cur.path \in Paths
      /\ cur.base \in Bases /\ Mapped(cur.base)
      /\ hooks[next].symbol \in Lib[elf].imports
      /\ hooks[next].new \in Funcs
  BY HookFacts DEF HookStores, IInv, Shape, AtWork, TypeOK, Replacing
<1>2. /\ image[cur.base] = [path |-> image[cur.base].path,
                            slots |-> image[cur.base].slots]
      /\ image[cur.base].slots
           \in [Lib[image[cur.base].path].imports -> Funcs \cup {"orig"}]
  BY <1>1, ImageFacts DEF IInv, Shape
<1>3. PICK w \in Words(hooks[next].symbol) :
        image' = IF w = None THEN image
                 ELSE [image EXCEPT ![cur.base] =
                         [image[cur.base] EXCEPT !.slots =
                            [image[cur.base].slots EXCEPT
                               ![w] = hooks[next].new]]]
  BY DEF HookStores
<1>4. image \in [Bases -> Images \cup {None}]
  BY DEF IInv, Shape, TypeOK
<1>5. CASE w = None
  <2>1. hooks[next].symbol # None
    <3>1. hooks[next].symbol \in Symbols
      BY <1>1 DEF Symbols
    <3>2. QED
      BY <3>1, XhRefreshAssumption
  <2>2. ~Holds(cur.base, elf)
    BY <1>5, <2>1 DEF Words
  <2>3. QED
    BY <1>1, <1>3, <1>5, <2>2
<1>6. CASE w # None
  <2>1. /\ w \in DOMAIN image[cur.base].slots
        /\ Holds(cur.base, elf) => w = hooks[next].symbol
    BY <1>1, <1>2, <1>6 DEF Words, Holds
  <2>2. Writes(w)
    BY <1>1, <1>2, <1>3, <1>4, <1>6, <2>1 DEF Writes
  <2>3. QED
    BY <1>1, <2>1, <2>2
<1>7. QED
  BY <1>5, <1>6

LEMMA StoredImage ==
  ASSUME IInv, HookStores
  PROVE  image' \in [Bases -> Images \cup {None}]
<1>1. /\ cur.base \in Bases /\ Mapped(cur.base)
      /\ hooks[next].new \in Funcs
      /\ \/ UNCHANGED image
         \/ \E w \in DOMAIN image[cur.base].slots : Writes(w)
  BY StoreFacts
<1>2. image \in [Bases -> Images \cup {None}]
  BY DEF IInv, Shape, TypeOK
<1>3. CASE UNCHANGED image
  BY <1>2, <1>3
<1>4. ASSUME NEW w \in DOMAIN image[cur.base].slots, Writes(w)
      PROVE  image' \in [Bases -> Images \cup {None}]
  <2> DEFINE p == image[cur.base].path
             f == [image[cur.base].slots EXCEPT ![w] = hooks[next].new]
  <2>1. p \in Paths /\ image[cur.base].slots \in [Lib[p].imports -> Funcs \cup {"orig"}]
    BY <1>1, ImageFacts DEF IInv, Shape
  <2>2. f \in [Lib[p].imports -> Funcs \cup {"orig"}]
    BY <1>1, <2>1
  <2>3. [path |-> p, slots |-> f] \in Images
    BY <2>1, <2>2, MakeImage
  <2>4. image'[cur.base] \in Images
    BY <1>4, <2>3 DEF Writes
  <2>5. QED
    BY <1>1, <1>2, <1>4, <2>4 DEF Writes
<1>5. QED
  BY <1>1, <1>3, <1>4

LEMMA StoreInv ==
  ASSUME IInv, HookStores
  PROVE  Shape'
<1>1. next \in DOMAIN hooks /\ elf \in Paths /\ cur.path \in Paths
      /\ cur.base \in Bases
  BY StoreFacts
<1>2. /\ UNCHANGED <<setup, tree, refreshed, old, prev, cur, elf, stable>>
      /\ pc' = "hook" /\ next' = next + 1 /\ wild' \in BOOLEAN
  BY DEF HookStores, Use, maps, IInv, Shape, TypeOK
<1>3. next' \in 1 .. Len(hooks) + 1
  <2>1. hooks \in Seq(HookInfo)
    BY XhRefreshAssumption DEF hooks, IInv, Shape, TypeOK
  <2>2. QED
    BY <1>1, <1>2, <2>1
<1>4. TypeOK'
  BY <1>1, <1>2, <1>3, StoredImage
     DEF IInv, Shape, TypeOK, hooks, Images, Replacing
<1>5. QED
  BY <1>2, <1>4 DEF IInv, Shape, MapsDisjoint

LEMMA EndInv ==
  ASSUME Shape, EndRefresh \/ Clear
  PROVE  Shape'
<1>1. /\ UNCHANGED <<image, setup, old, prev, cur, elf, next, wild>>
      /\ pc' = "idle" /\ stable' \subseteq stable
  BY DEF EndRefresh, Clear, memory, walk, trace
<1>2. /\ tree' \in [Paths -> Bases \cup {None}]
      /\ refreshed' \in [Paths -> Bases \cup {None}]
      /\ MapsDisjoint'
  BY DEF EndRefresh, Clear, maps, Shape, TypeOK, MapsDisjoint
<1>3. TypeOK'
  BY <1>1, <1>2 DEF Shape, TypeOK, hooks, Images, Replacing
<1>4. QED
  BY <1>2, <1>3 DEF Shape

LEMMA StepShape ==
  ASSUME IInv, [Next]_vars
  PROVE  Shape'
<1>1. CASE Linker
  BY <1>1, LoadInv, UnloadInv DEF Linker, IInv
<1>2. CASE StartRefresh \/ Clear
  BY <1>2, StartInv, EndInv DEF IInv
<1>3. CASE RefreshStep
  BY <1>3, ReadLineInv, HeaderOkInv, QuietInv, SaveInv, StoreInv, EndInv
     DEF RefreshStep, IInv
<1>4. CASE UNCHANGED vars
  BY <1>4 DEF vars, IInv, Shape, TypeOK, MapsDisjoint, hooks, Images
<1>5. QED
  BY <1>1, <1>2, <1>3, <1>4 DEF Next

LEMMA StepAtWork ==
  ASSUME IInv, [Next]_vars
  PROVE  AtWork'
<1>1. TypeOK
  BY DEF IInv, Shape
<1>2. CASE /\ UNCHANGED <<setup, cur, elf, next, checked>>
           /\ pc' = pc \/ pc' \notin Replacing \/ (pc = "save" /\ pc' = "store")
  BY <1>2 DEF IInv, AtWork, Matching, Verdict, Relevant, hooks, ignores,
     Replacing
<1>3. CASE HookFinds
  BY <1>3 DEF HookFinds, Hooks, Replaceable, FindsSymbol, walk, AtWork,
     Matching, Verdict, Relevant, hooks, ignores, Replacing
<1>4. CASE HookQueries
  <2>1. cur.base \in Bases /\ Mapped(cur.base)
    BY <1>1, <1>4 DEF HookQueries, HasProtection, TypeOK
  <2>2. checked' \in Paths /\ cur.path \in Lib[checked'].contains
    BY <1>1, <1>4, <2>1, ImageFacts DEF HookQueries, HasProtection
  <2>3. /\ UNCHANGED <<setup, cur, elf, next>>
        /\ pc = "query" /\ pc' = "save"
    BY <1>4 DEF HookQueries, walk
  <2>4. QED
    BY <2>2, <2>3 DEF IInv, AtWork, Matching, Verdict, Relevant, hooks, ignores,
       Replacing
<1>5. CASE pc' \in {"idle", "read", "header", "init", "hook"}
  BY <1>5 DEF AtWork, Replacing
<1>6. CASE UNCHANGED vars \/ Linker
  BY <1>2, <1>6 DEF vars, Linker, Load, Unload, walk, trace
<1>7. CASE HookSaves
  BY <1>2, <1>7 DEF HookSaves, walk
<1>8. CASE StartRefresh \/ Clear
  BY <1>5, <1>8 DEF StartRefresh, Clear
<1>9. CASE RefreshStep /\ ~HookFinds /\ ~HookQueries /\ ~HookSaves
  <2>1. \/ /\ pc' \in {pc, "idle", "read", "header", "init", "hook"}
           /\ pc \notin Replacing
        \/ pc' \in {"read", "hook"}
    BY <1>9 DEF RefreshStep, ReadLine, HeaderFails, HeaderOk, ElfInitFails,
       ElfInit, HookEnds, HookSkips, HookFaults, HookStores, HookLeaves,
       EndRefresh, Hooks, Replacing
  <2>2. QED
    BY <1>1, <1>5, <2>1 DEF TypeOK
<1>10. QED
  BY <1>3, <1>4, <1>6, <1>7, <1>8, <1>9 DEF Next

LEMMA StepInv ==
  ASSUME IInv, [Next]_vars
  PROVE  IInv'
BY StepShape, StepAtWork DEF IInv

(***************************************************************************)
(* Type correctness; in particular xh_elf_init never gets base address 0   *)
(* (xh_core.c:365-371, xh_elf.c:762).                                      *)
(***************************************************************************)
THEOREM TypeCorrect == Spec => []TypeOK
<1>1. Init => IInv
  BY InitInv
<1>2. IInv /\ [Next]_vars => IInv'
  BY StepInv
<1>3. IInv => TypeOK
  BY DEF IInv, Shape
<1>4. QED
  BY <1>1, <1>2, <1>3, PTL DEF Spec

(***************************************************************************)
(* No entry is in both maps, so that what the end of a refresh frees       *)
(* (xh_core.c:463-475) is not in use; "repeated map info when update"      *)
(* (line 420) cannot happen.                                               *)
(***************************************************************************)
THEOREM MapsNeverShare == Spec => []MapsDisjoint
<1>1. Init => IInv
  BY InitInv
<1>2. IInv /\ [Next]_vars => IInv'
  BY StepInv
<1>3. IInv => MapsDisjoint
  BY DEF IInv, Shape
<1>4. QED
  BY <1>1, <1>2, <1>3, PTL DEF Spec

-----------------------------------------------------------------------------
\* What a step may do to the pointers of a library that stays mapped.
ReplacesWanted ==
  \A b \in Bases :
    Mapped(b) /\ Mapped(b)' /\ image'[b] # image[b] /\ Holds(b, checked) =>
      \A s \in DOMAIN image[b].slots :
        image'[b].slots[s] # image[b].slots[s] =>
          \E q \in Lib[checked].contains \cap Paths, k \in DOMAIN hooks :
            /\ k \in Wanted(q, hooks[k].symbol)
            /\ checked = elf => hooks[k].symbol = s
            /\ image'[b].slots[s] = hooks[k].new

LEMMA StepReplacesWanted ==
  ASSUME IInv, Next
  PROVE  ReplacesWanted
<1>1. CASE HookStores
  <2>1. SUFFICES ASSUME NEW b \in Bases, image'[b] # image[b], Holds(b, checked),
                        NEW s \in DOMAIN image[b].slots,
                        image'[b].slots[s] # image[b].slots[s]
                 PROVE  \E q \in Lib[checked].contains \cap Paths,
                           k \in DOMAIN hooks :
                          /\ k \in Wanted(q, hooks[k].symbol)
                          /\ checked = elf => hooks[k].symbol = s
                          /\ image'[b].slots[s] = hooks[k].new
    BY DEF ReplacesWanted
  <2>2. /\ next \in DOMAIN hooks /\ cur.path \in Paths
        /\ cur.base \in Bases /\ Mapped(cur.base)
    BY <1>1, StoreFacts
  <2>3. PICK w \in DOMAIN image[cur.base].slots : Writes(w)
    BY <1>1, <2>1, StoreFacts
  <2>4. image[cur.base].slots
          \in [Lib[image[cur.base].path].imports -> Funcs \cup {"orig"}]
    BY <2>2, ImageFacts DEF IInv, Shape
  <2>5. b = cur.base
    BY <2>1, <2>2, <2>3 DEF Writes, IInv, Shape, TypeOK
  <2>6. s = w /\ image'[b].slots[s] = hooks[next].new
    BY <2>1, <2>3, <2>4, <2>5 DEF Writes
  <2>7. checked = elf => hooks[next].symbol = s
    BY <2>1, <2>3, <2>5, <2>6 DEF Writes
  <2>8. /\ next \in Matching(cur.path)
        /\ Verdict(hooks[next], cur.path) = "hook"
        /\ cur.path \in Lib[checked].contains
    BY <1>1 DEF HookStores, IInv, AtWork, Replacing
  <2>9. next \in Wanted(cur.path, hooks[next].symbol)
    BY <2>2, <2>8, VerdictHook DEF Matching
  <2>10. QED
    BY <2>2, <2>6, <2>7, <2>8, <2>9
<1>2. CASE Linker
  <2>1. \A b \in Bases : Mapped(b) /\ Mapped(b)' => image'[b] = image[b]
    BY <1>2 DEF Linker, Load, Unload, Mapped, IInv, Shape, TypeOK
  <2>2. QED
    BY <2>1 DEF ReplacesWanted
<1>3. CASE ~HookStores /\ ~Linker
  <2>1. image' = image
    BY <1>3 DEF Next, RefreshStep, StartRefresh, Clear, ReadLine, HeaderFails,
       HeaderOk, ElfInitFails, ElfInit, HookEnds, HookSkips, HookFaults,
       HookFinds, HookQueries, HookSaves, HookLeaves, EndRefresh, memory, walk
  <2>2. QED
    BY <2>1 DEF ReplacesWanted
<1>4. QED
  BY <1>1, <1>2, <1>3

(***************************************************************************)
(* A refresh changes a function pointer of a library only to the function  *)
(* of a hook info for its symbol that matches a path which the library's   *)
(* path contains and is not ignored there (xh_core.c:255-278,              *)
(* xh_elf.c:455-481, xh_util.c:61-62), although libraries are loaded and   *)
(* unloaded between any two steps, as long as the library whose protection *)
(* was queried is still there; for its symbol, if that is the library      *)
(* whose tables were parsed.                                               *)
(***************************************************************************)
THEOREM OnlyWanted == Spec => OnlyWantedReplaced
<1>1. Init => IInv
  BY InitInv
<1>2. IInv /\ [Next]_vars => IInv'
  BY StepInv
<1>3. IInv /\ [Next]_vars => [ReplacesWanted]_vars
  BY StepReplacesWanted
<1>4. OnlyWantedReplaced <=> [][ReplacesWanted]_vars
  BY DEF OnlyWantedReplaced, ReplacesWanted
<1>5. QED
  BY <1>1, <1>2, <1>3, <1>4, PTL DEF Spec

-----------------------------------------------------------------------------
(***************************************************************************)
(* Calls through replaced pointers.  While each symbol has one hook info,  *)
(* a pointer that is replaced was the original one, so that is what        *)
(* *old_func gets.                                                         *)
(***************************************************************************)
OldOriginal == \A f \in Funcs : old[f] \in {None, "orig"}

\* A pointer that is not the original one was put there by a hook info for its
\* symbol, which has set *old_func.
SlotsKnown ==
  \A b \in Bases : Mapped(b) =>
    \A s \in DOMAIN image[b].slots :
      image[b].slots[s] # "orig" =>
        \E k \in DOMAIN hooks :
          /\ hooks[k].symbol = s /\ hooks[k].new = image[b].slots[s]
          /\ old[hooks[k].new] # None

\* The pointer that is about to be saved has not been replaced, and the one
\* about to be replaced has been saved.
NotYetReplaced ==
  pc \in {"query", "save"} /\ Holds(cur.base, elf) =>
    image[cur.base].slots[hooks[next].symbol] # hooks[next].new

Saved == pc = "store" => old[hooks[next].new] # None

OldInv ==
  OneHookPerSymbol /\ ~wild =>
    OldOriginal /\ SlotsKnown /\ NotYetReplaced /\ Saved

(***************************************************************************)
(* Most steps change neither a pointer nor *old_func.                      *)
(***************************************************************************)
LEMMA MemorySteps ==
  ASSUME [Next]_vars
  PROVE  /\ UNCHANGED setup /\ (wild => wild')
         /\ \/ /\ UNCHANGED <<image, old, wild>>
               /\ \/ UNCHANGED <<pc, cur, elf, next>>
                  \/ pc' \notin Replacing
                  \/ HookFinds
                  \/ HookQueries
            \/ \E b \in Bases, p \in Paths : Load(b, p)
            \/ \E b \in Bases : Unload(b)
            \/ HookSaves \/ HookStores
<1>1. CASE StartRefresh \/ Clear \/ UNCHANGED vars
  BY <1>1 DEF StartRefresh, Clear, vars, memory, trace, Replacing
<1>2. CASE Linker
  BY <1>2 DEF Linker, Load, Unload, trace
<1>3. CASE HookFinds \/ HookQueries \/ HookSaves \/ HookStores
  <2>1. wild => wild'
    <3>1. CASE HookFinds \/ HookQueries
      BY <3>1 DEF HookFinds, HookQueries, trace
    <3>2. CASE HookSaves \/ HookStores
      BY <3>2 DEF HookSaves, HookStores, Use
    <3>3. QED
      BY <1>3, <3>1, <3>2
  <2>2. UNCHANGED setup
    BY <1>3 DEF HookFinds, HookQueries, HookSaves, HookStores
  <2>3. HookFinds \/ HookQueries => UNCHANGED <<image, old, wild>>
    BY DEF HookFinds, HookQueries, memory, trace
  <2>4. QED
    BY <1>3, <2>1, <2>2, <2>3
<1>4. CASE ReadLine
  BY <1>4 DEF ReadLine, memory, trace, Replacing
<1>5. CASE HeaderFails \/ HeaderOk \/ ElfInitFails \/ ElfInit
  BY <1>5 DEF HeaderFails, HeaderOk, ElfInitFails, ElfInit, memory, trace,
     Replacing
<1>6. CASE HookEnds \/ HookSkips \/ HookFaults \/ HookLeaves \/ EndRefresh
  BY <1>6 DEF HookEnds, HookSkips, HookFaults, HookLeaves, EndRefresh, Hooks,
     memory, trace, Replacing
<1>7. QED
  BY <1>1, <1>2, <1>3, <1>4, <1>5, <1>6 DEF Next, RefreshStep

LEMMA StepOldInv ==
  ASSUME IInv, OldInv, [Next]_vars
  PROVE  OldInv'
<1> SUFFICES ASSUME OneHookPerSymbol', ~wild'
             PROVE  OldOriginal' /\ SlotsKnown' /\ NotYetReplaced' /\ Saved'
  BY DEF OldInv
<1>1. UNCHANGED setup /\ ~wild
  BY MemorySteps DEF IInv, Shape, TypeOK
<1>2. OneHookPerSymbol /\ OldOriginal /\ SlotsKnown /\ NotYetReplaced /\ Saved
  BY <1>1 DEF OldInv, OneHookPerSymbol, hooks
<1>3. TypeOK
  BY DEF IInv, Shape
<1>4. ASSUME UNCHANGED <<image, old>>
      PROVE  OldOriginal' /\ SlotsKnown'
  BY <1>1, <1>2, <1>4 DEF OldOriginal, SlotsKnown, Mapped, hooks
<1>5. CASE UNCHANGED <<image, old, pc, cur, elf, next>>
  BY <1>1, <1>2, <1>4, <1>5 DEF NotYetReplaced, Saved, Holds, Mapped, hooks
<1>6. CASE UNCHANGED <<image, old>> /\ pc' \notin Replacing
  BY <1>4, <1>6 DEF NotYetReplaced, Saved, Replacing
<1>7. CASE HookFinds
  <2>1. UNCHANGED <<image, old, cur, elf, next>> /\ pc' = "query"
        /\ image[cur.base].slots[hooks[next].symbol] # hooks[next].new
    BY <1>7 DEF HookFinds, Replaceable, memory, walk
  <2>2. QED
    BY <1>1, <1>4, <2>1 DEF NotYetReplaced, Saved, hooks
<1>8. CASE HookQueries
  <2>1. UNCHANGED <<image, old, cur, elf, next>> /\ pc = "query" /\ pc' = "save"
    BY <1>8 DEF HookQueries, memory, walk
  <2>2. QED
    BY <1>1, <1>2, <1>4, <2>1 DEF NotYetReplaced, Saved, Holds, Mapped, hooks
<1>9. ASSUME NEW b \in Bases, NEW p \in Paths, Load(b, p)
      PROVE  OldOriginal' /\ SlotsKnown' /\ NotYetReplaced' /\ Saved'
  <2>1. /\ image' = [image EXCEPT ![b] =
               [path |-> p, slots |-> [s \in Lib[p].imports |-> "orig"]]]
        /\ UNCHANGED <<old, pc, cur, elf, next>>
    BY <1>9 DEF Load, walk
  <2>2. /\ \A s \in DOMAIN image'[b].slots : image'[b].slots[s] = "orig"
        /\ image'[b].path = p
        /\ image'[b].slots = [s \in Lib[p].imports |-> "orig"]
    BY <1>3, <2>1 DEF TypeOK
  <2>3. \A c \in Bases \ {b} : image'[c] = image[c]
    BY <1>3, <2>1 DEF TypeOK
  <2>4. OldOriginal' /\ SlotsKnown' /\ Saved'
    BY <1>1, <1>2, <2>1, <2>2, <2>3
       DEF OldOriginal, SlotsKnown, Saved, Mapped, hooks
  <2>5. NotYetReplaced'
    <3>1. SUFFICES ASSUME pc \in {"query", "save"}, Holds(cur.base, elf)'
                   PROVE  image'[cur.base].slots[hooks[next].symbol]
                            # hooks[next].new
      BY <1>1, <2>1 DEF NotYetReplaced, hooks
    <3>2. /\ next \in DOMAIN hooks /\ cur.base \in Bases
          /\ hooks[next].symbol \in Lib[elf].imports
      BY <1>3, <3>1 DEF IInv, AtWork, TypeOK, Replacing
    <3>3. CASE cur.base = b
      <4>1. elf = p
        BY <2>1, <2>2, <3>1, <3>3 DEF Holds
      <4>2. image'[b].slots[hooks[next].symbol] = "orig"
        BY <2>2, <3>2, <4>1
      <4>3. QED
        BY <1>3, <3>2, <3>3, <4>2, HookFacts, XhRefreshAssumption
    <3>4. CASE cur.base # b
      BY <1>2, <2>1, <2>3, <3>1, <3>2, <3>4 DEF NotYetReplaced, Holds, Mapped
    <3>5. QED
      BY <3>3, <3>4
  <2>6. QED
    BY <2>4, <2>5
<1>10. ASSUME NEW b \in Bases, Unload(b)
      PROVE  OldOriginal' /\ SlotsKnown' /\ NotYetReplaced' /\ Saved'
  <2>1. image' = [image EXCEPT ![b] = None]
        /\ UNCHANGED <<old, pc, cur, elf, next>>
    BY <1>10 DEF Unload, walk
  <2>2. \A c \in Bases : image'[c] # None => image'[c] = image[c]
    BY <1>3, <2>1 DEF TypeOK
  <2>3. OldOriginal' /\ SlotsKnown' /\ Saved'
    BY <1>1, <1>2, <2>1, <2>2 DEF OldOriginal, SlotsKnown, Saved, Mapped, hooks
  <2>4. pc \in {"query", "save"} => cur.base \in Bases
    BY <1>3 DEF TypeOK
  <2>5. NotYetReplaced'
    BY <1>1, <1>2, <2>1, <2>2, <2>4 DEF NotYetReplaced, Holds, Mapped, hooks
  <2>6. QED
    BY <2>3, <2>5
<1>11. CASE HookSaves
  <2> DEFINE s == hooks[next].symbol
             new == hooks[next].new
             at == cur.base
  <2>1. /\ next \in DOMAIN hooks /\ new \in Funcs
        /\ at \in Bases /\ Mapped(at) /\ image[at].path = elf
        /\ s \in Lib[elf].imports
        /\ pc = "save" /\ pc' = "store" /\ Holds(at, elf)
        /\ UNCHANGED <<image, cur, elf, next>>
    BY <1>3, <1>11, HookFacts
       DEF HookSaves, Use, Holds, memory, walk, IInv, AtWork, TypeOK, Replacing
  <2>2. s # None
    <3>1. s \in Symbols
      BY <1>3, <2>1 DEF Symbols, TypeOK
    <3>2. QED
      BY <3>1, XhRefreshAssumption
  <2>3. old' = [old EXCEPT ![new] = image[at].slots[s]]
    BY <1>11, <2>1, <2>2 DEF HookSaves, Words
  <2>4. image[at].slots[s] = "orig"
    <3>1. SUFFICES ASSUME image[at].slots[s] # "orig" PROVE FALSE
      OBVIOUS
    <3>2. s \in DOMAIN image[at].slots
      BY <1>3, <2>1, ImageFacts
    <3>3. PICK k \in DOMAIN hooks :
            hooks[k].symbol = s /\ hooks[k].new = image[at].slots[s]
      BY <1>2, <2>1, <3>1, <3>2 DEF SlotsKnown
    <3>4. k = next
      BY <1>2, <2>1, <3>3 DEF OneHookPerSymbol
    <3>5. QED
      BY <1>2, <2>1, <3>3, <3>4 DEF NotYetReplaced
  <2>5. old' = [old EXCEPT ![new] = "orig"]
    BY <2>3, <2>4
  <2>6. "orig" # None
    BY XhRefreshAssumption
  <2>7. UNCHANGED hooks
    BY <1>1 DEF hooks
  <2> HIDE DEF s, new, at
  <2>8. \A f \in Funcs : old'[f] = "orig" \/ old'[f] = old[f]
    BY <1>3, <2>5 DEF TypeOK
  <2>9. OldOriginal'
    BY <1>2, <2>8 DEF OldOriginal
  <2>10. \A f \in Funcs : old[f] # None \/ f = new => old'[f] # None
    BY <1>3, <2>5, <2>6 DEF TypeOK
  <2>11. Saved' /\ NotYetReplaced'
    BY <2>1, <2>7, <2>10 DEF Saved, NotYetReplaced, new
  <2>12. SlotsKnown'
    <3>1. \A k \in DOMAIN hooks : hooks[k].new \in Funcs
      BY <1>3, HookFacts
    <3>2. QED
      BY <1>2, <2>1, <2>7, <2>10, <3>1 DEF SlotsKnown, Mapped
  <2>13. QED
    BY <2>9, <2>11, <2>12
<1>12. CASE HookStores
  <2> DEFINE s == hooks[next].symbol
             new == hooks[next].new
             at == cur.base
  <2>1. /\ next \in DOMAIN hooks /\ at \in Bases /\ Mapped(at)
        /\ pc = "store" /\ pc' = "hook" /\ Holds(at, elf) /\ UNCHANGED old
    BY <1>12, StoreFacts DEF HookStores, Use
  <2>2. PICK w \in DOMAIN image[at].slots : Writes(w)
    BY <1>12, <2>1, StoreFacts
  <2>3. w = s
    BY <2>1, <2>2 DEF Writes
  <2>4. /\ image'[at] = [path |-> image[at].path,
                         slots |-> [image[at].slots EXCEPT ![s] = new]]
        /\ image' = [image EXCEPT ![at] = image'[at]]
    BY <2>2, <2>3 DEF Writes
  <2>5. image[at].slots \in [DOMAIN image[at].slots -> Funcs \cup {"orig"}]
        /\ s \in DOMAIN image[at].slots
    BY <1>3, <2>1, <2>2, <2>3, ImageFacts
  <2>6. old[new] # None
    BY <1>2, <2>1 DEF Saved
  <2>7. UNCHANGED hooks
    BY <1>1 DEF hooks
  <2>8. hooks[next].symbol = s /\ hooks[next].new = new
    OBVIOUS
  <2> HIDE DEF s, new, at
  <2>9. OldOriginal' /\ NotYetReplaced' /\ Saved'
    BY <1>2, <2>1 DEF OldOriginal, NotYetReplaced, Saved
  <2>10. SUFFICES ASSUME NEW b \in Bases, Mapped(b)',
                         NEW t \in DOMAIN image'[b].slots,
                         image'[b].slots[t] # "orig"
                  PROVE  \E k \in DOMAIN hooks :
                           /\ hooks[k].symbol = t
                           /\ hooks[k].new = image'[b].slots[t]
                           /\ old[hooks[k].new] # None
    BY <2>1, <2>7, <2>9 DEF SlotsKnown
  <2>11. CASE b # at
    <3>1. image'[b] = image[b]
      BY <1>3, <2>1, <2>4, <2>11 DEF TypeOK
    <3>2. QED
      BY <1>2, <2>10, <3>1 DEF SlotsKnown, Mapped
  <2>12. CASE b = at /\ t # s
    <3>1. t \in DOMAIN image[at].slots /\ image'[at].slots[t] = image[at].slots[t]
      BY <2>4, <2>5, <2>10, <2>12
    <3>2. QED
      BY <1>2, <2>1, <2>10, <2>12, <3>1 DEF SlotsKnown
  <2>13. CASE b = at /\ t = s
    <3>1. image'[b].slots[t] = new
      BY <2>4, <2>5, <2>13
    <3>2. QED
      BY <2>1, <2>6, <2>8, <2>13, <3>1
  <2>14. QED
    BY <2>11, <2>12, <2>13
<1>13. QED
  BY <1>5, <1>6, <1>7, <1>8, <1>9, <1>10, <1>11, <1>12, MemorySteps

(***************************************************************************)
(* For registrations in which no two hook infos are about one symbol, a    *)
(* hooked call comes to the original function and every replaced pointer   *)
(* has an *old_func ("already replaced?", xh_elf.c:455-457), for any       *)
(* libraries, loads and clears, as long as no library takes the place of   *)
(* another one in the middle of xh_elf_replace_function.                   *)
(***************************************************************************)
THEOREM OriginalReached == Spec => []ReachesOriginal
<1>1. Init => IInv /\ OldInv
  <2>1. Init => OldOriginal /\ SlotsKnown /\ NotYetReplaced /\ Saved
    BY DEF Init, OldOriginal, SlotsKnown, Mapped, NotYetReplaced, Saved
  <2>2. QED
    BY <2>1, InitInv DEF OldInv
<1>2. IInv /\ OldInv /\ [Next]_vars => (IInv /\ OldInv)'
  BY StepInv, StepOldInv
<1>3. OldInv => ReachesOriginal
  <2>1. SUFFICES ASSUME OldOriginal, SlotsKnown
                 PROVE  ReachesOriginal
    BY DEF OldInv, ReachesOriginal
  <2>2. ASSUME NEW F \in (SUBSET Funcs) \ {{}}
        PROVE  \E f \in F : old[f] \notin F
    BY <2>1, <2>2, XhRefreshAssumption DEF OldOriginal
  <2>3. ASSUME NEW b \in Bases, Mapped(b), NEW s \in DOMAIN image[b].slots,
               image[b].slots[s] # "orig"
        PROVE  old[image[b].slots[s]] # None
    BY <2>1, <2>3 DEF SlotsKnown
  <2>4. QED
    BY <2>2, <2>3 DEF ReachesOriginal
<1>4. QED
  BY <1>1, <1>2, <1>3, PTL DEF Spec

-----------------------------------------------------------------------------
(***************************************************************************)
(* Libraries that stay mapped.                                             *)
(***************************************************************************)
\* The pointers of b are as the hook infos before the n-th leave them.
HookedUpTo(b, n) ==
  \A s \in Lib[image[b].path].imports :
    LET W == {k \in Wanted(image[b].path, s) : k < n} IN
    \A k \in W : (\A j \in W : j <= k) => image[b].slots[s] = hooks[k].new

Done(b) == HookedUpTo(b, Len(hooks) + 1)

\* The executable line of a supported library from which it is hooked.
ExecLine(b) ==
  [base |-> b, seg |-> IF Lib[image[b].path].segments[1] = "rx" THEN 1 ELSE 2]

\* The walk over the lines has got to l.
Passed(l) == l = pos \/ Before(l, pos)

\* The refresh works on the library p at b.
WorksOn(b, p) == cur.base = b /\ cur.path = p

Walking == {"read", "header", "init", "hook"} \cup Replacing
Working == {"header", "init", "hook"} \cup Replacing
Hooking == {"init", "hook"} \cup Replacing

\* Where the walk is; outside a refresh the new map is empty.
WalkOK ==
  /\ pos \in [base : Bases \cup {0}, seg : Nat]
  /\ pc = "idle" => \A p \in Paths : refreshed[p] = None
  /\ pc \in Hooking => refreshed[cur.path] = cur.base /\ tree[cur.path] = None

\* Nothing that the walk remembers confuses the library at b with another one.
Unconfused(b) ==
  LET p == image[b].path IN
  /\ Mapped(b)
  /\ \A c \in Bases \ {b} : ~Holds(c, p)
  /\ pc \in Walking =>
       /\ refreshed[p] \in {None, b}
       /\ prev.base = b <=> prev.path = p
       /\ /\ Supported(p) /\ pos = [base |-> b, seg |-> 1]
          /\ Lib[p].segments[1] = "r"
          => prev = [path |-> p, base |-> b, seg |-> 1]
  /\ pc \in Working => (cur.base = b <=> cur.path = p)

StableOK == \A b \in stable : Unconfused(b)

\* The hook infos that were taken so far.
HookingOK ==
  pc \in {"hook"} \cup Replacing /\ Holds(cur.base, cur.path) =>
    elf = cur.path /\ HookedUpTo(cur.base, next)

\* A library that took the place of p has no entry for it.
Foreign(p, base) ==
  Mapped(base) /\ image[base].path # p =>
    base \notin {tree[image[base].path], refreshed[image[base].path]}

\* What the walk remembers of a library is not about one that came after it.
Stranger ==
  /\ pc \in Walking /\ prev.seg = 1 =>
       /\ prev.path # None /\ Foreign(prev.path, prev.base)
       /\ Passed([base |-> prev.base, seg |-> 1])
       /\ pc \in Working /\ cur.base = prev.base => cur.path = prev.path
  /\ pc \in Working => Foreign(cur.path, cur.base)

\* A library with an entry in a map has been hooked or is being hooked.
EntryDone(b) ==
  LET p == image[b].path IN
  Mapped(b) /\ Supported(p) /\ b \in {tree[p], refreshed[p]} =>
    Done(b) \/ (pc \in Hooking /\ WorksOn(b, p))

EntriesDone == \A b \in Bases : EntryDone(b)

\* A library that is wanted has an entry once the walk has got to it.
Seen(b) ==
  LET p == image[b].path IN
  Supported(p) /\ Match(p) =>
    /\ pc = "idle" => tree[p] = b
    /\ pc \in Walking /\ Passed(ExecLine(b)) =>
         refreshed[p] = b \/ (pc = "header" /\ WorksOn(b, p))

StableSeen == \A b \in stable : Seen(b)

HookedInv ==
  WalkOK /\ StableOK /\ HookingOK /\ Stranger /\ EntriesDone /\ StableSeen

\* Each library that is to be hooked is so by the first hook info that matches
\* its path; XhRefresh_ignored is about the other ones.
FirstDecides ==
  \A p \in Paths, s \in Symbols : Wanted(p, s) # {} => Match(p)
-----------------------------------------------------------------------------
(***************************************************************************)
(* Numbers and lines are ordered.                                          *)
(***************************************************************************)
LEMMA Least ==
  ASSUME NEW T \in SUBSET Nat, T # {}
  PROVE  \E x \in T : \A y \in T : x <= y
<1> DEFINE R == OpToRel(<, Nat)
<1>1. IsWellFoundedOn(R, Nat)
  BY NatLessThanWellFounded
<1>2. PICK x \in T : \A y \in T : <<y, x>> \notin R
  <2> HIDE DEF R
  <2> QED
    BY <1>1, WFMin
<1>3. \A y \in T : ~(y < x)
  BY <1>2 DEF OpToRel
<1> QED
  BY <1>3

LEMMA Greatest ==
  ASSUME NEW n \in Nat, NEW T \in SUBSET (0 .. n), T # {}
  PROVE  \E x \in T : \A y \in T : y <= x
<1> DEFINE U == {n - x : x \in T}
<1>1. U \in SUBSET Nat /\ U # {}
  <2>1. \A x \in T : x \in 0 .. n
    OBVIOUS
  <2>2. \A x \in T : n - x \in Nat
    BY <2>1
  <2>3. PICK x \in T : TRUE
    OBVIOUS
  <2>4. n - x \in U
    BY <2>3
  <2> QED
    BY <2>2, <2>4
<1>2. PICK u \in U : \A v \in U : u <= v
  <2> HIDE DEF U
  <2> QED
    BY <1>1, Least
<1>3. PICK x \in T : u = n - x
  BY <1>2
<1>4. \A y \in T : n - x <= n - y
  BY <1>2, <1>3
<1> QED
  BY <1>4

LineType == [base : Bases \cup {0}, seg : Nat]

LEMMA BasesPositive == Bases \subseteq Nat /\ 0 \notin Bases
BY XhRefreshAssumption

LEMMA LinesOrdered ==
  ASSUME NEW l \in LineType, NEW m \in LineType
  PROVE  /\ l = m \/ Before(l, m) \/ Before(m, l)
         /\ ~(Before(l, m) /\ (l = m \/ Before(m, l)))
<1>1. /\ l = [base |-> l.base, seg |-> l.seg]
      /\ m = [base |-> m.base, seg |-> m.seg]
  BY DEF LineType
<1>2. l.base \in Nat /\ l.seg \in Nat /\ m.base \in Nat /\ m.seg \in Nat
  <2>1. l.base \in Bases \cup {0} /\ m.base \in Bases \cup {0}
    BY DEF LineType
  <2>2. l.seg \in Nat /\ m.seg \in Nat
    BY DEF LineType
  <2>3. Bases \cup {0} \subseteq Nat
    BY BasesPositive
  <2> QED
    BY <2>1, <2>2, <2>3
<1> QED
  BY <1>1, <1>2 DEF Before

LEMMA LinesType ==
  Lines \subseteq LineType
BY DEF Lines, LineType

(***************************************************************************)
(* What the search of the ignore infos leaves to be hooked.                *)
(***************************************************************************)
LEMMA SetupType ==
  ASSUME TypeOK
  PROVE  hooks \in Seq(HookInfo) /\ ignores \in Seq(IgnoreInfo)
BY XhRefreshAssumption DEF TypeOK, hooks, ignores

LEMMA VerdictSkip ==
  ASSUME NEW k \in DOMAIN hooks, NEW p, NEW s,
         k \in Matching(p) => Verdict(hooks[k], p) = "skip"
  PROVE  k \notin Wanted(p, s)
<1> SUFFICES ASSUME k \in Wanted(p, s) PROVE FALSE
  OBVIOUS
<1>1. {i \in DOMAIN ignores : Relevant(i, p, hooks[k].symbol)} = {}
  BY DEF Wanted
<1>2. Verdict(hooks[k], p) = "hook"
  BY <1>1 DEF Verdict
<1> QED
  BY <1>2 DEF Wanted

LEMMA VerdictStop ==
  ASSUME TypeOK, NEW k \in DOMAIN hooks, NEW p, NEW s,
         Verdict(hooks[k], p) = "stop"
  PROVE  Wanted(p, s) = {}
<1> DEFINE R == {i \in DOMAIN ignores : Relevant(i, p, hooks[k].symbol)}
           First(i) == \A j \in R : i <= j
<1>1. /\ R # {}
      /\ ignores[CHOOSE i \in R : First(i)].symbol = None
  BY DEF Verdict
<1>2. R \in SUBSET Nat
  BY SetupType
<1>3. \E i \in R : First(i)
  <2> HIDE DEF R
  <2> QED
    BY <1>1, <1>2, Least
<1>4. (CHOOSE i \in R : First(i)) \in R
  <2> HIDE DEF R, First
  <2> QED
    BY <1>3
<1>5. PICK i \in R : ignores[i].symbol = None
  BY <1>1, <1>4
<1>6. Relevant(i, p, s) /\ i \in DOMAIN ignores
  BY <1>5 DEF Relevant
<1> QED
  BY <1>6 DEF Wanted

(***************************************************************************)
(* All hook infos having been taken, the last one for a symbol counts.     *)
(***************************************************************************)
LEMMA DoneMeans ==
  ASSUME TypeOK, NEW b \in Bases, Done(b), NEW s \in Lib[image[b].path].imports,
         Wanted(image[b].path, s) # {}
  PROVE  LET W == Wanted(image[b].path, s) IN
         image[b].slots[s] = hooks[CHOOSE k \in W : \A j \in W : j <= k].new
<1> DEFINE W == Wanted(image[b].path, s)
           Last(k) == \A j \in W : j <= k
<1>1. W \in SUBSET (0 .. Len(hooks))
  BY SetupType DEF Wanted, Matching
<1>2. Len(hooks) \in Nat
  BY SetupType
<1>3. \E k \in W : Last(k)
  <2> HIDE DEF W
  <2>1. W # {}
    BY DEF W
  <2> QED
    BY <1>1, <1>2, <2>1, Greatest
<1>4. W = {k \in Wanted(image[b].path, s) : k < Len(hooks) + 1}
  BY <1>1, <1>2
<1>5. \A k \in W : Last(k) => image[b].slots[s] = hooks[k].new
  BY <1>4 DEF Done, HookedUpTo
<1>6. (CHOOSE k \in W : Last(k)) \in W /\ Last(CHOOSE k \in W : Last(k))
  <2> HIDE DEF W, Last
  <2> QED
    BY <1>3
<1> QED
  BY <1>5, <1>6

LEMMA DoneIfUnwanted ==
  ASSUME NEW b \in Bases, NEW n, \A s : Wanted(image[b].path, s) = {}
  PROVE  HookedUpTo(b, n)
BY DEF HookedUpTo

LEMMA HookedUpToSame ==
  ASSUME NEW b, NEW n, image'[b] = image[b], UNCHANGED setup
  PROVE  HookedUpTo(b, n)' <=> HookedUpTo(b, n)
BY DEF HookedUpTo, Wanted, Matching, Relevant, hooks, ignores

LEMMA DoneSame ==
  ASSUME NEW b, image'[b] = image[b], UNCHANGED setup
  PROVE  Done(b)' <=> Done(b)
BY DEF Done, HookedUpTo, Wanted, Matching, Relevant, hooks, ignores


-----------------------------------------------------------------------------
(***************************************************************************)
(* What steps leave alone.                                                 *)
(***************************************************************************)
\* A step of the work on one library, or none.
Work ==
  /\ UNCHANGED <<setup, tree, refreshed, pos, prev, cur, stable>>
  /\ \/ pc' = pc
     \/ pc \in Hooking /\ pc' \in Hooking
     \/ pc \in Working /\ pc' = "read"

LEMMA Steps ==
  ASSUME [Next]_vars
  PROVE  /\ UNCHANGED setup
         /\ \/ \E b \in Bases, p \in Paths : Load(b, p)
            \/ \E b \in Bases : Unload(b)
            \/ StartRefresh \/ ReadLine \/ HeaderOk \/ EndRefresh \/ Clear
            \/ Work /\ (UNCHANGED image \/ HookStores)
<1>1. CASE Linker
  BY <1>1 DEF Linker, Load, Unload
<1>2. CASE StartRefresh \/ ReadLine \/ HeaderOk \/ EndRefresh \/ Clear
  BY <1>2 DEF StartRefresh, ReadLine, HeaderOk, EndRefresh, Clear
<1>3. CASE UNCHANGED vars
  BY <1>3 DEF vars, Work
<1>4. CASE HeaderFails \/ ElfInitFails \/ HookEnds \/ HookFaults
  BY <1>4 DEF HeaderFails, ElfInitFails, HookEnds, HookFaults, Hooks, memory,
     maps, walk, Work, Working, Replacing
<1>5. CASE ElfInit \/ HookSkips \/ HookLeaves
  BY <1>5 DEF ElfInit, HookSkips, HookLeaves, Hooks, memory, maps, Work, Hooking,
     Replacing
<1>6. CASE HookFinds \/ HookQueries \/ HookSaves
  BY <1>6 DEF HookFinds, HookQueries, HookSaves, Hooks, memory, maps, walk, Work,
     Hooking, Replacing
<1>7. CASE HookStores
  BY <1>7 DEF HookStores, maps, Work, Hooking, Replacing
<1>8. QED
  BY <1>1, <1>2, <1>3, <1>4, <1>5, <1>6, <1>7 DEF Next, RefreshStep

LEMMA SamePaths ==
  ASSUME IInv, UNCHANGED image \/ HookStores
  PROVE  \A b \in Bases :
           /\ Mapped(b)' <=> Mapped(b)
           /\ Mapped(b) => image'[b].path = image[b].path
           /\ \A p : Holds(b, p)' <=> Holds(b, p)
<1>1. CASE UNCHANGED image
  BY <1>1 DEF Mapped, Holds
<1>2. CASE HookStores /\ ~(UNCHANGED image)
  <2>1. cur.base \in Bases /\ Mapped(cur.base)
    BY <1>2, StoreFacts
  <2>2. PICK w \in DOMAIN image[cur.base].slots : Writes(w)
    BY <1>2, StoreFacts
  <2>3. /\ image'[cur.base].path = image[cur.base].path
        /\ image' = [image EXCEPT ![cur.base] = image'[cur.base]]
    BY <2>2 DEF Writes
  <2>4. image'[cur.base] # None
    <3>1. image[cur.base].path \in Paths
      BY <2>1, ImageFacts DEF IInv, Shape
    <3>2. image'[cur.base] \in Images
      <4>1. image[cur.base].slots
              \in [Lib[image[cur.base].path].imports -> Funcs \cup {"orig"}]
        BY <2>1, ImageFacts DEF IInv, Shape
      <4>2. hooks[next].new \in Funcs
        BY <1>2, StoreFacts
      <4>3. [image[cur.base].slots EXCEPT ![w] = hooks[next].new]
              \in [Lib[image[cur.base].path].imports -> Funcs \cup {"orig"}]
        BY <4>1, <4>2
      <4>4. QED
        BY <2>2, <3>1, <4>3, MakeImage DEF Writes
    <3>3. QED
      BY <3>2, XhRefreshAssumption
  <2>5. \A b \in Bases : b # cur.base => image'[b] = image[b]
    BY <2>1, <2>3 DEF IInv, Shape, TypeOK
  <2>6. QED
    BY <2>1, <2>3, <2>4, <2>5 DEF Mapped, Holds
<1>3. QED
  BY <1>1, <1>2

\* A library stays where it is when another one comes or goes.
LEMMA LoadFacts ==
  ASSUME TypeOK, NEW a \in Bases, NEW q \in Paths, Load(a, q)
  PROVE  /\ \A b \in Bases \ {a} : image'[b] = image[b]
         /\ image'[a].path = q /\ ~Mapped(a)
         /\ UNCHANGED <<setup, tree, refreshed, pc, pos, prev, cur, elf, next>>
         /\ stable' = {c \in stable : ~Holds(c, q)}
         /\ MayReload = FALSE => a \notin {tree[q], refreshed[q]}
BY DEF Load, TypeOK, maps, walk

LEMMA UnloadFacts ==
  ASSUME TypeOK, NEW a \in Bases, Unload(a)
  PROVE  /\ \A b \in Bases \ {a} : image'[b] = image[b]
         /\ image'[a] = None
         /\ UNCHANGED <<setup, tree, refreshed, pc, pos, prev, cur, elf, next>>
         /\ stable' = stable \ {a}
BY DEF Unload, TypeOK, maps, walk

(***************************************************************************)
(* The walk over the lines.                                                *)
(***************************************************************************)
LEMMA ReadFacts ==
  ASSUME TypeOK, ReadLine
  PROVE  /\ pc = "read" /\ UNCHANGED <<image, setup, tree, refreshed, stable>>
         /\ pos' \in Lines /\ NextLine(pos')
         /\ LET p == image[pos'.base].path
                perm == Lib[p].segments[pos'.seg]
            IN
            \/ perm \in {"none", "shared"} /\ UNCHANGED <<prev, cur, pc>>
            \/ /\ perm \in {"r", "rw"}
               /\ prev' = [path |-> p, base |-> pos'.base, seg |-> pos'.seg]
               /\ UNCHANGED <<cur, pc>>
            \/ /\ perm = "rx"
               /\ BaseOf(pos', p) = None \/ ~Match(p)
               /\ UNCHANGED <<prev, cur, pc>>
            \/ /\ perm = "rx"
               /\ BaseOf(pos', p) # None /\ Match(p)
               /\ cur' = [path |-> p, base |-> BaseOf(pos', p)]
               /\ pc' = "header"
               /\ UNCHANGED prev
<1>1. pc = "read" /\ UNCHANGED <<image, setup, tree, refreshed, stable>>
  BY DEF ReadLine, memory, maps
<1>2. PICK l \in Lines :
        LET p == image[l.base].path
            perm == Lib[p].segments[l.seg]
        IN
        /\ NextLine(l)
        /\ pos' = l
        /\ \/ perm \in {"none", "shared"} /\ UNCHANGED <<prev, cur, pc>>
           \/ /\ perm \in {"r", "rw"}
              /\ prev' = [path |-> p, base |-> l.base, seg |-> l.seg]
              /\ UNCHANGED <<cur, pc>>
           \/ /\ perm = "rx"
              /\ BaseOf(l, p) = None \/ ~Match(p)
              /\ UNCHANGED <<prev, cur, pc>>
           \/ /\ perm = "rx"
              /\ BaseOf(l, p) # None /\ Match(p)
              /\ cur' = [path |-> p, base |-> BaseOf(l, p)]
              /\ pc' = "header"
              /\ UNCHANGED prev
  BY DEF ReadLine
<1>3. pos' \in Lines /\ NextLine(pos')
  BY <1>2
<1>4. QED
  BY <1>1, <1>2, <1>3

LEMMA HeaderFacts ==
  ASSUME TypeOK, HeaderOk
  PROVE  /\ pc = "header" /\ HasHeader(cur.base)
         /\ UNCHANGED <<image, setup, pos, prev, cur, elf, next, stable>>
         /\ tree' = [tree EXCEPT ![cur.path] = None]
         /\ refreshed' = IF refreshed[cur.path] = None
                         THEN [refreshed EXCEPT ![cur.path] = cur.base]
                         ELSE refreshed
         /\ \/ /\ pc' = "init"
               /\ refreshed[cur.path] = None /\ tree[cur.path] # cur.base
            \/ /\ pc' = "read"
               /\ refreshed[cur.path] # None \/ tree[cur.path] = cur.base
BY DEF HeaderOk, Found, ToHook, memory, walk

LEMMA EndFacts ==
  ASSUME EndRefresh
  PROVE  /\ pc = "read" /\ pc' = "idle"
         /\ UNCHANGED <<image, setup, pos, prev, cur, elf, next, stable>>
         /\ tree' = refreshed /\ refreshed' = [p \in Paths |-> None]
         /\ \A l \in Lines : ~Before(pos, l)
BY DEF EndRefresh, memory, walk

LEMMA StartFacts ==
  ASSUME StartRefresh
  PROVE  /\ pc = "idle" /\ pc' = "read"
         /\ UNCHANGED <<image, setup, tree, refreshed>>
         /\ pos' = Start /\ prev' = NoPrev
         /\ stable' = {b \in Bases : Mapped(b) /\ \A c \in Bases \ {b} :
                                                    ~Holds(c, image[b].path)}
BY DEF StartRefresh, memory, maps

LEMMA ClearFacts ==
  ASSUME Clear
  PROVE  /\ pc = "idle" /\ pc' = "idle" /\ stable' = {}
         /\ tree' = [p \in Paths |-> None]
         /\ UNCHANGED <<image, setup, refreshed, pos, prev, cur>>
BY DEF Clear, memory, walk

LEMMA StepWalkOK ==
  ASSUME IInv, WalkOK, [Next]_vars
  PROVE  WalkOK'
<1>1. TypeOK
  BY DEF IInv, Shape
<1>2. ASSUME NEW a \in Bases, NEW q \in Paths, Load(a, q)
      PROVE  WalkOK'
  BY <1>1, <1>2, LoadFacts DEF WalkOK
<1>3. ASSUME NEW a \in Bases, Unload(a)
      PROVE  WalkOK'
  BY <1>1, <1>3, UnloadFacts DEF WalkOK
<1>4. CASE Work
  BY <1>4 DEF Work, Working, Hooking, WalkOK, Replacing
<1>5. CASE StartRefresh
  <2>1. pc' = "read" /\ pos' = [base |-> 0, seg |-> 0]
    BY <1>5, StartFacts DEF Start
  <2>2. QED
    BY <2>1 DEF WalkOK, Hooking, Replacing
<1>6. CASE ReadLine
  <2>1. pos' \in Lines /\ pc' \in {"read", "header"}
    BY <1>1, <1>6, ReadFacts
  <2>2. QED
    BY <2>1, LinesType DEF WalkOK, Hooking, LineType, Replacing
<1>7. CASE HeaderOk
  <2>1. cur.path \in Paths
    BY <1>1, <1>7 DEF HeaderOk, TypeOK
  <2>2. QED
    BY <1>1, <1>7, <2>1, HeaderFacts DEF WalkOK, Hooking, TypeOK, Replacing
<1>8. CASE EndRefresh
  BY <1>8, EndFacts DEF WalkOK, Hooking, Replacing
<1>9. CASE Clear
  BY <1>9, ClearFacts DEF WalkOK, Hooking, Replacing
<1>10. QED
  BY <1>2, <1>3, <1>4, <1>5, <1>6, <1>7, <1>8, <1>9, Steps

LEMMA StepStableOK ==
  ASSUME IInv, WalkOK, StableOK, [Next]_vars
  PROVE  StableOK'
<1>1. TypeOK /\ stable \subseteq Bases
  BY DEF IInv, Shape, TypeOK
<1>2. ASSUME NEW a \in Bases, NEW q \in Paths, Load(a, q)
      PROVE  StableOK'
  <2>1. /\ \A b \in Bases \ {a} : image'[b] = image[b]
        /\ image'[a].path = q /\ ~Mapped(a)
        /\ UNCHANGED <<refreshed, pc, pos, prev, cur>>
    BY <1>1, <1>2, LoadFacts
  <2>2. stable' = {c \in stable : ~Holds(c, q)}
    BY <1>2 DEF Load
  <2>3. SUFFICES ASSUME NEW b \in stable, ~Holds(b, q)
                 PROVE  Unconfused(b)'
    BY <2>2 DEF StableOK
  <2>4. Unconfused(b) /\ Mapped(b) /\ b \in Bases
    BY <1>1, <2>3 DEF StableOK, Unconfused
  <2>5. b # a /\ image'[b] = image[b] /\ image[b].path # q
    BY <2>1, <2>3, <2>4 DEF Holds
  <2>6. \A c \in Bases \ {b} : ~(Mapped(c)' /\ image'[c].path = image[b].path)
    BY <2>1, <2>4, <2>5 DEF Unconfused, Holds, Mapped
  <2>7. QED
    BY <2>1, <2>4, <2>5, <2>6 DEF Unconfused, Holds, Mapped
<1>3. ASSUME NEW a \in Bases, Unload(a)
      PROVE  StableOK'
  <2>1. SUFFICES ASSUME NEW b \in stable, b # a
                 PROVE  Unconfused(b)'
    BY <1>1, <1>3, UnloadFacts DEF StableOK
  <2>2. Unconfused(b) /\ b \in Bases
    BY <1>1, <2>1 DEF StableOK
  <2>3. QED
    BY <1>1, <1>3, <2>1, <2>2, UnloadFacts DEF Unconfused, Holds, Mapped
<1>4. CASE Work /\ (UNCHANGED image \/ HookStores)
  <2>1. SUFFICES ASSUME NEW b \in stable
                 PROVE  Unconfused(b)'
    BY <1>4 DEF Work, StableOK
  <2>2. Unconfused(b) /\ b \in Bases
    BY <1>1, <2>1 DEF StableOK
  <2>3. /\ Mapped(b)' /\ image'[b].path = image[b].path
        /\ \A c \in Bases : \A p : Holds(c, p)' <=> Holds(c, p)
    BY <1>1, <1>4, <2>2, SamePaths DEF Unconfused
  <2>4. /\ UNCHANGED <<refreshed, pos, prev, cur>>
        /\ pc' \in Walking => pc \in Walking
        /\ pc' \in Working => pc \in Working
    BY <1>4 DEF Work, Walking, Working, Hooking
  <2>5. /\ \A c \in Bases \ {b} : ~Holds(c, image[b].path)'
    BY <2>2, <2>3 DEF Unconfused
  <2>6. QED
    BY <2>2, <2>3, <2>4, <2>5 DEF Unconfused, Holds
<1>5. CASE StartRefresh
  <2>1. SUFFICES ASSUME NEW b \in Bases, Mapped(b),
                        \A c \in Bases \ {b} : ~Holds(c, image[b].path)
                 PROVE  Unconfused(b)'
    BY <1>5, StartFacts DEF StableOK
  <2>2. image[b].path \in Paths
    BY <1>1, <2>1, ImageFacts
  <2>3. refreshed'[image[b].path] = None
    BY <1>5, <2>2, StartFacts DEF WalkOK
  <2>4. prev'.base # b /\ prev'.path # image[b].path /\ pos'.base # b
    BY <1>5, <2>2, StartFacts, BasesPositive, XhRefreshAssumption
       DEF NoPrev, Start
  <2>5. pc' = "read" /\ pos' # [base |-> b, seg |-> 1]
    BY <1>5, <2>4, StartFacts
  <2>6. QED
    BY <1>5, <2>1, <2>3, <2>4, <2>5, StartFacts
       DEF Unconfused, Holds, Mapped, Working, Replacing
<1>6. CASE ReadLine
  <2>1. SUFFICES ASSUME NEW b \in stable
                 PROVE  Unconfused(b)'
    BY <1>1, <1>6, ReadFacts DEF StableOK
  <2> DEFINE l == pos'
             p == image[b].path
  <2>2. /\ Unconfused(b) /\ b \in Bases /\ pc = "read" /\ Mapped(b)
        /\ UNCHANGED <<image, refreshed>>
        /\ l \in Lines
    BY <1>1, <1>6, <2>1, ReadFacts DEF StableOK, Unconfused
  <2>3. l.base \in Bases /\ Mapped(l.base) /\ l = [base |-> l.base, seg |-> l.seg]
    BY <2>2 DEF Lines
  <2>4. l.base = b <=> image[l.base].path = p
    BY <2>2, <2>3 DEF Unconfused, Holds
  <2>5. /\ refreshed[p] \in {None, b}
        /\ prev.base = b <=> prev.path = p
    BY <2>2 DEF Unconfused, Walking
  <2>6. prev'.base = b <=> prev'.path = p
    BY <1>1, <1>6, <2>4, <2>5, ReadFacts
  <2>7. ASSUME pos' = [base |-> b, seg |-> 1], Lib[p].segments[1] = "r"
        PROVE  prev' = [path |-> p, base |-> b, seg |-> 1]
    BY <1>1, <1>6, <2>7, ReadFacts
  <2>8. ASSUME pc' \in Working
        PROVE  cur'.base = b <=> cur'.path = p
    <3>1. /\ BaseOf(l, image[l.base].path) # None
          /\ cur' = [path |-> image[l.base].path,
                     base |-> BaseOf(l, image[l.base].path)]
      BY <1>1, <1>6, <2>8, ReadFacts DEF Working, Replacing
    <3>2. QED
      BY <2>4, <2>5, <3>1 DEF BaseOf
  <2>9. QED
    BY <2>2, <2>5, <2>6, <2>7, <2>8 DEF Unconfused, Holds, Mapped
<1>7. CASE HeaderOk
  <2>1. SUFFICES ASSUME NEW b \in stable
                 PROVE  Unconfused(b)'
    BY <1>1, <1>7, HeaderFacts DEF StableOK
  <2>2. Unconfused(b) /\ b \in Bases /\ pc = "header"
    BY <1>1, <1>7, <2>1, HeaderFacts DEF StableOK
  <2>3. image[b].path \in Paths /\ cur.path \in Paths
    BY <1>1, <2>2, ImageFacts DEF Unconfused, TypeOK
  <2>4. refreshed[image[b].path] \in {None, b}
        /\ (cur.base = b <=> cur.path = image[b].path)
    BY <2>2 DEF Unconfused, Walking, Working
  <2>5. refreshed'[image[b].path] \in {None, b}
    BY <1>1, <1>7, <2>3, <2>4, HeaderFacts DEF TypeOK
  <2>6. UNCHANGED <<image, pos, prev, cur>>
    BY <1>1, <1>7, HeaderFacts
  <2>7. QED
    BY <2>2, <2>4, <2>5, <2>6 DEF Unconfused, Holds, Mapped, Walking
<1>8. CASE EndRefresh
  <2>1. SUFFICES ASSUME NEW b \in stable
                 PROVE  Unconfused(b)'
    BY <1>8, EndFacts DEF StableOK
  <2>2. Unconfused(b)
    BY <2>1 DEF StableOK
  <2>3. QED
    BY <1>8, <2>2, EndFacts DEF Unconfused, Holds, Mapped, Walking, Working,
       Replacing
<1>9. CASE Clear
  BY <1>9, ClearFacts DEF StableOK
<1>10. QED
  BY <1>2, <1>3, <1>4, <1>5, <1>6, <1>7, <1>8, <1>9, Steps

(***************************************************************************)
(* The hook infos are taken in their order.                                *)
(***************************************************************************)
LEMMA TakeNext ==
  ASSUME TypeOK, UNCHANGED setup, NEW b \in Bases, NEW n \in DOMAIN hooks,
         image'[b].path = image[b].path, HookedUpTo(b, n),
         \A s \in Lib[image[b].path].imports :
           image'[b].slots[s] =
             IF n \in Wanted(image[b].path, s)
             THEN hooks[n].new ELSE image[b].slots[s]
  PROVE  HookedUpTo(b, n + 1)'
<1> DEFINE p == image[b].path
<1>1. \A s : Wanted(p, s)' = Wanted(p, s)
  BY DEF Wanted, Matching, Relevant, hooks, ignores
<1>2. UNCHANGED hooks
  BY DEF hooks
<1>3. \A s : Wanted(p, s) \subseteq Nat
  BY SetupType DEF Wanted, Matching
<1>4. n \in Nat
  BY SetupType
<1>5. SUFFICES ASSUME NEW s \in Lib[p].imports,
                      NEW k \in Wanted(p, s), k < n + 1,
                      \A j \in Wanted(p, s) : j < n + 1 => j <= k
               PROVE  image'[b].slots[s] = hooks[k].new
  <2>1. HookedUpTo(b, n + 1)' <=>
          \A s \in Lib[p].imports :
            \A k \in {k \in Wanted(p, s) : k < n + 1} :
              (\A j \in {j \in Wanted(p, s) : j < n + 1} : j <= k)
                => image'[b].slots[s] = hooks[k].new
    BY <1>1, <1>2 DEF HookedUpTo
  <2> HIDE DEF p
  <2>2. QED
    BY <1>5, <2>1
<1>6. CASE n \in Wanted(p, s)
  <2>1. n <= k
    BY <1>4, <1>5, <1>6
  <2>2. k = n
    BY <1>3, <1>4, <1>5, <2>1
  <2>3. QED
    BY <1>5, <1>6, <2>2
<1>7. CASE n \notin Wanted(p, s)
  <2>1. k # n /\ k \in Nat /\ \A j \in Wanted(p, s) : j \in Nat
    BY <1>3, <1>5, <1>7
  <2>2. k < n
    BY <1>4, <1>5, <2>1
  <2>3. \A j \in Wanted(p, s) : j < n => j < n + 1
    BY <1>4, <2>1
  <2>4. image[b].slots[s] = hooks[k].new
    BY <1>5, <2>2, <2>3 DEF HookedUpTo
  <2>5. QED
    BY <1>5, <1>7, <2>4
<1>8. QED
  BY <1>6, <1>7

\* Nothing has to be done for a hook info that xh_core_hook_impl skips.
LEMMA SkipNext ==
  ASSUME TypeOK, HookSkips, NEW b \in Bases, cur.path = image[b].path,
         HookedUpTo(b, next)
  PROVE  HookedUpTo(b, next + 1)
<1>1. next \in DOMAIN hooks /\ next \in Nat
  BY SetupType DEF HookSkips
<1>2. \A s : next \notin Wanted(image[b].path, s)
  BY VerdictSkip DEF HookSkips
<1>3. \A s : \A k \in Wanted(image[b].path, s) : k \in Nat
  BY SetupType DEF Wanted, Matching
<1>4. \A s : {k \in Wanted(image[b].path, s) : k < next + 1}
               = {k \in Wanted(image[b].path, s) : k < next}
  <2>1. SUFFICES ASSUME NEW s, NEW k \in Wanted(image[b].path, s)
                 PROVE  k < next + 1 <=> k < next
    OBVIOUS
  <2>2. k # next /\ k \in Nat
    BY <1>2, <1>3
  <2>3. QED
    BY <1>1, <2>2
<1>5. QED
  BY <1>4 DEF HookedUpTo

LEMMA StepHookingOK ==
  ASSUME MayReload = FALSE, IInv, WalkOK, HookingOK, [Next]_vars
  PROVE  HookingOK'
<1>1. TypeOK
  BY DEF IInv, Shape
<1>2. SUFFICES ASSUME pc' \in {"hook"} \cup Replacing,
                      Holds(cur.base, cur.path)'
               PROVE  elf' = cur'.path /\ HookedUpTo(cur.base, next)'
  BY DEF HookingOK
<1>3. PICK b : b = cur'.base
  OBVIOUS
<1>4. PICK n : n = next'
  OBVIOUS
<1>5. SUFFICES elf' = cur'.path /\ HookedUpTo(b, n)'
  BY <1>3, <1>4 DEF HookedUpTo
<1>6. UNCHANGED setup
  BY Steps
<1>7. ASSUME pc \in {"hook"} \cup Replacing, UNCHANGED <<cur, elf, next>>, image'[b] = image[b]
      PROVE  elf' = cur'.path /\ HookedUpTo(b, n)'
  <2>1. Holds(cur.base, cur.path)
    BY <1>2, <1>3, <1>7 DEF Holds, Mapped
  <2>2. elf = cur.path /\ HookedUpTo(b, n)
    BY <1>3, <1>4, <1>7, <2>1 DEF HookingOK, HookedUpTo
  <2>3. QED
    BY <1>6, <1>7, <2>2, HookedUpToSame
<1>8. ASSUME NEW a \in Bases, NEW q \in Paths, Load(a, q)
      PROVE  elf' = cur'.path /\ HookedUpTo(b, n)'
  <2>1. /\ \A c \in Bases \ {a} : image'[c] = image[c]
        /\ image'[a].path = q
        /\ UNCHANGED <<pc, cur, elf, next>>
        /\ a \notin {tree[q], refreshed[q]}
    BY <1>1, <1>8, LoadFacts
  <2>2. cur.base \in Bases /\ refreshed[cur.path] = cur.base
    BY <1>1, <1>2, <2>1 DEF WalkOK, Hooking, TypeOK, Replacing
  <2>3. b # a
    BY <1>2, <1>3, <2>1, <2>2 DEF Holds
  <2>4. QED
    BY <1>2, <1>3, <1>7, <2>1, <2>2, <2>3
<1>9. ASSUME NEW a \in Bases, Unload(a)
      PROVE  elf' = cur'.path /\ HookedUpTo(b, n)'
  <2>1. /\ \A c \in Bases \ {a} : image'[c] = image[c]
        /\ image'[a] = None
        /\ UNCHANGED <<pc, cur, elf, next>>
    BY <1>1, <1>9, UnloadFacts
  <2>2. cur.base \in Bases
    BY <1>1, <1>2, <2>1 DEF TypeOK, Replacing
  <2>3. b # a
    BY <1>2, <1>3, <2>1, <2>2 DEF Holds, Mapped
  <2>4. QED
    BY <1>2, <1>3, <1>7, <2>1, <2>2, <2>3
<1>10. CASE UNCHANGED vars
  BY <1>2, <1>7, <1>10 DEF vars
<1>11. CASE ElfInit
  <2>1. /\ elf' = image[cur.base].path /\ next' = 1
        /\ UNCHANGED <<image, cur>>
    BY <1>11 DEF ElfInit, memory
  <2>2. elf' = cur'.path
    BY <1>2, <2>1 DEF Holds
  <2>3. \A p, s : \A k \in Wanted(p, s)' : k \in Nat \ {0}
    BY <1>1, <1>6, SetupType DEF Wanted, Matching, hooks
  <2>4. \A p, s : {k \in Wanted(p, s)' : k < 1} = {}
    BY <2>3
  <2>5. HookedUpTo(b, 1)'
    BY <2>4 DEF HookedUpTo
  <2>6. QED
    BY <1>4, <2>1, <2>2, <2>5
<1>12. CASE HookFinds \/ HookQueries \/ HookSaves
  <2>1. pc \in {"hook"} \cup Replacing /\ UNCHANGED <<image, cur, elf, next>>
    BY <1>12 DEF HookFinds, HookQueries, HookSaves, Hooks, memory, walk, Replacing
  <2>2. QED
    BY <1>7, <2>1
<1>13. CASE HookSkips \/ HookStores \/ HookLeaves
  <2>1. /\ pc \in {"hook"} \cup Replacing /\ UNCHANGED <<cur, elf>>
        /\ next' = next + 1 /\ next \in DOMAIN hooks
        /\ b = cur.base /\ b \in Bases
    BY <1>1, <1>3, <1>13 DEF HookSkips, HookStores, HookLeaves, Hooks, Matching,
       TypeOK, Replacing
  <2>2. Holds(b, cur.path)
    <3>1. CASE UNCHANGED image
      BY <1>2, <2>1, <3>1 DEF Holds, Mapped
    <3>2. CASE HookStores
      BY <1>2, <2>1, <3>2, SamePaths
    <3>3. QED
      BY <1>13, <3>1, <3>2 DEF HookSkips, HookLeaves, memory
  <2>3. elf = cur.path
    BY <2>1, <2>2 DEF HookingOK
  <2>4. PICK m : m = next
    OBVIOUS
  <2>5. m \in DOMAIN hooks /\ n = m + 1 /\ HookedUpTo(b, m)
    BY <1>4, <2>1, <2>2, <2>4 DEF HookingOK, HookedUpTo
  <2>6. cur.path = image[b].path /\ Mapped(b)
    BY <2>2 DEF Holds
  <2>7. CASE HookSkips
    <3>1. UNCHANGED image
      BY <2>7 DEF HookSkips, memory
    <3>2. HookedUpTo(b, next)
      BY <2>4, <2>5
    <3>3. HookedUpTo(b, next + 1)
      BY <1>1, <2>1, <2>6, <2>7, <3>2, SkipNext
    <3>4. HookedUpTo(b, n)
      BY <2>4, <2>5, <3>3
    <3>5. HookedUpTo(b, n)'
      BY <1>6, <3>1, <3>4, HookedUpToSame
    <3>6. QED
      BY <2>1, <2>3, <3>5
  <2>8. CASE HookStores \/ HookLeaves
    <3> DEFINE s == hooks[m].symbol
               new == hooks[m].new
               p == image[b].path
    <3>1. m \in Wanted(p, s) /\ \A t : m \in Wanted(p, t) => t = s
      <4>1. m \in Matching(p) /\ Verdict(hooks[m], p) = "hook"
        BY <2>4, <2>6, <2>8
           DEF HookStores, HookLeaves, Hooks, IInv, AtWork, Replacing
      <4>2. m \in Wanted(p, s)
        BY <2>5, <4>1, VerdictHook DEF Matching
      <4>3. QED
        BY <4>2 DEF Wanted
    <3>2. image[b].slots \in [Lib[p].imports -> Funcs \cup {"orig"}]
      BY <1>1, <2>1, <2>6, ImageFacts
    <3>3. /\ image'[b].path = p
          /\ \A t \in Lib[p].imports :
               image'[b].slots[t] = IF m \in Wanted(p, t)
                                    THEN new ELSE image[b].slots[t]
      <4>1. CASE HookStores
        <5>1. Holds(cur.base, elf)
          BY <2>1, <2>2, <2>3
        <5>2. PICK w \in DOMAIN image[cur.base].slots : Writes(w)
          BY <4>1, <5>1, StoreFacts
        <5>3. /\ s \in Lib[p].imports
              /\ image'[b] = [path |-> p, slots |-> [image[b].slots EXCEPT ![s] = new]]
          BY <2>1, <2>4, <3>2, <5>1, <5>2 DEF Writes
        <5>4. \A t \in Lib[p].imports :
                image'[b].slots[t] = IF t = s THEN new ELSE image[b].slots[t]
          BY <3>2, <5>3
        <5>5. QED
          BY <3>1, <5>3, <5>4
      <4>2. CASE HookLeaves
        <5>1. p \in Paths /\ p \in Lib[p].contains
          BY <1>1, <2>1, <2>6, ImageFacts, XhRefreshAssumption
        <5>2. HasProtection /\ Mapped(cur.base)
          BY <2>1, <2>6, <5>1 DEF HasProtection
        <5>3. UNCHANGED image /\ ~Replaceable(s, new)
          BY <2>4, <4>2, <5>2 DEF HookLeaves, memory
        <5>4. s \notin Lib[p].imports \/ image[b].slots[s] = new
          BY <2>1, <2>2, <2>3, <2>6, <5>3 DEF Replaceable, FindsSymbol, Holds
        <5>5. QED
          BY <3>1, <5>3, <5>4
      <4>3. QED
        BY <2>8, <4>1, <4>2
    <3>4. HookedUpTo(b, m + 1)'
      BY <1>1, <1>6, <2>1, <2>5, <3>3, TakeNext
    <3>5. QED
      BY <2>1, <2>3, <2>5, <3>4
  <2>9. QED
    BY <1>13, <2>7, <2>8
<1>14. CASE \/ StartRefresh \/ Clear \/ ReadLine \/ HeaderFails \/ HeaderOk
            \/ ElfInitFails \/ HookEnds \/ HookFaults \/ EndRefresh
  BY <1>2, <1>14 DEF ReadLine, HeaderFails, HeaderOk, ElfInitFails, HookEnds,
     HookFaults, EndRefresh, StartRefresh, Clear, Replacing
<1>15. QED
  BY <1>8, <1>9, <1>10, <1>11, <1>12, <1>13, <1>14 DEF Next, Linker, RefreshStep

\* A library that comes to a place does not do so with an entry for it, and
\* those that stay keep theirs.
LEMMA ForeignSame ==
  ASSUME MayReload = FALSE, TypeOK, NEW p, NEW base \in Bases, Foreign(p, base),
         UNCHANGED <<tree, refreshed>>,
         \/ \E b \in Bases, q \in Paths : Load(b, q)
         \/ \E b \in Bases : Unload(b)
         \/ /\ Mapped(base)' <=> Mapped(base)
            /\ Mapped(base) => image'[base].path = image[base].path
  PROVE  Foreign(p, base)'
<1>1. ASSUME NEW a \in Bases, NEW q \in Paths, Load(a, q)
      PROVE  Foreign(p, base)'
  <2>1. /\ \A c \in Bases \ {a} : image'[c] = image[c]
        /\ image'[a].path = q
        /\ a \notin {tree[q], refreshed[q]}
    BY <1>1, LoadFacts
  <2>2. CASE base = a
    BY <2>1, <2>2 DEF Foreign
  <2>3. CASE base # a
    BY <2>1, <2>3 DEF Foreign, Mapped
  <2>4. QED
    BY <2>2, <2>3
<1>2. ASSUME NEW a \in Bases, Unload(a)
      PROVE  Foreign(p, base)'
  <2>1. /\ \A c \in Bases \ {a} : image'[c] = image[c]
        /\ image'[a] = None
    BY <1>2, UnloadFacts
  <2>2. QED
    BY <2>1 DEF Foreign, Mapped
<1>3. CASE /\ Mapped(base)' <=> Mapped(base)
           /\ Mapped(base) => image'[base].path = image[base].path
  BY <1>3 DEF Foreign
<1>4. QED
  BY <1>1, <1>2, <1>3

\* A line that the walk has got to stays behind it.
LEMMA StaysPassed ==
  ASSUME NEW l \in LineType, pos \in LineType, pos' \in LineType,
         Passed(l), Before(pos, pos')
  PROVE  Before(l, pos')
<1>1. /\ l.base \in Nat /\ pos.base \in Nat /\ pos'.base \in Nat
      /\ l.seg \in Nat /\ pos.seg \in Nat /\ pos'.seg \in Nat
  <2>1. Bases \cup {0} \subseteq Nat
    BY BasesPositive
  <2>2. QED
    BY <2>1 DEF LineType
<1>2. QED
  BY <1>1 DEF Passed, Before

LEMMA StepStranger ==
  ASSUME MayReload = FALSE, IInv, WalkOK, Stranger, [Next]_vars
  PROVE  Stranger'
<1>1. TypeOK
  BY DEF IInv, Shape
<1>2. pc \in Walking /\ prev.seg = 1 => prev.base \in Bases
  BY <1>1 DEF TypeOK, Stranger
<1>3. pc \in Working => cur.base \in Bases /\ cur.path \in Paths
  BY <1>1 DEF TypeOK, Working, Replacing
<1>4. CASE /\ UNCHANGED <<tree, refreshed, pos, prev, cur>>
           /\ pc' \in Walking => pc \in Walking
           /\ pc' \in Working => pc \in Working
           /\ \/ \E b \in Bases, q \in Paths : Load(b, q)
              \/ \E b \in Bases : Unload(b)
              \/ \A b \in Bases :
                   /\ Mapped(b)' <=> Mapped(b)
                   /\ Mapped(b) => image'[b].path = image[b].path
  <2>1. pc' \in Working => Foreign(cur.path, cur.base)'
    <3>1. SUFFICES ASSUME pc' \in Working PROVE Foreign(cur.path, cur.base)'
      OBVIOUS
    <3>2. cur.base \in Bases /\ Foreign(cur.path, cur.base)
      BY <1>3, <1>4, <3>1 DEF Stranger
    <3>3. Foreign(cur.path, cur.base)' <=>
            (Mapped(cur.base)' /\ image'[cur.base].path # cur.path =>
               cur.base \notin {tree'[image'[cur.base].path],
                                refreshed'[image'[cur.base].path]})
      BY <1>4 DEF Foreign, Mapped
    <3>4. QED
      BY <1>1, <1>4, <3>2, <3>3, ForeignSame DEF Foreign, Mapped
  <2>2. pc' \in Walking /\ prev'.seg = 1 => Foreign(prev.path, prev.base)'
    <3>1. SUFFICES ASSUME pc' \in Walking, prev.seg = 1
                   PROVE  Foreign(prev.path, prev.base)'
      BY <1>4
    <3>2. prev.base \in Bases /\ Foreign(prev.path, prev.base)
      BY <1>2, <1>4, <3>1 DEF Stranger
    <3>3. QED
      BY <1>1, <1>4, <3>2, ForeignSame DEF Foreign, Mapped
  <2>3. QED
    BY <1>4, <2>1, <2>2 DEF Stranger, Passed, Before
<1>5. CASE Work /\ (UNCHANGED image \/ HookStores)
  <2>1. \A b \in Bases : /\ Mapped(b)' <=> Mapped(b)
                         /\ Mapped(b) => image'[b].path = image[b].path
    BY <1>5, SamePaths
  <2>2. /\ UNCHANGED <<tree, refreshed, pos, prev, cur>>
        /\ pc' \in Walking => pc \in Walking
        /\ pc' \in Working => pc \in Working
    BY <1>5 DEF Work, Walking, Working, Hooking
  <2>3. QED
    BY <1>4, <2>1, <2>2
<1>6. ASSUME NEW a \in Bases, NEW q \in Paths, Load(a, q)
      PROVE  Stranger'
  BY <1>1, <1>4, <1>6, LoadFacts
<1>7. ASSUME NEW a \in Bases, Unload(a)
      PROVE  Stranger'
  BY <1>1, <1>4, <1>7, UnloadFacts
<1>8. CASE StartRefresh
  BY <1>8, StartFacts DEF Stranger, Working, Replacing, NoPrev
<1>9. CASE EndRefresh \/ Clear
  BY <1>9, EndFacts, ClearFacts DEF Stranger, Walking, Working, Replacing
<1>10. CASE ReadLine
  <2>1. /\ pc = "read" /\ UNCHANGED <<image, tree, refreshed>>
        /\ pos' \in Lines /\ Before(pos, pos')
        /\ pos \in LineType /\ pos' \in LineType
    BY <1>1, <1>10, ReadFacts, LinesType DEF NextLine, WalkOK, LineType
  <2>2. pos'.base \in Bases /\ Mapped(pos'.base)
    BY <2>1 DEF Lines
  <2> DEFINE p == image[pos'.base].path
  <2>3. p \in Paths
    BY <1>1, <2>2, ImageFacts
  <2>4. prev.seg = 1 =>
          /\ prev.path # None /\ Foreign(prev.path, prev.base)
          /\ Before([base |-> prev.base, seg |-> 1], pos')
    <3>1. SUFFICES ASSUME prev.seg = 1
                   PROVE  /\ prev.path # None /\ Foreign(prev.path, prev.base)
                          /\ Before([base |-> prev.base, seg |-> 1], pos')
      OBVIOUS
    <3> DEFINE l == [base |-> prev.base, seg |-> 1]
    <3>2. pc \in Walking
      BY <2>1 DEF Walking
    <3>3. prev.base \in Bases /\ Passed(l)
      BY <1>2, <3>1, <3>2 DEF Stranger
    <3>4. l \in LineType
      BY <3>3 DEF LineType
    <3>5. Before(l, pos')
      <4> HIDE DEF l
      <4>1. QED
        BY <2>1, <3>3, <3>4, StaysPassed
    <3>6. QED
      BY <3>1, <3>2, <3>5 DEF Stranger
  <2>5. CASE UNCHANGED <<prev, cur, pc>>
    BY <2>1, <2>4, <2>5 DEF Stranger, Working, Replacing, Foreign, Mapped, Passed
  <2>6. CASE /\ prev' = [path |-> p, base |-> pos'.base, seg |-> pos'.seg]
             /\ UNCHANGED <<cur, pc>>
    <3>1. pos' = [base |-> pos'.base, seg |-> pos'.seg]
      BY <2>1 DEF LineType
    <3>2. pc' \notin Working
      BY <2>1, <2>6 DEF Working, Replacing
    <3>3. p # None
      BY <2>3, XhRefreshAssumption
    <3>4. QED
      BY <2>1, <2>6, <3>1, <3>2, <3>3 DEF Stranger, Foreign, Mapped, Passed
  <2>7. CASE /\ BaseOf(pos', p) # None
             /\ cur' = [path |-> p, base |-> BaseOf(pos', p)]
             /\ UNCHANGED prev
    <3>1. CASE pos'.seg = 1
      <4>1. cur'.base = pos'.base /\ cur'.path = p
        BY <2>7, <3>1 DEF BaseOf
      <4>2. pos' = [base |-> pos'.base, seg |-> 1]
        BY <2>1, <3>1 DEF LineType
      <4>3. Foreign(cur.path, cur.base)'
        BY <2>1, <4>1 DEF Foreign, Mapped
      <4>4. prev.seg = 1 => prev.base # pos'.base
        BY <2>1, <2>4, <4>2, LinesOrdered
      <4>5. QED
        BY <2>1, <2>4, <2>7, <4>1, <4>3, <4>4 DEF Stranger, Foreign, Mapped, Passed
    <3>2. CASE pos'.seg # 1
      <4>1. prev.path = p /\ prev.seg = 1 /\ cur'.base = prev.base
            /\ cur'.path = p
        BY <2>7, <3>2 DEF BaseOf
      <4>2. QED
        BY <2>1, <2>4, <2>7, <4>1 DEF Stranger, Foreign, Mapped, Passed
    <3>3. QED
      BY <3>1, <3>2
  <2>8. QED
    BY <1>1, <1>10, <2>5, <2>6, <2>7, ReadFacts
<1>11. CASE HeaderOk
  <2>1. /\ pc = "header" /\ pc' \in {"init", "read"}
        /\ UNCHANGED <<image, pos, prev, cur>>
        /\ cur.path \in Paths /\ cur.base \in Bases
    BY <1>1, <1>3, <1>11, HeaderFacts DEF Working
  <2>2. \A q \in Paths \ {cur.path} :
          tree'[q] = tree[q] /\ refreshed'[q] = refreshed[q]
    BY <1>1, <1>11, HeaderFacts DEF TypeOK, Replacing
  <2>3. tree'[cur.path] = None /\ None \notin Bases
        /\ refreshed'[cur.path] \in {refreshed[cur.path], cur.base}
    BY <1>1, <1>11, <2>1, HeaderFacts, XhRefreshAssumption DEF TypeOK
  <2>4. Foreign(cur.path, cur.base)'
    BY <1>1, <2>1, <2>2, ImageFacts DEF Stranger, Working, Foreign, Mapped
  <2>5. SUFFICES ASSUME prev.seg = 1
                 PROVE  Foreign(prev.path, prev.base)'
    BY <2>1, <2>4 DEF Stranger, Walking, Working, Passed
  <2>6. /\ Foreign(prev.path, prev.base) /\ prev.base \in Bases
        /\ cur.base = prev.base => cur.path = prev.path
    BY <1>2, <2>1, <2>5 DEF Stranger, Walking, Working
  <2>7. QED
    BY <1>1, <2>1, <2>2, <2>3, <2>6, ImageFacts DEF Foreign, Mapped
<1>12. QED
  BY <1>5, <1>6, <1>7, <1>8, <1>9, <1>10, <1>11, Steps

(***************************************************************************)
(* A library gets an entry when it is hooked; one that has moved gets it   *)
(* anew.                                                                   *)
(***************************************************************************)
LEMMA EntrySame ==
  ASSUME NEW b \in Bases, EntryDone(b), image'[b] = image[b],
         UNCHANGED <<setup, tree, refreshed, cur>>,
         pc \in Hooking => pc' \in Hooking
  PROVE  EntryDone(b)'
BY DoneSame DEF EntryDone, WorksOn, Mapped

LEMMA StepEntriesDone ==
  ASSUME MayReload = FALSE, IInv, HookingOK, Stranger, EntriesDone, [Next]_vars
  PROVE  EntriesDone'
<1>1. TypeOK /\ UNCHANGED setup
  BY Steps DEF IInv, Shape
<1>2. SUFFICES ASSUME NEW b \in Bases
               PROVE  EntryDone(b)'
  BY DEF EntriesDone
<1>3. EntryDone(b)
  BY DEF EntriesDone
<1>4. ASSUME NEW a \in Bases, NEW q \in Paths, Load(a, q)
      PROVE  EntryDone(b)'
  <2>1. /\ \A c \in Bases \ {a} : image'[c] = image[c]
        /\ image'[a].path = q
        /\ UNCHANGED <<setup, tree, refreshed, pc, cur>>
        /\ a \notin {tree[q], refreshed[q]}
    BY <1>1, <1>4, LoadFacts
  <2>2. CASE a = b
    BY <2>1, <2>2 DEF EntryDone
  <2>3. CASE a # b
    BY <1>3, <2>1, <2>3, EntrySame
  <2>4. QED
    BY <2>2, <2>3
<1>5. ASSUME NEW a \in Bases, Unload(a)
      PROVE  EntryDone(b)'
  <2>1. /\ \A c \in Bases \ {a} : image'[c] = image[c]
        /\ image'[a] = None
        /\ UNCHANGED <<setup, tree, refreshed, pc, cur>>
    BY <1>1, <1>5, UnloadFacts
  <2>2. CASE a = b
    BY <2>1, <2>2 DEF EntryDone, Mapped
  <2>3. CASE a # b
    BY <1>3, <2>1, <2>3, EntrySame
  <2>4. QED
    BY <2>2, <2>3
<1>6. CASE UNCHANGED vars
  BY <1>3, <1>6, EntrySame DEF vars
<1>7. CASE \/ HeaderFails \/ ElfInit \/ HookSkips \/ HookFinds
           \/ HookQueries \/ HookSaves \/ HookLeaves
  <2>1. UNCHANGED <<image, setup, tree, refreshed, cur>>
    BY <1>7 DEF HeaderFails, ElfInit, HookSkips, HookFinds, HookQueries,
       HookSaves, HookLeaves, memory, maps, walk
  <2>2. pc \in Hooking => pc' \in Hooking
    BY <1>7 DEF HeaderFails, ElfInit, HookSkips, HookFinds, HookQueries,
       HookSaves, HookLeaves, Hooks, Hooking, Replacing
  <2>3. QED
    BY <1>3, <2>1, <2>2, EntrySame
<1>8. CASE StartRefresh
  BY <1>1, <1>3, <1>8, StartFacts, DoneSame DEF EntryDone, Hooking, Mapped, Replacing
<1>9. CASE ReadLine
  BY <1>1, <1>3, <1>9, ReadFacts, DoneSame DEF EntryDone, Hooking, Mapped,
     Replacing
<1>10. CASE HeaderOk
  <2> DEFINE p == image[b].path
  <2>1. SUFFICES ASSUME Mapped(b), Supported(p),
                        b \in {tree'[p], refreshed'[p]},
                        ~(pc' = "init" /\ WorksOn(b, p))
                 PROVE  Done(b)'
    BY <1>1, <1>10, HeaderFacts DEF EntryDone, Hooking, Mapped, WorksOn
  <2>2. p \in Paths /\ cur.path \in Paths /\ pc = "header" /\ b # None
    BY <1>1, <1>10, <2>1, ImageFacts, XhRefreshAssumption DEF HeaderOk, TypeOK
  <2>3. b \in {tree[p], refreshed[p]}
    <3>1. CASE p # cur.path
      BY <1>1, <1>10, <2>1, <2>2, <3>1, HeaderFacts DEF TypeOK
    <3>2. CASE p = cur.path
      <4>1. tree'[p] = None
        BY <1>1, <1>10, <2>2, <3>2, HeaderFacts DEF TypeOK
      <4>2. refreshed'[p] = b
        BY <2>1, <2>2, <4>1
      <4>3. CASE refreshed[p] # None
        BY <1>1, <1>10, <3>2, <4>2, <4>3, HeaderFacts
      <4>4. CASE refreshed[p] = None
        <5>1. cur.base = b
          BY <1>1, <1>10, <2>2, <3>2, <4>2, <4>4, HeaderFacts DEF TypeOK
        <5>2. tree[p] = b
          BY <1>1, <1>10, <2>1, <3>2, <4>4, <5>1, HeaderFacts DEF WorksOn
        <5>3. QED
          BY <5>2
      <4>5. QED
        BY <4>3, <4>4
    <3>3. QED
      BY <3>1, <3>2
  <2>4. Done(b)
    BY <1>3, <2>1, <2>2, <2>3 DEF EntryDone, Hooking, Replacing
  <2>5. UNCHANGED image
    BY <1>1, <1>10, HeaderFacts
  <2>6. QED
    BY <1>1, <2>4, <2>5, DoneSame
<1>11. CASE ElfInitFails \/ HookEnds \/ HookFaults
  <2>1. UNCHANGED <<image, setup, tree, refreshed, cur>>
    BY <1>11 DEF ElfInitFails, HookEnds, HookFaults, Hooks, memory, maps, walk
  <2>2. SUFFICES ASSUME Mapped(b), Supported(image[b].path),
                        pc \in Hooking, WorksOn(b, image[b].path)
                 PROVE  Done(b)
    BY <1>3, <2>1, DoneSame DEF EntryDone, Mapped
  <2>3. Holds(cur.base, cur.path) /\ cur.path = image[b].path /\ cur.base = b
    BY <2>2 DEF Holds, WorksOn
  <2>4. CASE ElfInitFails
    BY <2>2, <2>3, <2>4 DEF ElfInitFails, HasTables, Supported
  <2>5. CASE HookFaults
    BY <2>3, <2>5 DEF HookFaults, Hooks, HookingOK, Replacing
  <2>6. CASE HookEnds
    <3>1. HookedUpTo(b, next)
      BY <2>3, <2>6 DEF HookEnds, HookingOK, HookedUpTo
    <3>2. CASE next > Len(hooks)
      <4>1. next \in 1 .. Len(hooks) + 1 /\ Len(hooks) \in Nat
        BY <1>1, <2>6, SetupType DEF HookEnds, TypeOK
      <4>2. next = Len(hooks) + 1
        BY <3>2, <4>1
      <4>3. QED
        BY <3>1, <4>2 DEF Done
    <3>3. CASE /\ next \in Matching(cur.path)
               /\ Verdict(hooks[next], cur.path) = "stop"
      <4>1. \A s : Wanted(image[b].path, s) = {}
        BY <1>1, <2>3, <3>3, VerdictStop DEF Matching
      <4>2. QED
        BY <4>1, DoneIfUnwanted DEF Done
    <3>4. QED
      BY <2>6, <3>2, <3>3 DEF HookEnds
  <2>7. QED
    BY <1>11, <2>4, <2>5, <2>6
<1>12. CASE HookStores
  <2>1. /\ UNCHANGED <<setup, tree, refreshed, cur>>
        /\ pc = "store" /\ pc' = "hook"
    BY <1>12 DEF HookStores, maps
  <2>2. /\ Mapped(b)' <=> Mapped(b)
        /\ Mapped(b) => image'[b].path = image[b].path
    BY <1>12, SamePaths
  <2>3. CASE b = cur.base /\ Mapped(b)
    <3>1. CASE image[b].path = cur.path
      BY <2>1, <2>2, <2>3, <3>1 DEF EntryDone, Hooking, WorksOn
    <3>2. CASE image[b].path # cur.path
      BY <2>1, <2>2, <2>3, <3>2 DEF EntryDone, Stranger, Foreign, Working,
         Replacing
    <3>3. QED
      BY <3>1, <3>2
  <2>4. CASE b # cur.base
    <3>1. image'[b] = image[b]
      BY <1>1, <1>12, <2>4, StoreFacts DEF Writes, TypeOK
    <3>2. QED
      BY <1>3, <2>1, <2>4, <3>1, EntrySame DEF Hooking
  <2>5. QED
    BY <2>2, <2>3, <2>4 DEF EntryDone
<1>13. CASE EndRefresh \/ Clear
  <2>1. /\ UNCHANGED <<image, setup>> /\ pc \in {"read", "idle"}
        /\ \/ tree' = refreshed /\ refreshed' = [p \in Paths |-> None]
           \/ tree' = [p \in Paths |-> None] /\ refreshed' = refreshed
    BY <1>13, EndFacts, ClearFacts
  <2>2. SUFFICES ASSUME Mapped(b), Supported(image[b].path),
                        b \in {tree'[image[b].path], refreshed'[image[b].path]}
                 PROVE  Done(b)
    BY <2>1, DoneSame DEF EntryDone, Mapped
  <2>3. image[b].path \in Paths /\ b # None
    BY <1>1, <2>2, ImageFacts, XhRefreshAssumption
  <2>4. b \in {tree[image[b].path], refreshed[image[b].path]}
    BY <2>1, <2>2, <2>3
  <2>5. QED
    BY <1>3, <2>1, <2>2, <2>4 DEF EntryDone, Hooking, Replacing
<1>14. QED
  BY <1>4, <1>5, <1>6, <1>7, <1>8, <1>9, <1>10, <1>11, <1>12, <1>13
     DEF Next, Linker, RefreshStep

(***************************************************************************)
(* The walk comes by the executable line of each library that stays.       *)
(***************************************************************************)
LEMMA ExecLineFacts ==
  ASSUME TypeOK, NEW b \in Bases, Mapped(b), Supported(image[b].path)
  PROVE  /\ ExecLine(b) \in Lines
         /\ Lib[image[b].path].segments[ExecLine(b).seg] = "rx"
         /\ ExecLine(b).base = b
         /\ \/ ExecLine(b).seg = 1
            \/ /\ ExecLine(b).seg = 2
               /\ Lib[image[b].path].segments[1] = "r"
               /\ [base |-> b, seg |-> 1] \in Lines
<1>1. Lib[image[b].path].segments \in Seq(Perms)
  BY ImageFacts, XhRefreshAssumption
<1>2. 1 \in DOMAIN Lib[image[b].path].segments
  BY <1>1 DEF Supported
<1>3. [base |-> b, seg |-> 1] \in Lines
  BY <1>2 DEF Lines
<1>4. CASE Lib[image[b].path].segments[1] = "rx"
  BY <1>3, <1>4 DEF ExecLine
<1>5. CASE Lib[image[b].path].segments[1] # "rx"
  <2>1. /\ Len(Lib[image[b].path].segments) >= 2
        /\ Lib[image[b].path].segments[1] = "r"
        /\ Lib[image[b].path].segments[2] = "rx"
    BY <1>5 DEF Supported
  <2>2. [base |-> b, seg |-> 2] \in Lines
    BY <1>1, <2>1 DEF Lines
  <2>3. QED
    BY <1>3, <1>5, <2>1, <2>2 DEF ExecLine
<1>6. QED
  BY <1>4, <1>5

\* The line that is read is the executable one as soon as that is passed.
LEMMA ComesBy ==
  ASSUME TypeOK, WalkOK, ReadLine, NEW b \in Bases, Mapped(b),
         Supported(image[b].path), ~Passed(ExecLine(b)), Passed(ExecLine(b))'
  PROVE  /\ pos' = ExecLine(b)
         /\ ExecLine(b).seg = 2 => pos = [base |-> b, seg |-> 1]
<1> DEFINE e == ExecLine(b)
           l == pos'
<1>1. e \in Lines /\ e \in LineType
  BY ExecLineFacts, LinesType
<1>2. l \in Lines /\ l \in LineType /\ NextLine(l) /\ UNCHANGED image
  BY ReadFacts, LinesType
<1>3. pos \in LineType
  BY DEF WalkOK, LineType
<1>4. e' = e
  BY <1>2 DEF ExecLine
<1>5. e = l \/ Before(e, l)
  BY <1>4 DEF Passed
<1>6. e # pos /\ ~Before(e, pos)
  BY DEF Passed
<1>7. Before(pos, e)
  BY <1>1, <1>3, <1>6, LinesOrdered
<1>8. e = l \/ Before(l, e)
  BY <1>1, <1>2, <1>7 DEF NextLine
<1>9. e = l
  BY <1>1, <1>2, <1>5, <1>8, LinesOrdered
<1>10. ASSUME e.seg = 2
       PROVE  pos = [base |-> b, seg |-> 1]
  <2> DEFINE f == [base |-> b, seg |-> 1]
  <2>1. f \in Lines /\ f \in LineType /\ e.base = b
    BY <1>10, ExecLineFacts, LinesType
  <2>2. ~Before(pos, f)
    <3>1. SUFFICES ASSUME Before(pos, f) PROVE FALSE
      OBVIOUS
    <3>2. f = l \/ Before(l, f)
      BY <1>2, <2>1, <3>1 DEF NextLine
    <3>3. b \in Nat
      BY BasesPositive
    <3>4. ~(f = e \/ Before(e, f))
      BY <1>10, <2>1, <3>3 DEF Before
    <3>5. QED
      BY <1>9, <3>2, <3>4
  <2>3. pos = f \/ Before(f, pos)
    BY <1>3, <2>1, <2>2, LinesOrdered
  <2>4. ~Before(f, pos)
    <3>1. b \in Nat /\ pos.base \in Nat /\ pos.seg \in Nat
      <4>1. pos.base \in Bases \cup {0} /\ pos.seg \in Nat
        BY <1>3 DEF LineType
      <4>2. Bases \cup {0} \subseteq Nat
        BY BasesPositive
      <4>3. QED
        BY <4>1, <4>2, BasesPositive
    <3>2. QED
      BY <1>7, <1>10, <2>1, <3>1 DEF Before
  <2>5. QED
    BY <2>3, <2>4
<1>11. QED
  BY <1>9, <1>10

LEMMA MatchSame ==
  ASSUME UNCHANGED setup
  PROVE  \A p : Match(p)' <=> Match(p)
BY DEF Match, Matching, Verdict, Relevant, hooks, ignores

LEMMA StepStableSeen ==
  ASSUME IInv, WalkOK, StableOK, StableSeen, [Next]_vars
  PROVE  StableSeen'
<1>1. TypeOK /\ UNCHANGED setup /\ stable \subseteq Bases
  BY Steps DEF IInv, Shape, TypeOK
<1>2. \A p : Match(p)' <=> Match(p)
  BY <1>1, MatchSame
<1>3. ASSUME NEW b \in stable, image'[b].path = image[b].path,
             UNCHANGED <<tree, refreshed, pos, cur>>,
             pc' = "idle" => pc = "idle",
             pc' \in Walking => pc \in Walking,
             pc = "header" => pc' = "header" \/ ~WorksOn(b, image[b].path)
                              \/ ~Supported(image[b].path)
      PROVE  Seen(b)'
  <2>1. Seen(b)
    BY <1>3 DEF StableSeen
  <2>2. ExecLine(b)' = ExecLine(b)
    BY <1>3 DEF ExecLine
  <2>3. QED
    BY <1>2, <1>3, <2>1, <2>2 DEF Seen, Passed, WorksOn
<1>4. ASSUME NEW a \in Bases, NEW q \in Paths, Load(a, q)
      PROVE  StableSeen'
  <2>1. /\ \A c \in Bases \ {a} : image'[c] = image[c]
        /\ ~Mapped(a)
        /\ UNCHANGED <<tree, refreshed, pc, pos, cur>>
    BY <1>1, <1>4, LoadFacts
  <2>2. \A b \in stable' : b \in stable
    BY <1>4 DEF Load
  <2>3. \A b \in stable' : b # a /\ b \in Bases
    BY <1>1, <2>1, <2>2 DEF StableOK, Unconfused
  <2>4. QED
    BY <1>3, <2>1, <2>2, <2>3 DEF StableSeen
<1>5. ASSUME NEW a \in Bases, Unload(a)
      PROVE  StableSeen'
  <2>1. /\ \A c \in Bases \ {a} : image'[c] = image[c]
        /\ UNCHANGED <<tree, refreshed, pc, pos, cur>>
        /\ stable' = stable \ {a}
    BY <1>1, <1>5, UnloadFacts
  <2>2. QED
    BY <1>1, <1>3, <2>1 DEF StableSeen
<1>6. CASE /\ Work /\ (UNCHANGED image \/ HookStores)
          /\ ~HeaderFails /\ ~HeaderOk
  <2>1. SUFFICES ASSUME NEW b \in stable PROVE Seen(b)'
    BY <1>6 DEF Work, StableSeen
  <2>2. image'[b].path = image[b].path
    BY <1>1, <1>6, <2>1, SamePaths DEF StableOK, Unconfused
  <2>3. UNCHANGED <<tree, refreshed, pos, cur>>
        /\ (pc' = "idle" => pc = "idle") /\ (pc' \in Walking => pc \in Walking)
    BY <1>6 DEF Work, Walking, Working, Hooking, Replacing
  <2>4. pc = "header" => pc' = "header"
    <3>1. CASE UNCHANGED vars
      BY <3>1 DEF vars
    <3>2. CASE Next
      <4>1. CASE Linker
        BY <4>1 DEF Linker, Load, Unload
      <4>2. CASE StartRefresh \/ Clear
        BY <4>2 DEF StartRefresh, Clear
      <4>3. CASE RefreshStep
        BY <1>6, <4>3 DEF RefreshStep, ReadLine, ElfInitFails, ElfInit,
           HookEnds, HookSkips, HookFaults, HookFinds, HookQueries,
           HookSaves, HookStores, HookLeaves,
           EndRefresh, Hooks
      <4>4. QED
        BY <3>2, <4>1, <4>2, <4>3 DEF Next
    <3>3. QED
      BY <3>1, <3>2
  <2>5. QED
    BY <1>3, <2>1, <2>2, <2>3, <2>4
<1>7. CASE HeaderFails
  <2>1. SUFFICES ASSUME NEW b \in stable PROVE Seen(b)'
    BY <1>7 DEF HeaderFails, StableSeen
  <2>2. /\ UNCHANGED <<image, tree, refreshed, pos, cur>>
        /\ pc = "header" /\ pc' = "read" /\ ~HasHeader(cur.base)
    BY <1>7 DEF HeaderFails, memory, maps, walk
  <2>3. Mapped(b)
    BY <2>1 DEF StableOK, Unconfused
  <2>4. ~WorksOn(b, image[b].path) \/ ~Supported(image[b].path)
    BY <2>2, <2>3 DEF WorksOn, HasHeader, Supported
  <2>5. QED
    BY <1>3, <2>1, <2>2, <2>4 DEF Walking
<1>8. CASE StartRefresh
  <2>1. SUFFICES ASSUME NEW b \in Bases PROVE Seen(b)'
    BY <1>8, StartFacts DEF StableSeen
  <2>2. ~Passed(ExecLine(b))'
    <3>1. ExecLine(b)'.base = b /\ pos' = [base |-> 0, seg |-> 0]
      BY <1>8, StartFacts DEF ExecLine, Start
    <3>2. b > 0 /\ b \in Nat
      BY BasesPositive
    <3>3. QED
      BY <3>1, <3>2 DEF Passed, Before
  <2>3. QED
    BY <1>8, <2>2, StartFacts DEF Seen
<1>9. CASE ReadLine
  <2>1. SUFFICES ASSUME NEW b \in stable, Supported(image[b].path),
                        Match(image[b].path), Passed(ExecLine(b))'
                 PROVE  refreshed[image[b].path] = b
                        \/ (pc' = "header" /\ WorksOn(b, image[b].path)')
    <3>1. UNCHANGED <<image, refreshed, stable>> /\ pc' # "idle"
      BY <1>1, <1>9, ReadFacts
    <3>2. QED
      BY <1>2, <2>1, <3>1 DEF StableSeen, Seen, WorksOn
  <2> DEFINE p == image[b].path
             e == ExecLine(b)
  <2>2. Unconfused(b) /\ Seen(b) /\ b \in Bases /\ Mapped(b) /\ pc = "read"
    BY <1>1, <1>9, <2>1, ReadFacts DEF StableOK, StableSeen, Unconfused
  <2>3. CASE Passed(e)
    BY <2>1, <2>2, <2>3 DEF Seen, Walking
  <2>4. CASE ~Passed(e)
    <3>1. pos' = e /\ (e.seg = 2 => pos = [base |-> b, seg |-> 1])
      BY <1>1, <1>9, <2>1, <2>2, <2>4, ComesBy
    <3>2. /\ Lib[p].segments[e.seg] = "rx" /\ e.base = b
          /\ e.seg = 1 \/ (e.seg = 2 /\ Lib[p].segments[1] = "r")
      BY <1>1, <2>1, <2>2, ExecLineFacts
    <3>3. BaseOf(e, p) = b
      <4>1. CASE e.seg = 1
        BY <3>2, <4>1 DEF BaseOf
      <4>2. CASE e.seg = 2
        <5>1. prev = [path |-> p, base |-> b, seg |-> 1]
          BY <2>1, <2>2, <3>1, <3>2, <4>2 DEF Unconfused, Walking
        <5>2. QED
          BY <4>2, <5>1 DEF BaseOf
      <4>3. QED
        BY <3>2, <4>1, <4>2
    <3>4. b # None
      BY <2>2, XhRefreshAssumption
    <3>5. cur' = [path |-> p, base |-> b] /\ pc' = "header"
      BY <1>1, <1>9, <2>1, <3>1, <3>2, <3>3, <3>4, ReadFacts
    <3>6. UNCHANGED image
      BY <1>1, <1>9, ReadFacts
    <3>7. QED
      BY <3>5, <3>6 DEF WorksOn
  <2>5. QED
    BY <2>3, <2>4
<1>10. CASE HeaderOk
  <2>1. SUFFICES ASSUME NEW b \in stable, Supported(image[b].path),
                        Match(image[b].path), Passed(ExecLine(b))
                 PROVE  refreshed'[image[b].path] = b
    <3>1. UNCHANGED <<image, pos, stable>> /\ pc' # "idle"
      BY <1>1, <1>10, HeaderFacts
    <3>2. \A b : ExecLine(b)' = ExecLine(b)
      BY <3>1 DEF ExecLine
    <3>3. QED
      BY <1>2, <2>1, <3>1, <3>2 DEF StableSeen, Seen, Passed
  <2>2. Unconfused(b) /\ Seen(b) /\ b \in Bases /\ Mapped(b) /\ pc = "header"
    BY <1>1, <1>10, <2>1, HeaderFacts DEF StableOK, StableSeen, Unconfused
  <2>3. refreshed[image[b].path] \in {None, b} /\ b # None
        /\ image[b].path \in Paths
    BY <1>1, <2>2, ImageFacts, XhRefreshAssumption DEF Unconfused, Walking
  <2>4. refreshed[image[b].path] = b \/ WorksOn(b, image[b].path)
    BY <2>1, <2>2 DEF Seen, Walking
  <2>5. CASE refreshed[image[b].path] = b
    BY <1>1, <1>10, <2>3, <2>5, HeaderFacts DEF TypeOK
  <2>6. CASE refreshed[image[b].path] = None /\ WorksOn(b, image[b].path)
    BY <1>1, <1>10, <2>3, <2>6, HeaderFacts DEF TypeOK, WorksOn
  <2>7. QED
    BY <2>3, <2>4, <2>5, <2>6
<1>11. CASE EndRefresh
  <2>1. SUFFICES ASSUME NEW b \in stable, Supported(image[b].path),
                        Match(image[b].path)
                 PROVE  refreshed[image[b].path] = b
    BY <1>2, <1>11, EndFacts DEF StableSeen, Seen, Walking, Replacing
  <2>2. Seen(b) /\ b \in Bases /\ Mapped(b) /\ pc = "read"
    BY <1>1, <1>11, <2>1, EndFacts DEF StableOK, StableSeen, Unconfused
  <2>3. ExecLine(b) \in Lines /\ ExecLine(b) \in LineType
    BY <1>1, <2>1, <2>2, ExecLineFacts, LinesType
  <2>4. pos \in LineType /\ ~Before(pos, ExecLine(b))
    BY <1>11, <2>3, EndFacts DEF WalkOK, LineType
  <2>5. Passed(ExecLine(b))
    BY <2>3, <2>4, LinesOrdered DEF Passed
  <2>6. QED
    BY <2>1, <2>2, <2>5 DEF Seen, Walking
<1>12. CASE Clear
  BY <1>12, ClearFacts DEF StableSeen
<1>13. QED
  BY <1>4, <1>5, <1>6, <1>7, <1>8, <1>9, <1>10, <1>11, <1>12, Steps

LEMMA HookedMeans ==
  ASSUME TypeOK, StableOK, EntriesDone, StableSeen, FirstDecides
  PROVE  Hooked
<1>1. SUFFICES ASSUME pc = "idle", NEW b \in stable, Supported(image[b].path),
                      NEW s \in Lib[image[b].path].imports,
                      Wanted(image[b].path, s) # {}
               PROVE  LET W == Wanted(image[b].path, s) IN
                      image[b].slots[s]
                        = hooks[CHOOSE k \in W : \A j \in W : j <= k].new
  BY DEF Hooked
<1>2. b \in Bases /\ Mapped(b) /\ Seen(b) /\ EntryDone(b)
  BY <1>1 DEF TypeOK, StableOK, Unconfused, EntriesDone, StableSeen
<1>3. image[b].path \in Paths /\ s \in Symbols
  BY <1>1, <1>2, ImageFacts DEF Symbols
<1>4. Match(image[b].path)
  BY <1>1, <1>3 DEF FirstDecides
<1>5. tree[image[b].path] = b
  BY <1>1, <1>2, <1>4 DEF Seen
<1>6. Done(b)
  BY <1>1, <1>2, <1>5 DEF EntryDone, Hooking, Replacing
<1>7. QED
  BY <1>1, <1>2, <1>6, DoneMeans

(***************************************************************************)
(* After each refresh a supported library that was mapped all the time has *)
(* the function of the last hook info for each of its symbols              *)
(* (xh_core.c:255-278, 427), for any libraries, layouts of their segments  *)
(* and registrations, provided that the first hook info for a library is   *)
(* to be applied to it (FirstDecides; the run "ignored" shows what the two *)
(* gotos of xh_core.c:337-352 do otherwise) and that no library comes back *)
(* to the place where xhook has an entry for it.                           *)
(***************************************************************************)
THEOREM StableHooked ==
  ASSUME MayReload = FALSE
  PROVE  Spec => [](FirstDecides => Hooked)
<1>1. Init => IInv /\ HookedInv
  <2>1. SUFFICES ASSUME Init PROVE HookedInv
    BY InitInv
  <2>2. WalkOK /\ HookingOK
    BY <2>1 DEF Init, WalkOK, HookingOK, Hooking, Replacing, Start
  <2>3. StableOK /\ StableSeen
    BY <2>1 DEF Init, StableOK, StableSeen
  <2>4. EntriesDone
    BY <2>1 DEF Init, EntriesDone, EntryDone, Mapped
  <2>5. Stranger
    BY <2>1 DEF Init, Stranger, Walking, Working, Replacing
  <2>6. QED
    BY <2>2, <2>3, <2>4, <2>5 DEF HookedInv
<1>2. IInv /\ HookedInv /\ [Next]_vars => (IInv /\ HookedInv)'
  BY StepInv, StepWalkOK, StepStableOK, StepHookingOK, StepStranger,
     StepEntriesDone, StepStableSeen DEF HookedInv
<1>3. IInv /\ HookedInv => (FirstDecides => Hooked)
  BY HookedMeans DEF IInv, Shape, HookedInv
<1>4. QED
  BY <1>1, <1>2, <1>3, PTL DEF Spec
=============================================================================
