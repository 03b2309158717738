------------------------------ MODULE XhRefresh ------------------------------
(***************************************************************************)
(* One refresh at a time (XhCore's InUseAlone) walks over /proc/self/maps, *)
(* chooses libraries by the registered hook and ignore infos and replaces  *)
(* function pointers in them, while other threads load and unload          *)
(* libraries: xh_core_refresh_impl and xh_core_hook_impl with xh_elf_init, *)
(* xh_elf_hook and xh_elf_replace_function.  The SIGSEGV protection is on. *)
(* Memory is a few places where a library can be mapped; a library has one *)
(* function pointer for a symbol it imports.  What mprotect does to the    *)
(* pages of pointers is in module XhElf.                                   *)
(***************************************************************************)
EXTENDS Integers, Sequences, FiniteSets

CONSTANTS
  Bases,         \* addresses where a library can be mapped, in their order
  Paths,         \* path names of libraries
  Lib,           \* for each path: segments, header, dynamic, imports and the
                 \* paths that it contains
  Setups,        \* what the program may register: hooks and ignores
  MaxLoads,      \* bound: how many libraries are loaded
  MaxRefreshes,  \* bound: how many refreshes are started
  MaxClears,     \* bound: how many times xh_core_clear is called
  MayReload,     \* whether a library comes back where xhook has seen it
  None           \* nothing mapped, no entry, no symbol

Symbols == UNION {Lib[p].imports : p \in Paths}
Funcs == UNION {{s.hooks[k].new : k \in DOMAIN s.hooks} : s \in Setups}

\* Permissions of a mapping; of the mappings of a library the first one, and
\* only that, has offset 0.
Perms == {"r", "rw", "rx", "none", "shared"}

HookInfo == [paths : SUBSET Paths, symbol : Symbols, new : Funcs]
IgnoreInfo == [paths : SUBSET Paths, symbol : Symbols \cup {None}]

\* A mapped library and its function pointers.
Images == UNION {[path : {p}, slots : [Lib[p].imports -> Funcs \cup {"orig"}]]
                 : p \in Paths}

ASSUME XhRefreshAssumption ==
  /\ Bases \subseteq Nat \ {0}
  /\ {MaxLoads, MaxRefreshes, MaxClears} \subseteq Nat
  /\ MayReload \in BOOLEAN
  /\ \A p \in Paths : /\ Lib[p].segments \in Seq(Perms)
                      /\ {Lib[p].header, Lib[p].dynamic} \subseteq BOOLEAN
                      /\ p \in Lib[p].contains
  /\ \A s \in Setups : /\ s.hooks \in Seq(HookInfo)
                       /\ s.ignores \in Seq(IgnoreInfo)
  /\ None \notin Bases /\ None \notin Paths /\ None \notin Symbols
  /\ None \notin Images
  /\ {"orig", "data"} \cap Funcs = {}
  /\ None \notin Funcs \cup {"orig", "data"}

VARIABLES
  image,      \* what is mapped at each base: a path and its pointers, or None
  setup,      \* the lists of hook and ignore infos
  tree,       \* xh_core_map_info: the base address kept for each path, or None
  refreshed,  \* map_info_refreshed
  old,        \* *old_func of each new function
  pc,         \* where the refresh is
  pos,        \* the last line of /proc/self/maps it has read
  prev,       \* prev_pathname, prev_base_addr and prev_offset
  cur,        \* the library it works on: pathname and base_addr
  elf,        \* the path of the library that xh_elf_init has parsed
  next,       \* the index of the next hook info
  checked,    \* the library whose protection xh_util_get_addr_protect found
  wild,       \* a pointer's address has been used in another library (history)
  stable,     \* bases mapped all the refresh long, no path twice (history)
  loads, refreshes, clears

memory == <<image, loads>>
maps == <<tree, refreshed>>
walk == <<pos, prev, cur, elf, next>>
trace == <<checked, wild>>
vars == <<image, setup, tree, refreshed, old, pc, pos, prev, cur, elf, next,
          checked, wild, stable, loads, refreshes, clears>>

hooks == setup.hooks
ignores == setup.ignores

Start == [base |-> 0, seg |-> 0]
NoLib == [path |-> None, base |-> 0]
NoPrev == [path |-> None, base |-> 0, seg |-> 0]

Init ==
  /\ image = [b \in Bases |-> None]
  /\ setup \in Setups
  /\ tree = [p \in Paths |-> None] /\ refreshed = [p \in Paths |-> None]
  /\ old = [f \in Funcs |-> None]
  /\ pc = "idle"
  /\ pos = Start /\ prev = NoPrev /\ cur = NoLib /\ elf = None /\ next = 1
  /\ checked = None /\ wild = FALSE
  /\ stable = {}
  /\ loads = 0 /\ refreshes = 0 /\ clears = 0

-----------------------------------------------------------------------------
\* The linker, for other threads.

Mapped(b) == image[b] # None
Holds(b, p) == Mapped(b) /\ image[b].path = p

\* dlopen: the pointers are bound to the original functions.
Load(b, p) ==
  /\ loads < MaxLoads
  /\ ~Mapped(b)
  /\ MayReload \/ b \notin {tree[p], refreshed[p]}
  /\ image' = [image EXCEPT ![b] =
       [path |-> p, slots |-> [s \in Lib[p].imports |-> "orig"]]]
  /\ loads' = loads + 1
  /\ stable' = {c \in stable : ~Holds(c, p)}
  /\ UNCHANGED <<setup, maps, old, pc, walk, trace, refreshes, clears>>

\* dlclose.
Unload(b) ==
  /\ Mapped(b)
  /\ image' = [image EXCEPT ![b] = None]
  /\ stable' = stable \ {b}
  /\ UNCHANGED <<setup, maps, old, pc, walk, loads, trace, refreshes,
                 clears>>

-----------------------------------------------------------------------------
\* Whether the i-th ignore info is about a hook of this symbol in p.
Relevant(i, p, symbol) ==
  p \in ignores[i].paths /\ ignores[i].symbol \in {None, symbol}

\* What the search of the ignore infos says of a hook info in p.
Verdict(h, p) ==
  LET R == {i \in DOMAIN ignores : Relevant(i, p, h.symbol)} IN
  IF R = {} THEN "hook"
  ELSE IF ignores[CHOOSE i \in R : \A j \in R : i <= j].symbol = None
       THEN "stop" ELSE "skip"

Matching(p) == {k \in DOMAIN hooks : p \in hooks[k].paths}

\* "if we need to hook this elf?": both gotos leave the search of the hook
\* infos, so that the first one that matches the path decides.
Match(p) ==
  \E k \in Matching(p) : /\ \A j \in Matching(p) : k <= j
                         /\ Verdict(hooks[k], p) = "hook"

\* The lines of /proc/self/maps, now.
Lines == {l \in [base : Bases, seg : 1 .. 8] :
            Mapped(l.base) /\ l.seg \in DOMAIN Lib[image[l.base].path].segments}

Before(l, m) == l.base < m.base \/ (l.base = m.base /\ l.seg < m.seg)

\* The line that fgets returns.
NextLine(l) ==
  /\ l \in Lines
  /\ Before(pos, l)
  /\ \A m \in Lines : Before(pos, m) => m = l \/ Before(l, m)

StartRefresh ==
  /\ pc = "idle"
  /\ refreshes < MaxRefreshes
  /\ refreshes' = refreshes + 1
  /\ stable' = {b \in Bases : Mapped(b) /\ \A c \in Bases \ {b} :
                                              ~Holds(c, image[b].path)}
  /\ pos' = Start
  /\ prev' = NoPrev
  /\ pc' = "read"
  /\ UNCHANGED <<memory, setup, maps, old, cur, elf, next, trace, clears>>

BaseOf_AnyPrevious(l, p) == IF l.seg = 1 THEN l.base ELSE prev.base

\* The base address for an executable line: its own with offset 0, or that of
\* the line before, if that is the beginning of the same file.
BaseOf(l, p) ==
  IF l.seg = 1 THEN l.base
  ELSE IF prev.path = p /\ prev.seg = 1 THEN prev.base ELSE None

\* A line is read and is shared or not accessible, not executable, not of a
\* library to hook, or leads to the library's header.
ReadLine ==
  /\ pc = "read"
  /\ \E l \in Lines :
       LET p == image[l.base].path
           perm == Lib[p].segments[l.seg]
       IN
       /\ NextLine(l)
       /\ pos' = l
       /\ \/ perm \in {"none", "shared"} /\ UNCHANGED <<prev, cur, pc>>
          \/ /\ perm \in {"r", "rw"}
             /\ prev' = [path |-> p, base |-> l.base, seg |-> l.seg]
             /\ UNCHANGED <<cur, pc>>
          \/ /\ perm = "rx"
             /\ BaseOf(l, p) = None \/ ~Match(p)
             /\ UNCHANGED <<prev, cur, pc>>
          \/ /\ perm = "rx"
             /\ BaseOf(l, p) # None /\ Match(p)
             /\ cur' = [path |-> p, base |-> BaseOf(l, p)]
             /\ pc' = "header"
             /\ UNCHANGED prev
  /\ UNCHANGED <<memory, setup, maps, old, elf, next, trace, stable,
                 refreshes, clears>>

\* xh_elf_check_elfheader returns 0.
HasHeader(b) == Mapped(b) /\ Lib[image[b].path].header

\* xh_elf_init returns 0.
HasTables(b) == Mapped(b) /\ Lib[image[b].path].dynamic

\* xh_core_check_elf_header: SIGSEGV is caught, and other data is no header.
HeaderFails ==
  /\ pc = "header"
  /\ ~HasHeader(cur.base)
  /\ pc' = "read"
  /\ UNCHANGED <<memory, setup, maps, old, walk, trace, stable, refreshes,
                 clears>>

Found_Kept(p) == tree

\* The old map without the entry that RB_REMOVE takes out of it.
Found(p) == [tree EXCEPT ![p] = None]

ToHook_New(p, base) == refreshed[p] = None /\ tree[p] = None

\* A first entry for the path in this refresh that is new or has moved.
ToHook(p, base) == refreshed[p] = None /\ tree[p] # base

\* "check existed map item" to "re-hook if base_addr changed": the entry is
\* found or created, and the first one is inserted.
HeaderOk ==
  /\ pc = "header"
  /\ HasHeader(cur.base)
  /\ tree' = Found(cur.path)
  /\ refreshed' = IF refreshed[cur.path] = None
                  THEN [refreshed EXCEPT ![cur.path] = cur.base] ELSE refreshed
  /\ pc' = IF ToHook(cur.path, cur.base) THEN "init" ELSE "read"
  /\ UNCHANGED <<memory, setup, old, walk, trace, stable, refreshes,
                 clears>>

-----------------------------------------------------------------------------
\* xh_core_hook_impl: xh_elf_init returns an error or faults.
ElfInitFails ==
  /\ pc = "init"
  /\ ~HasTables(cur.base)
  /\ pc' = "read"
  /\ UNCHANGED <<memory, setup, maps, old, walk, trace, stable, refreshes,
                 clears>>

ElfInit ==
  /\ pc = "init"
  /\ HasTables(cur.base)
  /\ elf' = image[cur.base].path
  /\ next' = 1
  /\ pc' = "hook"
  /\ UNCHANGED <<memory, setup, maps, old, pos, prev, cur, trace, stable,
                 refreshes, clears>>

\* No hook info is left, or all symbols of the library are ignored.
HookEnds ==
  /\ pc = "hook"
  /\ \/ next > Len(hooks)
     \/ /\ next \in Matching(cur.path)
        /\ Verdict(hooks[next], cur.path) = "stop"
  /\ pc' = "read"
  /\ UNCHANGED <<memory, setup, maps, old, walk, trace, stable, refreshes,
                 clears>>

\* This hook info is for other libraries, or its symbol is ignored.
HookSkips ==
  /\ pc = "hook"
  /\ next \in DOMAIN hooks
  /\ next \in Matching(cur.path) => Verdict(hooks[next], cur.path) = "skip"
  /\ next' = next + 1
  /\ UNCHANGED <<memory, setup, maps, old, pc, pos, prev, cur, elf, trace,
                 stable, refreshes, clears>>

\* xh_elf_hook is called for this hook info.
Hooks ==
  /\ pc = "hook"
  /\ next \in Matching(cur.path)
  /\ Verdict(hooks[next], cur.path) = "hook"

\* The tables found by xh_elf_init, or the pointer found in them, are not there
\* any more: SIGSEGV ends the work on the library.
HookFaults ==
  /\ Hooks \/ pc \in {"save", "store"}
  /\ ~Holds(cur.base, elf)
  /\ checked' = None
  /\ pc' = "read"
  /\ UNCHANGED <<memory, setup, maps, old, walk, wild, stable, refreshes,
                 clears>>

\* xh_elf_find_symidx_by_name returns 0.
FindsSymbol(s) == Holds(cur.base, elf) /\ s \in Lib[elf].imports

Replaceable_Again(s, new) == FindsSymbol(s)

\* xh_elf_replace_function goes on: the pointer is not "already replaced".
Replaceable(s, new) == FindsSymbol(s) /\ image[cur.base].slots[s] # new

HookFinds ==
  /\ Hooks
  /\ Replaceable(hooks[next].symbol, hooks[next].new)
  /\ pc' = "query"
  /\ UNCHANGED <<memory, setup, maps, old, walk, trace, stable, refreshes,
                 clears>>

HasProtection_AnyPath == Mapped(cur.base)

\* xh_util_get_addr_protect returns 0: the pointer is in a mapping whose line
\* contains the path that xh_elf_init was given.
HasProtection ==
  Mapped(cur.base) /\ cur.path \in Lib[image[cur.base].path].contains

HookQueries ==
  /\ pc = "query"
  /\ HasProtection
  /\ checked' = image[cur.base].path
  /\ pc' = "save"
  /\ UNCHANGED <<memory, setup, maps, old, walk, wild, stable, refreshes,
                 clears>>

\* What is at the address of the pointer for s that was found in elf: in some
\* other library one of its pointers or, for None, something else.
Words(s) == IF Holds(cur.base, elf) THEN {s}
            ELSE DOMAIN image[cur.base].slots \cup {None}

\* The address is used, in that library or in another one.
Use == wild' = (wild \/ ~Holds(cur.base, elf))

\* "save old func".
HookSaves ==
  /\ pc = "save"
  /\ Mapped(cur.base)
  /\ \E w \in Words(hooks[next].symbol) :
       old' = [old EXCEPT ![hooks[next].new] =
                 IF w = None THEN "data" ELSE image[cur.base].slots[w]]
  /\ Use
  /\ pc' = "store"
  /\ UNCHANGED <<memory, setup, maps, walk, checked, stable, refreshes,
                 clears>>

\* "replace func".
HookStores ==
  /\ pc = "store"
  /\ Mapped(cur.base)
  /\ \E w \in Words(hooks[next].symbol) :
       image' = IF w = None THEN image
                ELSE [image EXCEPT ![cur.base].slots[w] = hooks[next].new]
  /\ Use
  /\ next' = next + 1
  /\ checked' = None
  /\ pc' = "hook"
  /\ UNCHANGED <<loads, setup, maps, old, pos, prev, cur, elf, stable,
                 refreshes, clears>>

\* xh_elf_hook changes nothing and xh_core_hook_impl ignores its result: there
\* is no pointer to replace (what is read of another library's tables need not
\* fault), its protection is not found or mprotect fails.
HookLeaves ==
  /\ \/ /\ Hooks
        /\ Mapped(cur.base)
        /\ ~Replaceable(hooks[next].symbol, hooks[next].new)
     \/ pc = "query" /\ ~HasProtection
     \/ pc = "save" /\ ~Mapped(cur.base)
  /\ next' = next + 1
  /\ checked' = None
  /\ pc' = "hook"
  /\ UNCHANGED <<memory, setup, maps, old, pos, prev, cur, elf, wild,
                 stable, refreshes, clears>>

\* The end of the file: entries that were not found again are freed and the
\* new map is saved.
EndRefresh ==
  /\ pc = "read"
  /\ \A l \in Lines : ~Before(pos, l)
  /\ tree' = refreshed
  /\ refreshed' = [p \in Paths |-> None]
  /\ pc' = "idle"
  /\ UNCHANGED <<memory, setup, old, walk, trace, stable, refreshes,
                 clears>>

-----------------------------------------------------------------------------
\* xh_core_clear, after which the program registers the same infos.  Nothing
\* is unhooked.
Clear ==
  /\ pc = "idle"
  /\ clears < MaxClears
  /\ clears' = clears + 1
  /\ tree' = [p \in Paths |-> None]
  /\ stable' = {}
  /\ UNCHANGED <<memory, setup, refreshed, old, pc, walk, trace,
                 refreshes>>

Linker == \E b \in Bases : Unload(b) \/ \E p \in Paths : Load(b, p)

RefreshStep ==
  \/ ReadLine \/ HeaderFails \/ HeaderOk \/ ElfInitFails \/ ElfInit
  \/ HookEnds \/ HookSkips \/ HookFaults \/ HookFinds \/ HookQueries
  \/ HookSaves \/ HookStores \/ HookLeaves \/ EndRefresh

Next == Linker \/ StartRefresh \/ RefreshStep \/ Clear

Spec == Init /\ [][Next]_vars

-----------------------------------------------------------------------------
\* The hook infos that are to be applied to a symbol in p.
Wanted(p, symbol) ==
  {k \in Matching(p) : /\ hooks[k].symbol = symbol
                       /\ \A i \in DOMAIN ignores : ~Relevant(i, p, symbol)}

\* Libraries that xhook can handle: a valid ELF file whose executable segment
\* is its first or follows a readable first one.
Supported(p) ==
  /\ Lib[p].header /\ Lib[p].dynamic
  /\ \/ Len(Lib[p].segments) >= 1 /\ Lib[p].segments[1] = "rx"
     \/ /\ Len(Lib[p].segments) >= 2
        /\ Lib[p].segments[1] = "r" /\ Lib[p].segments[2] = "rx"

\* No two hook infos are about the same symbol.
OneHookPerSymbol ==
  \A j, k \in DOMAIN hooks : hooks[j].symbol = hooks[k].symbol => j = k

\* Inside xh_elf_replace_function.
Replacing == {"query", "save", "store"}

(***************************************************************************)
(* Shape of the state; in particular the base address of a library is      *)
(* never 0 when its header is read (xh_core.c:365-371).                    *)
(***************************************************************************)
TypeOK ==
  /\ image \in [Bases -> Images \cup {None}]
  /\ setup \in Setups
  /\ tree \in [Paths -> Bases \cup {None}]
  /\ refreshed \in [Paths -> Bases \cup {None}]
  /\ old \in [Funcs -> Funcs \cup {"orig", "data", None}]
  /\ pc \in {"idle", "read", "header", "init", "hook"} \cup Replacing
  /\ prev.path # None => prev.base \in Bases
  /\ pc \notin {"idle", "read"} => cur.path \in Paths /\ cur.base \in Bases
  /\ pc = "hook" => elf \in Paths /\ next \in 1 .. Len(hooks) + 1
  /\ pc \in Replacing => elf \in Paths /\ next \in DOMAIN hooks
  /\ wild \in BOOLEAN
  /\ stable \subseteq Bases

(***************************************************************************)
(* An entry is never in the old and in the new map at once: those left in  *)
(* the old one at the end are freed (xh_core.c:463-475) and those in the   *)
(* new one are used by later refreshes (line 478).                         *)
(***************************************************************************)
MapsDisjoint == \A p \in Paths : tree[p] = None \/ refreshed[p] = None

(***************************************************************************)
(* After a refresh every supported library that was mapped all the time,   *)
(* under one path, has for each symbol the function of the last hook info  *)
(* that is to be applied to it ("ignore the current symbol",               *)
(* xh_core.c:269; "re-hook if base_addr changed", line 427), whatever was  *)
(* loaded, unloaded and hooked before and during the refresh.              *)
(***************************************************************************)
Hooked ==
  pc = "idle" =>
    \A b \in stable :
      LET p == image[b].path IN
      Supported(p) =>
        \A s \in Lib[p].imports :
          LET W == Wanted(p, s) IN
          W # {} => image[b].slots[s]
                      = hooks[CHOOSE k \in W : \A j \in W : j <= k].new

(***************************************************************************)
(* A function pointer of a library is changed only to the function of a    *)
(* hook info for that symbol that matches the path of that very library,   *)
(* or one it contains, and is not to be ignored there: the test of         *)
(* xh_core.c:255-278 and the path given to xh_util_get_addr_protect        *)
(* (xh_elf.c:460).  The latter guards against a library that was unloaded  *)
(* and replaced at its base address before; what is mapped there between   *)
(* this query and the store (line 481) is overwritten unchecked, and if    *)
(* the query finds another library than the one whose tables were parsed,  *)
(* the pointer can be for another symbol.                                  *)
(***************************************************************************)
OnlyWantedReplaced ==
  [][\A b \in Bases :
       Mapped(b) /\ Mapped(b)' /\ image'[b] # image[b] /\ Holds(b, checked) =>
         \A s \in DOMAIN image[b].slots :
           image'[b].slots[s] # image[b].slots[s] =>
             \E q \in Lib[checked].contains \cap Paths, k \in DOMAIN hooks :
               /\ k \in Wanted(q, hooks[k].symbol)
               /\ checked = elf => hooks[k].symbol = s
               /\ image'[b].slots[s] = hooks[k].new]_vars

(***************************************************************************)
(* A hooked call comes to the original function: a new function that calls *)
(* *old_func is not called again by the chain that starts there            *)
(* ("already replaced?", xh_elf.c:455-457), however often libraries move   *)
(* and the infos are cleared and registered again, if no two hook infos    *)
(* are about one symbol and no library was replaced by another one while   *)
(* xh_elf_replace_function was at work on it.                              *)
(***************************************************************************)
ReachesOriginal ==
  OneHookPerSymbol /\ ~wild =>
    /\ \A F \in (SUBSET Funcs) \ {{}} : \E f \in F : old[f] \notin F
    /\ \A b \in Bases : Mapped(b) =>
         \A s \in DOMAIN image[b].slots :
           image[b].slots[s] # "orig" => old[image[b].slots[s]] # None
=============================================================================
