-------------------------------- MODULE XhElf --------------------------------
(***************************************************************************)
(* xh_core_hook for one library, relocation by relocation: the library is  *)
(* parsed and, for one hook after another, the pointers its relocation     *)
(* sections give for the symbol are replaced, each after its page has been *)
(* made writable (xh_elf.c, xh_util.c).  Other threads call through the    *)
(* pointers at any time.  The library stays mapped (XhRefresh is about     *)
(* libraries that do not) and /proc/self/maps can be read.                 *)
(***************************************************************************)
EXTENDS XhElfFormat

CONSTANTS
  Libs,          \* the libraries: besides what XhElfFormat reads
                 \*   slots   the words relocations are about, by address,
                 \*   prot    permissions of each page,
                 \*   named   pages whose line of /proc/self/maps has its path
                 \*   relocs  what its relocations are meant to be
                 \*   packed  what its packed section is meant to be
                 \*   valid   that it is whole
  Hooks,         \* what may be hooked: sequences of [symbol, new]
  PageSize,
  PtrSize,       \* words in a pointer
  JUMP_SLOT, GLOB_DAT, ABS,  \* types of relocations
  MprotectMayFail,
  Null           \* *old_func is not set

\* The new functions.
News == UNION {{hs[k].new : k \in DOMAIN hs} : hs \in Hooks}

ASSUME XhElfAssumption ==
  /\ {WordBits, TypeBase, PageSize, PtrSize} \subseteq Nat \ {0}
  /\ MprotectMayFail \in BOOLEAN
  /\ Null \notin News
  /\ NotFound \notin Nat
  /\ \A hs \in Hooks :
       /\ Len(hs) \in Nat /\ DOMAIN hs = 1 .. Len(hs)
       /\ \A i \in DOMAIN hs :
            {SysvHash[hs[i].symbol], GnuHash[hs[i].symbol]} \subseteq Nat
       /\ \A i, j \in DOMAIN hs :
            hs[i].new = hs[j].new => hs[i].symbol = hs[j].symbol
  /\ \A l \in Libs :
       /\ DOMAIN l.slots \subseteq Nat
       /\ \A a \in DOMAIN l.slots : l.slots[a] # Null
       /\ l.prot \in [DOMAIN l.prot -> SUBSET {"r", "w", "x"}]
       /\ l.named \subseteq DOMAIN l.prot

VARIABLES
  lib, hooks,  \* chosen at the start
  slots,       \* the words at the addresses relocations are about
  prot,        \* permissions of each page
  old,         \* *old_func of each new function
  self,        \* xh_elf_t
  h,           \* the hook that is made
  symidx,      \* of its symbol
  section,     \* the relocation section that is read
  iter,        \* its iterator
  addr,        \* the address that is replaced
  oldProt,     \* old_prot
  pc,
  failed,      \* hooks that ended with an error (history)
  unrestored   \* pages whose permissions could not be restored (history)

memory == <<slots, prot>>
input == <<lib, hooks>>
history == <<failed, unrestored>>
place == <<self, h, symidx, section, iter>>
vars == <<lib, hooks, slots, prot, old, self, h, symidx, section, iter, addr,
          oldProt, pc, failed, unrestored>>

Init ==
  /\ lib \in Libs
  /\ hooks \in Hooks
  /\ slots = lib.slots
  /\ prot = lib.prot
  /\ old = [n \in News |-> Null]
  /\ self = NotFound /\ h = 0 /\ symidx = NotFound
  /\ section = "none" /\ iter = NotFound
  /\ addr = 0 /\ oldProt = {}
  /\ pc = "header"
  /\ failed = {} /\ unrestored = {}

-----------------------------------------------------------------------------
\* xh_elf_check_elfheader.
CheckHeader ==
  /\ pc = "header"
  /\ pc' = IF lib.header = {} THEN "parse" ELSE "done"
  /\ UNCHANGED <<input, memory, old, place, addr, oldProt, history>>

\* xh_elf_init.
ElfInit ==
  /\ pc = "parse"
  /\ self' = Parse(lib)
  /\ pc' = IF self' = NotFound THEN "done" ELSE "hook"
  /\ UNCHANGED <<input, memory, old, h, symidx, section, iter, addr,
                 oldProt, history>>

\* The next hook info; xh_elf_hook looks the symbol up.  A symbol that is not
\* found is no error.
StartHook ==
  /\ pc = "hook"
  /\ h < Len(hooks)
  /\ h' = h + 1
  /\ symidx' = FindSymidx(lib, self, hooks[h'].symbol)
  /\ pc' = IF symidx' = NotFound THEN "hook" ELSE "section"
  /\ UNCHANGED <<input, memory, old, self, section, iter, addr, oldProt,
                 history>>

EndHooks ==
  /\ pc = "hook"
  /\ h = Len(hooks)
  /\ pc' = "done"
  /\ UNCHANGED <<input, memory, old, place, addr, oldProt, history>>

\* The end of a hook with an error: xh_core_hook_impl goes on with the next.
Fail ==
  /\ failed' = failed \cup {h}
  /\ section' = "none"
  /\ pc' = "hook"

Following == [none |-> "plt", plt |-> "dyn", dyn |-> "android",
              android |-> "none"]

OpenSection ==
  /\ pc = "section"
  /\ section' = Following[section]
  /\ \/ /\ section' = "none"
        /\ pc' = "hook"
        /\ UNCHANGED iter
     \/ /\ section' # "none"
        /\ self[section'] = 0
        /\ pc' = "section"
        /\ UNCHANGED iter
     \/ /\ section' \in {"plt", "dyn"}
        /\ self[section'] # 0
        /\ iter' = PlainStart(self[section'],
                              IF section' = "plt" THEN self.pltSize
                              ELSE self.dynSize)
        /\ pc' = "reloc"
     \/ /\ section' = "android"
        /\ self.android # 0
        /\ iter' = PackedStart(lib, self.android, self.androidSize)
        /\ pc' = "reloc"
  /\ UNCHANGED <<input, memory, old, self, h, symidx, addr, oldProt,
                 history>>

NextReloc ==
  IF section = "android" THEN PackedNext(self.rela, iter)
  ELSE PlainNext(lib, self.rela, iter)

Types(s) == IF s = "plt" THEN {JUMP_SLOT} ELSE {GLOB_DAT, ABS}

Holds_Never(a, f) == FALSE

\* Every other word than those relocations are about is something else.
Holds(a, f) == a \in DOMAIN slots /\ slots[a] = f

IsSought_AnyType(rel) == R_SYM(rel.info) = symidx

IsSought(rel) == R_SYM(rel.info) = symidx /\ R_TYPE(rel.info) \in Types(section)

AfterFound_FirstOnly == "section"

\* What follows a relocation of the symbol: only the first one of the PLT.
AfterFound == IF section = "plt" THEN "section" ELSE "reloc"

\* xh_elf_find_and_replace_func and the first test of xh_elf_replace_function.
Reloc ==
  /\ pc = "reloc"
  /\ \E rel \in {NextReloc} : \E at \in {Wrap(self.bias + rel.offset)} :
     \/ /\ ~rel.ok
        /\ pc' = "section"
        /\ UNCHANGED <<section, iter, addr, failed>>
     \/ /\ rel.ok /\ ~IsSought(rel)
        /\ iter' = rel.iter
        /\ UNCHANGED <<section, pc, addr, failed>>
     \/ /\ rel.ok /\ IsSought(rel) /\ at < lib.base
        /\ Fail
        /\ UNCHANGED <<iter, addr>>
     \/ /\ rel.ok /\ IsSought(rel) /\ at >= lib.base
        /\ Holds(at, hooks[h].new)
        /\ iter' = rel.iter
        /\ pc' = AfterFound
        /\ UNCHANGED <<section, addr, failed>>
     \/ /\ rel.ok /\ IsSought(rel) /\ at >= lib.base
        /\ ~Holds(at, hooks[h].new)
        /\ iter' = rel.iter
        /\ addr' = at
        /\ pc' = "query"
        /\ UNCHANGED <<section, failed>>
  /\ UNCHANGED <<input, memory, old, self, h, symidx, oldProt, unrestored>>

-----------------------------------------------------------------------------
(***************************************************************************)
(* xh_elf_replace_function for the word at addr.                           *)
(***************************************************************************)
PagesOf_First(a) == {a \div PageSize}

\* The pages from PAGE_START to PAGE_END.
PagesOf(a) == a \div PageSize .. (a + PtrSize - 1) \div PageSize

NeedProt == {"r", "w"}

\* xh_util_get_addr_protect: the permissions that all pages have, if all are
\* in lines with the path.
Query ==
  /\ pc = "query"
  /\ IF PagesOf(addr) \subseteq lib.named
     THEN /\ oldProt' = {x \in {"r", "w", "x"} :
                           \A p \in PagesOf(addr) : x \in prot[p]}
          /\ pc' = IF oldProt' = NeedProt THEN "save" ELSE "protect"
          /\ UNCHANGED <<section, failed>>
     ELSE Fail /\ UNCHANGED oldProt
  /\ UNCHANGED <<input, memory, old, self, h, symidx, iter, addr, unrestored>>

SetProt(perms) ==
  prot' = [p \in DOMAIN prot |-> IF p \in PagesOf(addr) THEN perms ELSE prot[p]]

Protect ==
  /\ pc = "protect"
  /\ SetProt(NeedProt)
  /\ pc' = "save"
  /\ UNCHANGED <<input, slots, old, place, addr, oldProt, history>>

ProtectFails ==
  /\ pc = "protect"
  /\ MprotectMayFail
  /\ Fail
  /\ UNCHANGED <<input, memory, old, self, h, symidx, iter, addr, oldProt, unrestored>>

Save ==
  /\ pc = "save"
  /\ old' = [old EXCEPT ![hooks[h].new] = slots[addr]]
  /\ pc' = "store"
  /\ UNCHANGED <<input, memory, place, addr, oldProt, history>>

AfterStore_Unrestored == AfterFound

AfterStore == IF oldProt = NeedProt THEN AfterFound ELSE "restore"

Store ==
  /\ pc = "store"
  /\ slots' = [slots EXCEPT ![addr] = hooks[h].new]
  /\ pc' = AfterStore
  /\ UNCHANGED <<input, prot, old, place, addr, oldProt, history>>

Restore ==
  /\ pc = "restore"
  /\ SetProt(oldProt)
  /\ pc' = AfterFound
  /\ UNCHANGED <<input, slots, old, place, addr, oldProt, history>>

\* A failure to restore is only logged.
RestoreFails ==
  /\ pc = "restore"
  /\ MprotectMayFail
  /\ unrestored' = unrestored \cup PagesOf(addr)
  /\ pc' = AfterFound
  /\ UNCHANGED <<input, memory, old, place, addr, oldProt, failed>>

-----------------------------------------------------------------------------
Next ==
  \/ CheckHeader \/ ElfInit
  \/ StartHook \/ EndHooks
  \/ OpenSection \/ Reloc
  \/ Query \/ Protect \/ ProtectFails \/ Save \/ Store
  \/ Restore \/ RestoreFails

Spec == Init /\ [][Next]_vars

-----------------------------------------------------------------------------
Labels == {"header", "parse", "hook", "section", "reloc", "query", "protect",
           "save", "store", "restore", "done"}

(***************************************************************************)
(* Shape of the state.  In particular only words that relocations of the   *)
(* library are about are replaced, wherever the iterators point            *)
(* (xh_elf.c:972).                                                         *)
(***************************************************************************)
TypeOK ==
  /\ hooks \in Hooks
  /\ DOMAIN slots = DOMAIN lib.slots
  /\ prot \in [DOMAIN lib.prot -> SUBSET {"r", "w", "x"}]
  /\ DOMAIN old = News
  /\ h \in 0 .. Len(hooks)
  /\ section \in DOMAIN Following
  /\ addr \in DOMAIN slots \cup {0}
  /\ oldProt \subseteq {"r", "w", "x"}
  /\ pc \in Labels
  /\ failed \subseteq 1 .. h
  /\ unrestored \subseteq DOMAIN prot

\* A relocation through which the symbol's address gets into memory.
Binds(r, symbol) ==
  /\ r.symbol = symbol
  /\ r.section = "plt" => r.type = JUMP_SLOT
  /\ r.section \in {"dyn", "android"} => r.type \in {GLOB_DAT, ABS}

\* Where the relocation rel says that a pointer is.
PlaceOf(rel) == Wrap(self.bias + rel.offset)

(***************************************************************************)
(* The hash tables give the index of the symbol, whether the library       *)
(* defines or imports it, and nothing for a symbol it does not have        *)
(* ("found %s at symidx", xh_elf.c:356-446).  What an iterator then        *)
(* returns for that index, through whatever groups and encodings, and also *)
(* from a section that is cut off, is a relocation of the library that     *)
(* binds the symbol (xh_elf.c:958-975).                                    *)
(***************************************************************************)
ReadsRight ==
  /\ h > 0 =>
       LET found == {i \in DOMAIN lib.names : lib.names[i] = hooks[h].symbol} IN
       IF found = {} THEN symidx = NotFound ELSE symidx \in found
  /\ pc = "reloc" =>
       \A rel \in {NextReloc} :
         rel.ok /\ IsSought(rel) /\ PlaceOf(rel) >= lib.base =>
           \E r \in lib.relocs :
             /\ r.at = PlaceOf(rel) /\ r.at \in DOMAIN lib.slots
             /\ Binds(r, hooks[h].symbol)

\* The latest hook of a symbol that ended without an error.
Latest(symbol) ==
  {k \in DOMAIN hooks :
     /\ hooks[k].symbol = symbol /\ k \notin failed
     /\ \A j \in k + 1 .. Len(hooks) :
          hooks[j].symbol = symbol => j \in failed}

(***************************************************************************)
(* When all is done every word that a relocation in .rel(a).plt,           *)
(* .rel(a).dyn or .rel(a).android binds to a hooked symbol holds the new   *)
(* function ("replace for .rel(a).plt", xh_elf.c:1005-1042), unless        *)
(* a hook of the symbol failed.                                            *)
(***************************************************************************)
AllReplaced ==
  pc = "done" /\ lib.valid =>
    \A r \in lib.relocs : \A k \in Latest(r.symbol) :
      Binds(r, r.symbol) =>
        slots[r.at] \in {hooks[j].new : j \in {k} \cup
                          {i \in failed : i > k /\ hooks[i].symbol = r.symbol}}

(***************************************************************************)
(* A word that was replaced is one that a relocation binds to the symbol   *)
(* of the hook; every other word is as it was, whatever the state of the   *)
(* file (xh_elf.c:958-965).                                                *)
(***************************************************************************)
OnlySought ==
  \A a \in DOMAIN slots : slots[a] # lib.slots[a] =>
    \E r \in lib.relocs : \E k \in 1 .. h :
      r.at = a /\ Binds(r, hooks[k].symbol) /\ slots[a] = hooks[k].new

\* Functions that contain f and, with a new function, the one that it calls.
ClosedFrom(f) ==
  {F \in SUBSET News : f \in F /\ \A n \in F : old[n] \in News => old[n] \in F}

\* A call of f ends in g, which is not new: there is no way to go on calling
\* new functions without coming to one that calls g.
Reaches(f, g) ==
  \/ f = g
  \/ f \in News /\ \A F \in ClosedFrom(f) : \E n \in F : old[n] = g

(***************************************************************************)
(* A call through a pointer that another thread makes at any moment ends   *)
(* in the original function, when each new function calls *old_func        *)
(* ("save old func" before "replace func", xh_elf.c:476-481).              *)
(***************************************************************************)
CallsEnd ==
  \A a \in DOMAIN slots : Reaches(slots[a], lib.slots[a])

(***************************************************************************)
(* A pointer is only stored into memory that may be written: "segmentation *)
(* fault sometimes" (xh_elf.c:481) does not happen while the library stays *)
(* mapped.                                                                 *)
(***************************************************************************)
StoreWritable ==
  pc = "store" =>
    \A a \in addr .. addr + PtrSize - 1 : "w" \in prot[a \div PageSize]

(***************************************************************************)
(* Between two replacements every page has the permissions it had at the   *)
(* start, except one of which the restoring failed ("restore the old       *)
(* prot", xh_elf.c:485), also after a hook that failed half-way.           *)
(***************************************************************************)
ProtRestored ==
  pc \in {"hook", "section", "reloc", "done"} =>
    \A p \in DOMAIN prot \ unrestored : prot[p] = lib.prot[p]
=============================================================================
