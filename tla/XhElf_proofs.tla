----------------------------- MODULE XhElf_proofs -----------------------------
(***************************************************************************)
(* Proofs about the replacing of pointers in one library: for any library, *)
(* any hooks, pages and pointers of any size and any failure of mprotect.  *)
(* The first part proves of the steps that they are right as long as the   *)
(* file is read right (ReadsRight).  The second part proves that it is:    *)
(* the searches in the hash tables come to an end at the symbol, and the   *)
(* iterators go through the relocations of their section one by one, for   *)
(* every library whose words are what a link editor writes (XhElfWritten). *)
(* The last part proves that nothing is left out.                          *)
(***************************************************************************)
EXTENDS XhElfWritten, WellFoundedInduction, TLAPS

(***************************************************************************)
(* A set of numbers that has a member has a least one.                     *)
(***************************************************************************)
LEMMA Least ==
  ASSUME NEW S \in SUBSET Nat, S # {}
  PROVE  \E n \in S : \A m \in S : n <= m
<1> DEFINE R == OpToRel(<, Nat)
<1>1. IsWellFoundedOn(R, Nat)
  BY NatLessThanWellFounded
<1>2. PICK n \in S : \A m \in S : <<m, n>> \notin R
  <2> HIDE DEF R
  <2> QED
    BY <1>1, WFMin
<1>3. \A m \in S : ~(m < n)
  BY <1>2 DEF OpToRel
<1>4. QED
  BY <1>3

-----------------------------------------------------------------------------
\* A pointer of the library is being replaced.
Replacing == pc \in {"query", "protect", "save", "store", "restore"}

\* The permissions are known and the pages can be changed.
Located == pc \in {"protect", "save", "store", "restore"}

\* What is chosen at the start, and where the hooks are.
Placed ==
  /\ lib \in Libs
  /\ pc \in {"header", "parse"} => h = 0
  /\ pc \in {"section", "reloc"} \/ Replacing => h > 0
  /\ pc = "reloc" \/ Replacing => section # "none"

\* The pointer that is replaced is one that a relocation binds to the symbol.
Sought ==
  Replacing =>
    \E r \in lib.relocs :
      r.at = addr /\ addr \in DOMAIN lib.slots /\ Binds(r, hooks[h].symbol)

\* Its pages are pages of the library.
PagesKnown == Located => PagesOf(addr) \subseteq DOMAIN lib.prot

\* From mprotect to the restoring they can be written.
Writable ==
  pc \in {"save", "store", "restore"} =>
    \A p \in PagesOf(addr) : "w" \in prot[p]

EInv == TypeOK /\ Placed /\ Sought /\ PagesKnown /\ Writable

-----------------------------------------------------------------------------
(***************************************************************************)
(* What the assumption says of a library and of a sequence of hooks.       *)
(***************************************************************************)
LEMMA LibFacts ==
  ASSUME NEW l \in Libs
  PROVE  /\ DOMAIN l.slots \subseteq Nat
         /\ l.prot \in [DOMAIN l.prot -> SUBSET {"r", "w", "x"}]
         /\ l.named \subseteq DOMAIN l.prot
BY XhElfAssumption DEF XhElfAssumption

LEMMA HooksFacts ==
  ASSUME NEW hs \in Hooks
  PROVE  Len(hs) \in Nat /\ DOMAIN hs = 1 .. Len(hs)
BY XhElfAssumption DEF XhElfAssumption

LEMMA Sizes == PageSize \in Nat \ {0} /\ PtrSize \in Nat \ {0}
BY XhElfAssumption DEF XhElfAssumption

(***************************************************************************)
(* An address that is not below another is not on a page below.            *)
(***************************************************************************)
LEMMA PageMonotone ==
  ASSUME NEW n \in Nat \ {0}, NEW a \in Nat, NEW b \in Nat, a <= b
  PROVE  a \div n <= b \div n
<1> DEFINE qa == a \div n
           qb == b \div n
<1>1. qa \in Int /\ qb \in Int
  OBVIOUS
<1>2. n * qa <= a /\ b < n * (qb + 1)
  OBVIOUS
<1>3. SUFFICES ASSUME qb + 1 <= qa
               PROVE  FALSE
  BY <1>1
<1> HIDE DEF qa, qb
<1>4. n * (qb + 1) <= n * qa
  BY <1>1, <1>3
<1>5. n * (qb + 1) \in Int /\ n * qa \in Int
  BY <1>1
<1>6. QED
  BY <1>2, <1>4, <1>5

(***************************************************************************)
(* A pointer lies on the pages that the code takes for it.                 *)
(***************************************************************************)
LEMMA PointerOnPages ==
  ASSUME NEW a \in Nat, NEW b \in a .. a + PtrSize - 1
  PROVE  b \div PageSize \in PagesOf(a)
<1>1. b \in Nat /\ a <= b /\ b <= a + PtrSize - 1 /\ a + PtrSize - 1 \in Nat
  BY Sizes
<1>2. a \div PageSize <= b \div PageSize
  BY <1>1, PageMonotone, Sizes
<1>3. b \div PageSize <= (a + PtrSize - 1) \div PageSize
  BY <1>1, PageMonotone, Sizes
<1>4. b \div PageSize \in Int
  BY <1>1, Sizes
<1>5. QED
  BY <1>2, <1>3, <1>4 DEF PagesOf

-----------------------------------------------------------------------------
\* Pages have their permissions or those that a replacement sets, and old_prot
\* is what the pages of the pointer had.
Kept == \A p \in DOMAIN lib.prot : prot[p] \in {lib.prot[p], NeedProt}

OldKnown ==
  Located => \A p \in PagesOf(addr) : oldProt \in {lib.prot[p], NeedProt}

\* Whether mprotect was called for the pointer and its pages are not back.
Changed == pc \in {"save", "store", "restore"} /\ oldProt # NeedProt

Elsewhere ==
  \A p \in DOMAIN lib.prot \ unrestored :
    (Changed /\ p \in PagesOf(addr)) \/ prot[p] = lib.prot[p]

NeedsChange == pc \in {"protect", "restore"} => oldProt # NeedProt

PInv == EInv /\ Kept /\ OldKnown /\ Elsewhere /\ NeedsChange

-----------------------------------------------------------------------------
LEMMA InitEInv == Init => EInv
<1> SUFFICES ASSUME Init PROVE EInv
  OBVIOUS
<1>1. /\ lib.prot \in [DOMAIN lib.prot -> SUBSET {"r", "w", "x"}]
      /\ Len(hooks) \in Nat
  BY LibFacts, HooksFacts DEF Init
<1>2. TypeOK
  BY <1>1 DEF Init, TypeOK, Labels, Following
<1>3. Placed /\ Sought /\ PagesKnown /\ Writable
  BY DEF Init, Placed, Sought, PagesKnown, Writable, Replacing, Located
<1>4. QED
  BY <1>2, <1>3 DEF EInv

(***************************************************************************)
(* Where no pointer is replaced, only the shape of the state and the place *)
(* are left of the invariant.                                              *)
(***************************************************************************)
LEMMA NotReplacing ==
  ASSUME TypeOK, Placed, ~Replacing
  PROVE  EInv
BY DEF EInv, Sought, PagesKnown, Writable, Replacing, Located

LEMMA StartInv ==
  ASSUME EInv, CheckHeader \/ ElfInit \/ StartHook \/ EndHooks
  PROVE  EInv'
<1>1. Len(hooks) \in Nat
  BY HooksFacts DEF EInv, TypeOK
<1>2. CASE CheckHeader
  <2>1. TypeOK'
    BY <1>2 DEF CheckHeader, EInv, TypeOK, Labels, input, memory, place, history
  <2>2. Placed' /\ ~Replacing'
    BY <1>2 DEF CheckHeader, EInv, Placed, Replacing, input, place
  <2>3. QED
    BY <2>1, <2>2, NotReplacing DEF EInv, Sought, PagesKnown, Writable, Replacing, Located
<1>3. CASE ElfInit
  <2>1. TypeOK'
    BY <1>3 DEF ElfInit, EInv, TypeOK, Labels, input, memory, history
  <2>2. Placed' /\ ~Replacing'
    BY <1>3 DEF ElfInit, EInv, Placed, Replacing, input
  <2>3. QED
    BY <2>1, <2>2 DEF EInv, Sought, PagesKnown, Writable, Replacing, Located
<1>4. CASE StartHook
  <2>1. TypeOK'
    BY <1>1, <1>4 DEF StartHook, EInv, TypeOK, Labels, input, memory, history
  <2>2. Placed' /\ ~Replacing'
    BY <1>1, <1>4 DEF StartHook, EInv, TypeOK, Placed, Replacing, input
  <2>3. QED
    BY <2>1, <2>2 DEF EInv, Sought, PagesKnown, Writable, Replacing, Located
<1>5. CASE EndHooks
  <2>1. TypeOK'
    BY <1>5 DEF EndHooks, EInv, TypeOK, Labels, input, memory, place, history
  <2>2. Placed' /\ ~Replacing'
    BY <1>5 DEF EndHooks, EInv, Placed, Replacing, input, place
  <2>3. QED
    BY <2>1, <2>2 DEF EInv, Sought, PagesKnown, Writable, Replacing, Located
<1>6. QED
  BY <1>2, <1>3, <1>4, <1>5

(***************************************************************************)
(* A hook that fails ends.                                                 *)
(***************************************************************************)
LEMMA FailInv ==
  ASSUME EInv, h > 0, Fail,
         UNCHANGED <<lib, hooks, slots, prot, old, h, oldProt, unrestored>>,
         addr' = addr
  PROVE  EInv'
<1>1. Len(hooks) \in Nat
  BY HooksFacts DEF EInv, TypeOK
<1>2. TypeOK'
  BY <1>1 DEF Fail, EInv, TypeOK, Labels, Following
<1>3. Placed' /\ ~Replacing'
  BY DEF Fail, EInv, Placed, Replacing
<1>4. QED
  BY <1>2, <1>3 DEF EInv, Sought, PagesKnown, Writable, Replacing, Located

LEMMA OpenSectionInv ==
  ASSUME EInv, OpenSection
  PROVE  EInv'
<1>1. section' \in DOMAIN Following
  BY DEF OpenSection, EInv, TypeOK, Following
<1>2. /\ pc' \in {"hook", "section", "reloc"} /\ pc = "section"
      /\ pc' = "reloc" => section' # "none"
  BY DEF OpenSection
<1>3. TypeOK'
  BY <1>1, <1>2 DEF OpenSection, EInv, TypeOK, Labels, input, memory, history
<1>4. Placed' /\ ~Replacing'
  BY <1>2 DEF OpenSection, EInv, Placed, Replacing, input
<1>5. QED
  BY <1>3, <1>4 DEF EInv, Sought, PagesKnown, Writable, Replacing, Located

(***************************************************************************)
(* What the relocations lead to.                                           *)
(***************************************************************************)
LEMMA RelocFound ==
  ASSUME Reloc, ReadsRight, pc' = "query"
  PROVE  \E r \in lib.relocs :
           r.at = addr' /\ addr' \in DOMAIN lib.slots /\ Binds(r, hooks[h].symbol)
<1>1. PICK rel : /\ rel = NextReloc /\ rel.ok /\ IsSought(rel)
                 /\ addr' = Wrap(self.bias + rel.offset) /\ addr' >= lib.base
  BY DEF Reloc, AfterFound, Fail
<1>2. pc = "reloc"
  BY DEF Reloc
<1>3. QED
  BY <1>1, <1>2 DEF ReadsRight, PlaceOf

LEMMA AfterFoundFacts ==
  /\ AfterFound \in {"section", "reloc"}
  /\ AfterFound = "reloc" => section # "plt"
BY DEF AfterFound

LEMMA RelocInv ==
  ASSUME EInv, Reloc, ReadsRight
  PROVE  EInv'
<1>1. pc = "reloc" /\ h > 0 /\ section # "none"
  BY DEF Reloc, EInv, Placed
<1>2. /\ UNCHANGED <<lib, hooks, slots, prot, old, self, h, symidx, oldProt, unrestored>>
  BY DEF Reloc, input, memory
<1>3. CASE Fail /\ addr' = addr
  BY <1>1, <1>2, <1>3, FailInv
<1>4. CASE /\ UNCHANGED <<section, failed, addr>>
           /\ pc' \in {"section", "reloc"}
  <2>1. TypeOK'
    BY <1>2, <1>4 DEF EInv, TypeOK, Labels
  <2>2. Placed' /\ ~Replacing'
    BY <1>1, <1>2, <1>4 DEF EInv, Placed, Replacing
  <2>3. QED
    BY <2>1, <2>2 DEF EInv, Sought, PagesKnown, Writable, Replacing, Located
<1>5. CASE UNCHANGED <<section, failed>> /\ pc' = "query"
  <2>1. \E r \in lib.relocs :
          r.at = addr' /\ addr' \in DOMAIN lib.slots /\ Binds(r, hooks[h].symbol)
    BY <1>5, RelocFound
  <2>2. TypeOK'
    BY <1>2, <1>5, <2>1 DEF EInv, TypeOK, Labels
  <2>3. Placed'
    BY <1>1, <1>2, <1>5 DEF EInv, Placed, Replacing
  <2>4. Sought'
    BY <1>2, <2>1 DEF Sought, Binds
  <2>5. PagesKnown' /\ Writable'
    BY <1>5 DEF PagesKnown, Writable, Located
  <2>6. QED
    BY <2>2, <2>3, <2>4, <2>5 DEF EInv
<1>6. \/ Fail /\ addr' = addr
      \/ UNCHANGED <<section, failed, addr>> /\ pc' \in {"section", "reloc"}
      \/ UNCHANGED <<section, failed>> /\ pc' = "query"
  BY <1>1, AfterFoundFacts DEF Reloc
<1>7. QED
  BY <1>3, <1>4, <1>5, <1>6

(***************************************************************************)
(* xh_elf_replace_function: the facts that stay while it replaces one      *)
(* pointer.                                                                *)
(***************************************************************************)
LEMMA SoughtStays ==
  ASSUME Sought, Replacing, UNCHANGED <<lib, hooks, h, addr>>
  PROVE  Sought'
BY DEF Sought, Binds

LEMMA PlacedStays ==
  ASSUME Placed, Replacing, Replacing', UNCHANGED <<lib, section, h>>
  PROVE  Placed'
BY DEF Placed, Replacing

LEMMA QueryInv ==
  ASSUME EInv, Query
  PROVE  EInv'
<1>1. /\ pc = "query" /\ Replacing /\ h > 0
      /\ UNCHANGED <<lib, hooks, slots, prot, old, h, addr, unrestored>>
  BY DEF Query, EInv, Placed, Replacing, input, memory
<1>2. CASE PagesOf(addr) \subseteq lib.named
  <2>1. /\ pc' \in {"save", "protect"} /\ UNCHANGED <<section, failed>>
        /\ oldProt' = {x \in {"r", "w", "x"} :
                         \A p \in PagesOf(addr) : x \in prot[p]}
        /\ pc' = "save" => oldProt' = NeedProt
    BY <1>2 DEF Query
  <2>2. TypeOK'
    BY <1>1, <2>1 DEF EInv, TypeOK, Labels
  <2>3. Placed' /\ Sought'
    BY <1>1, <2>1, PlacedStays, SoughtStays DEF EInv, Replacing
  <2>4. PagesKnown'
    BY <1>1, <1>2, LibFacts DEF PagesKnown, PagesOf, EInv, Placed
  <2>5. Writable'
    <3>1. SUFFICES ASSUME pc' = "save", NEW p \in PagesOf(addr)
                   PROVE  "w" \in prot[p]
      BY <1>1, <2>1 DEF Writable, PagesOf
    <3>2. "w" \in oldProt'
      BY <2>1, <3>1 DEF NeedProt
    <3>3. QED
      BY <2>1, <3>1, <3>2
  <2>6. QED
    BY <2>2, <2>3, <2>4, <2>5 DEF EInv
<1>3. CASE ~(PagesOf(addr) \subseteq lib.named)
  BY <1>1, <1>3, FailInv DEF Query
<1>4. QED
  BY <1>2, <1>3

(***************************************************************************)
(* What mprotect leaves of each page.                                      *)
(***************************************************************************)
LEMMA SetProtFacts ==
  ASSUME TypeOK, NEW perms \in SUBSET {"r", "w", "x"}, SetProt(perms)
  PROVE  /\ prot' \in [DOMAIN lib.prot -> SUBSET {"r", "w", "x"}]
         /\ \A p \in DOMAIN lib.prot :
              prot'[p] = IF p \in PagesOf(addr) THEN perms ELSE prot[p]
BY DEF TypeOK, SetProt

LEMMA ProtectInv ==
  ASSUME EInv, Protect
  PROVE  EInv'
<1>1. /\ pc = "protect" /\ pc' = "save" /\ Replacing /\ Replacing' /\ Located
      /\ UNCHANGED <<lib, hooks, slots, old, h, section, addr, oldProt, failed,
                     unrestored>>
  BY DEF Protect, Replacing, Located, input, place, history
<1>2. /\ prot' \in [DOMAIN lib.prot -> SUBSET {"r", "w", "x"}]
      /\ \A p \in DOMAIN lib.prot :
           prot'[p] = IF p \in PagesOf(addr) THEN NeedProt ELSE prot[p]
  BY SetProtFacts DEF Protect, EInv, NeedProt
<1>3. TypeOK'
  BY <1>1, <1>2 DEF EInv, TypeOK, Labels
<1>4. Placed' /\ Sought'
  BY <1>1, PlacedStays, SoughtStays DEF EInv
<1>5. PagesOf(addr) \subseteq DOMAIN lib.prot /\ addr' = addr
  BY <1>1 DEF EInv, PagesKnown
<1>6. PagesKnown'
  BY <1>1, <1>5 DEF PagesKnown, PagesOf
<1>7. Writable'
  BY <1>2, <1>5 DEF Writable, PagesOf, NeedProt
<1>8. QED
  BY <1>3, <1>4, <1>6, <1>7 DEF EInv

LEMMA ProtectFailsInv ==
  ASSUME EInv, ProtectFails
  PROVE  EInv'
<1>1. h > 0
  BY DEF ProtectFails, EInv, Placed, Replacing
<1>2. QED
  BY <1>1, FailInv DEF ProtectFails, input, memory

LEMMA SaveInv ==
  ASSUME EInv, Save
  PROVE  EInv'
<1>1. /\ pc = "save" /\ pc' = "store" /\ Replacing /\ Replacing' /\ Located
      /\ UNCHANGED <<lib, hooks, slots, prot, h, section, addr, oldProt, failed,
                     unrestored>>
  BY DEF Save, Replacing, Located, input, memory, place, history
<1>2. DOMAIN old' = DOMAIN old
  BY DEF Save
<1>3. TypeOK'
  BY <1>1, <1>2 DEF EInv, TypeOK, Labels
<1>4. Placed' /\ Sought'
  BY <1>1, PlacedStays, SoughtStays DEF EInv
<1>5. PagesKnown' /\ Writable'
  BY <1>1 DEF EInv, PagesKnown, Writable, PagesOf, Located
<1>6. QED
  BY <1>3, <1>4, <1>5 DEF EInv

(***************************************************************************)
(* What follows the replacement of a pointer.                              *)
(***************************************************************************)
LEMMA NextInv ==
  ASSUME EInv, Replacing, TypeOK', pc' = AfterFound,
         UNCHANGED <<lib, hooks, h, section>>
  PROVE  EInv'
<1>1. pc' \in {"section", "reloc"} /\ h > 0 /\ section # "none"
  BY AfterFoundFacts DEF EInv, Placed
<1>2. Placed' /\ ~Replacing'
  BY <1>1 DEF EInv, Placed, Replacing
<1>3. QED
  BY <1>2 DEF EInv, Sought, PagesKnown, Writable, Replacing, Located

LEMMA StoreInv ==
  ASSUME EInv, Store
  PROVE  EInv'
<1>1. /\ pc = "store" /\ Replacing /\ Located
      /\ UNCHANGED <<lib, hooks, prot, old, h, section, addr, oldProt, failed,
                     unrestored>>
  BY DEF Store, Replacing, Located, input, place, history
<1>2. pc' \in {AfterFound, "restore"}
  BY DEF Store, AfterStore
<1>3. TypeOK'
  BY <1>1, <1>2, AfterFoundFacts DEF Store, EInv, TypeOK, Labels
<1>4. CASE pc' = AfterFound
  BY <1>1, <1>3, <1>4, NextInv
<1>5. CASE pc' = "restore"
  <2>1. Placed' /\ Sought'
    BY <1>1, <1>5, PlacedStays, SoughtStays DEF EInv, Replacing
  <2>2. PagesKnown' /\ Writable'
    BY <1>1, <1>5 DEF EInv, PagesKnown, Writable, PagesOf, Located
  <2>3. QED
    BY <1>3, <2>1, <2>2 DEF EInv
<1>6. QED
  BY <1>2, <1>4, <1>5

LEMMA RestoreInv ==
  ASSUME EInv, Restore \/ RestoreFails
  PROVE  EInv'
<1>1. /\ pc = "restore" /\ Replacing /\ pc' = AfterFound
      /\ UNCHANGED <<lib, hooks, slots, old, h, section, addr, oldProt, failed>>
  BY DEF Restore, RestoreFails, Replacing, input, memory, place, history
<1>2. /\ PagesOf(addr) \subseteq DOMAIN lib.prot
      /\ oldProt \in SUBSET {"r", "w", "x"}
  BY <1>1 DEF EInv, PagesKnown, Located, TypeOK
<1>3. CASE Restore
  <2>1. prot' \in [DOMAIN lib.prot -> SUBSET {"r", "w", "x"}]
    BY <1>2, <1>3, SetProtFacts DEF Restore, EInv
  <2>2. TypeOK'
    BY <1>1, <1>3, <2>1, AfterFoundFacts DEF Restore, EInv, TypeOK, Labels, history
  <2>3. QED
    BY <1>1, <2>2, NextInv
<1>4. CASE RestoreFails
  <2>1. TypeOK'
    BY <1>1, <1>2, <1>4, AfterFoundFacts
    DEF RestoreFails, EInv, TypeOK, Labels, memory
  <2>2. QED
    BY <1>1, <2>1, NextInv
<1>5. QED
  BY <1>3, <1>4

LEMMA StepEInv ==
  ASSUME EInv, ReadsRight, [Next]_vars
  PROVE  EInv'
<1>1. CASE Next
  BY <1>1, StartInv, OpenSectionInv, RelocInv, QueryInv, ProtectInv,
     ProtectFailsInv, SaveInv, StoreInv, RestoreInv
  DEF Next
<1>2. CASE UNCHANGED vars
  BY <1>2 DEF vars, EInv, TypeOK, Placed, Sought, PagesKnown, Writable,
     Replacing, Located, Binds, PagesOf
<1>3. QED
  BY <1>1, <1>2

LEMMA EInvAlways == Spec /\ []ReadsRight => []EInv
<1>1. Init => EInv
  BY InitEInv
<1>2. EInv /\ ReadsRight /\ [Next]_vars => EInv'
  BY StepEInv
<1>3. QED
  BY <1>1, <1>2, PTL DEF Spec

(***************************************************************************)
(* Where the file is read right, only words that relocations are about are *)
(* replaced, only pages whose permissions are known are changed, and a     *)
(* hook fails at most once (xh_elf.c:440-490).                             *)
(***************************************************************************)
THEOREM TypeCorrect == Spec /\ []ReadsRight => []TypeOK
<1>1. EInv => TypeOK
  BY DEF EInv
<1>2. QED
  BY <1>1, EInvAlways, PTL

LEMMA EInvWritable == EInv => StoreWritable
<1>1. SUFFICES ASSUME EInv, pc = "store", NEW a \in addr .. addr + PtrSize - 1
               PROVE  "w" \in prot[a \div PageSize]
  BY DEF StoreWritable
<1>2. addr \in DOMAIN lib.slots
  BY <1>1 DEF EInv, Sought, Replacing
<1>3. addr \in Nat
  BY <1>1, <1>2, LibFacts DEF EInv, Placed
<1>4. a \div PageSize \in PagesOf(addr)
  BY <1>1, <1>3, PointerOnPages
<1>5. QED
  BY <1>1, <1>4 DEF EInv, Writable

(***************************************************************************)
(* Every word of the pointer that is stored lies on a page that may be     *)
(* written, also when the pointer lies on several pages: for any size of   *)
(* pages and pointers (PAGE_START and PAGE_END, xh_util.c:42-44).          *)
(***************************************************************************)
THEOREM StoresWritable == Spec /\ []ReadsRight => []StoreWritable
<1>1. QED
  BY EInvWritable, EInvAlways, PTL

-----------------------------------------------------------------------------
(***************************************************************************)
(* A step that replaces a word replaces the one at addr; the others stay.  *)
(***************************************************************************)
LEMMA OnlySoughtStays ==
  ASSUME EInv, OnlySought, [Next]_vars
  PROVE  OnlySought'
<1>1. /\ lib' = lib /\ hooks' = hooks
      /\ h \in Nat /\ h' \in Nat /\ h <= h'
  <2>1. h \in Nat
    BY HooksFacts DEF EInv, TypeOK
  <2>2. UNCHANGED <<lib, hooks>> /\ h' \in {h, h + 1}
    BY DEF Next, vars, CheckHeader, ElfInit, StartHook, EndHooks, OpenSection,
       Reloc, Query, Protect, ProtectFails, Save, Store, Restore, RestoreFails,
       input, place
  <2>3. QED
    BY <2>1, <2>2
<1>2. SUFFICES ASSUME NEW a \in DOMAIN slots', slots'[a] # lib.slots[a]
               PROVE  \E r \in lib.relocs : \E k \in 1 .. h' :
                        /\ r.at = a /\ Binds(r, hooks[k].symbol)
                        /\ slots'[a] = hooks[k].new
  BY <1>1 DEF OnlySought, Binds
<1>3. CASE slots' = slots
  <2>1. PICK r \in lib.relocs, k \in 1 .. h :
          r.at = a /\ Binds(r, hooks[k].symbol) /\ slots[a] = hooks[k].new
    BY <1>2, <1>3 DEF OnlySought
  <2>2. k \in 1 .. h'
    BY <1>1
  <2>3. QED
    BY <1>3, <2>1, <2>2
<1>4. CASE Store
  <2>1. /\ slots' = [slots EXCEPT ![addr] = hooks[h].new] /\ h' = h
        /\ pc = "store"
    BY <1>4 DEF Store, place
  <2>2. PICK r \in lib.relocs : r.at = addr /\ Binds(r, hooks[h].symbol)
    BY <2>1 DEF EInv, Sought, Replacing
  <2>3. h \in 1 .. h'
    BY <1>1, <2>1 DEF EInv, Placed, Replacing
  <2>4. CASE a = addr
    <3>1. slots'[a] = hooks[h].new
      BY <1>2, <2>1, <2>4
    <3>2. QED
      BY <2>2, <2>3, <2>4, <3>1
  <2>5. CASE a # addr
    <3>1. a \in DOMAIN slots /\ slots'[a] = slots[a]
      BY <1>2, <2>1, <2>5
    <3>2. QED
      BY <1>2, <2>1, <3>1 DEF OnlySought
  <2>6. QED
    BY <2>4, <2>5
<1>5. slots' = slots \/ Store
  BY DEF Next, vars, CheckHeader, ElfInit, StartHook, EndHooks, OpenSection,
     Reloc, Query, Protect, ProtectFails, Save, Restore, RestoreFails, memory
<1>6. QED
  BY <1>3, <1>4, <1>5

(***************************************************************************)
(* Whatever fails and whatever order the relocations come in, a word that  *)
(* was replaced is one that a relocation of the library binds to the       *)
(* symbol of a hook that was started, and holds the function of that hook  *)
(* (xh_elf.c:958-965).                                                     *)
(***************************************************************************)
THEOREM OnlySoughtReplaced == Spec /\ []ReadsRight => []OnlySought
<1>1. Init => OnlySought
  BY DEF Init, OnlySought
<1>2. EInv /\ OnlySought /\ [Next]_vars => OnlySought'
  BY OnlySoughtStays
<1>3. QED
  BY <1>1, <1>2, EInvAlways, PTL DEF Spec

-----------------------------------------------------------------------------
(***************************************************************************)
(* Permissions come back: steps other than those of a replacement change   *)
(* none of what the invariant says of them.                                *)
(***************************************************************************)
LEMMA QuietProt ==
  ASSUME PInv, EInv', UNCHANGED <<lib, prot, unrestored>>, ~Located, ~Located'
  PROVE  PInv'
<1>1. ~Changed
  BY DEF Changed, Located
<1>2. Elsewhere'
  BY <1>1 DEF PInv, Elsewhere, Changed, PagesOf
<1>3. Kept' /\ OldKnown' /\ NeedsChange'
  BY DEF PInv, Kept, OldKnown, NeedsChange, Located
<1>4. QED
  BY <1>2, <1>3 DEF PInv

LEMMA InitPInv == Init => PInv
<1> SUFFICES ASSUME Init PROVE PInv
  OBVIOUS
<1>1. EInv
  BY InitEInv
<1>2. Kept /\ OldKnown /\ Elsewhere /\ NeedsChange
  BY DEF Init, Kept, OldKnown, Elsewhere, NeedsChange, Located
<1>3. QED
  BY <1>1, <1>2 DEF PInv

(***************************************************************************)
(* old_prot is known for each page of the pointer.                         *)
(***************************************************************************)
LEMMA QueryOld ==
  ASSUME StraddleAlike, PInv, Query, Located', NEW q \in PagesOf(addr)
  PROVE  oldProt' \in {lib.prot[q], NeedProt}
<1>1. /\ PagesOf(addr) \subseteq lib.named
      /\ oldProt' = {x \in {"r", "w", "x"} :
                       \A p \in PagesOf(addr) : x \in prot[p]}
  BY DEF Query, Fail, Located
<1>2. addr \in DOMAIN lib.slots /\ lib \in Libs
  BY DEF Query, PInv, EInv, Placed, Sought, Replacing
<1>3. \A p \in PagesOf(addr) : p \in DOMAIN lib.prot
  BY <1>1, <1>2, LibFacts
<1>4. \A p \in PagesOf(addr) : prot[p] \in {lib.prot[p], NeedProt}
  BY <1>3 DEF PInv, Kept
<1>5. lib.prot[q] \in SUBSET {"r", "w", "x"}
  BY <1>2, <1>3, LibFacts
<1>6. CASE \A p \in PagesOf(addr) : p = q
  <2>1. oldProt' = {x \in {"r", "w", "x"} : x \in prot[q]}
    BY <1>1, <1>6
  <2>2. prot[q] \subseteq {"r", "w", "x"}
    BY <1>4, <1>5 DEF NeedProt
  <2>3. oldProt' = prot[q]
    BY <2>1, <2>2
  <2>4. QED
    BY <1>4, <2>3
<1>7. CASE \E p \in PagesOf(addr) : p # q
  <2>1. /\ \A p \in PagesOf(addr) : lib.prot[p] = lib.prot[q]
        /\ lib.prot[q] \subseteq NeedProt \/ NeedProt \subseteq lib.prot[q]
    BY <1>1, <1>2, <1>7 DEF StraddleAlike
  <2>2. \A p \in PagesOf(addr) : prot[p] \in {lib.prot[q], NeedProt}
    BY <1>4, <2>1
  <2> DEFINE S == PagesOf(addr)
             P == lib.prot[q]
  <2>3. /\ q \in S /\ P \in SUBSET {"r", "w", "x"}
        /\ \A p \in S : prot[p] \in {P, NeedProt}
        /\ P \subseteq NeedProt \/ NeedProt \subseteq P
        /\ oldProt' = {x \in {"r", "w", "x"} : \A p \in S : x \in prot[p]}
        /\ NeedProt \subseteq {"r", "w", "x"}
    BY <1>1, <1>5, <2>1, <2>2 DEF NeedProt
  <2> HIDE DEF S, P
  <2>4. CASE \E p \in S : prot[p] = P /\ P \subseteq NeedProt
    <3>1. oldProt' = P
      BY <2>3, <2>4
    <3>2. QED
      BY <3>1 DEF P
  <2>5. CASE \E p \in S : prot[p] = NeedProt /\ NeedProt \subseteq P
    <3>1. oldProt' = NeedProt
      BY <2>3, <2>5
    <3>2. QED
      BY <3>1
  <2>6. CASE (\A p \in S : prot[p] = P) \/ (\A p \in S : prot[p] = NeedProt)
    <3>1. oldProt' \in {P, NeedProt}
      BY <2>3, <2>6
    <3>2. QED
      BY <3>1 DEF P
  <2>7. QED
    BY <2>3, <2>4, <2>5, <2>6
<1>8. QED
  BY <1>6, <1>7

LEMMA QueryProt ==
  ASSUME StraddleAlike, PInv, Query, EInv'
  PROVE  PInv'
<1>1. /\ pc = "query" /\ UNCHANGED <<lib, prot, addr, unrestored>>
      /\ ~Located /\ ~Changed
  BY DEF Query, Located, Changed, input, memory
<1>2. CASE ~Located'
  BY <1>1, <1>2, QuietProt
<1>3. CASE Located'
  <2>1. OldKnown'
    BY <1>1, <1>3, QueryOld DEF OldKnown, PagesOf
  <2>2. Kept' /\ Elsewhere'
    BY <1>1 DEF PInv, Kept, Elsewhere
  <2>3. pc' \in {"save", "protect"} /\ (pc' = "protect" => oldProt' # NeedProt)
    BY <1>3 DEF Query, Fail, Located
  <2>4. QED
    BY <2>1, <2>2, <2>3 DEF PInv, NeedsChange
<1>4. QED
  BY <1>2, <1>3

LEMMA ProtectProt ==
  ASSUME PInv, Protect, EInv'
  PROVE  PInv'
<1>1. /\ pc = "protect" /\ pc' = "save" /\ UNCHANGED <<lib, addr, oldProt, unrestored>>
      /\ ~Changed /\ Located
  BY DEF Protect, Located, Changed, input, history
<1>2. \A p \in DOMAIN lib.prot :
        prot'[p] = IF p \in PagesOf(addr) THEN NeedProt ELSE prot[p]
  BY SetProtFacts DEF Protect, PInv, EInv, NeedProt
<1>3. Changed'
  BY <1>1 DEF Changed, PInv, NeedsChange, NeedProt
<1>4. Kept' /\ Elsewhere'
  BY <1>1, <1>2, <1>3 DEF PInv, Kept, Elsewhere, PagesOf, NeedProt
<1>5. OldKnown' /\ NeedsChange'
  BY <1>1 DEF PInv, OldKnown, NeedsChange, PagesOf, NeedProt
<1>6. QED
  BY <1>4, <1>5 DEF PInv

LEMMA SaveProt ==
  ASSUME PInv, Save, EInv'
  PROVE  PInv'
BY DEF Save, PInv, Kept, OldKnown, Elsewhere, NeedsChange, Changed, Located,
   PagesOf, NeedProt, input, memory, history

LEMMA StoreProt ==
  ASSUME PInv, Store, EInv'
  PROVE  PInv'
<1>1. /\ pc = "store" /\ Located
      /\ UNCHANGED <<lib, prot, addr, oldProt, unrestored>>
  BY DEF Store, Located, input, history
<1>2. CASE oldProt = NeedProt
  <2>1. pc' \in {"section", "reloc"} /\ ~Changed
    BY <1>2, AfterFoundFacts DEF Store, AfterStore, Changed
  <2>2. QED
    BY <1>1, <2>1 DEF PInv, Kept, OldKnown, Elsewhere, NeedsChange, Located,
       PagesOf, NeedProt
<1>3. CASE oldProt # NeedProt
  <2>1. pc' = "restore" /\ Changed
    BY <1>1, <1>3 DEF Store, AfterStore, Changed
  <2>2. QED
    BY <1>1, <1>3, <2>1 DEF PInv, Kept, OldKnown, Elsewhere, NeedsChange, Changed,
       Located, PagesOf, NeedProt
<1>4. QED
  BY <1>2, <1>3

LEMMA RestoreProt ==
  ASSUME PInv, Restore, EInv'
  PROVE  PInv'
<1>1. /\ pc = "restore" /\ Located /\ pc' \in {"section", "reloc"}
      /\ UNCHANGED <<lib, addr, unrestored>> /\ oldProt # NeedProt
  BY AfterFoundFacts DEF Restore, Located, PInv, NeedsChange, input, history
<1>2. \A p \in DOMAIN lib.prot :
        prot'[p] = IF p \in PagesOf(addr) THEN oldProt ELSE prot[p]
  BY SetProtFacts DEF Restore, PInv, EInv, TypeOK
<1>3. \A p \in PagesOf(addr) : oldProt = lib.prot[p]
  BY <1>1 DEF PInv, OldKnown
<1>4. Kept'
  BY <1>1, <1>2, <1>3 DEF PInv, Kept, NeedProt
<1>5. Elsewhere'
  BY <1>1, <1>2, <1>3 DEF PInv, Elsewhere
<1>6. OldKnown' /\ NeedsChange'
  BY <1>1 DEF OldKnown, NeedsChange, Located
<1>7. QED
  BY <1>4, <1>5, <1>6 DEF PInv

LEMMA RestoreFailsProt ==
  ASSUME PInv, RestoreFails, EInv'
  PROVE  PInv'
<1>1. /\ pc = "restore" /\ pc' \in {"section", "reloc"}
      /\ UNCHANGED <<lib, addr, prot>>
      /\ unrestored' = unrestored \cup PagesOf(addr)
  BY AfterFoundFacts DEF RestoreFails, input, memory
<1>2. Kept'
  BY <1>1 DEF PInv, Kept, NeedProt
<1>3. Elsewhere'
  BY <1>1 DEF PInv, Elsewhere
<1>4. OldKnown' /\ NeedsChange'
  BY <1>1 DEF OldKnown, NeedsChange, Located
<1>5. QED
  BY <1>2, <1>3, <1>4 DEF PInv

LEMMA StepPInv ==
  ASSUME StraddleAlike, PInv, ReadsRight, [Next]_vars
  PROVE  PInv'
<1>1. EInv'
  BY StepEInv DEF PInv
<1>2. CASE CheckHeader \/ ElfInit \/ StartHook \/ EndHooks \/ OpenSection \/ Reloc
  <2>1. UNCHANGED <<lib, prot, unrestored>> /\ ~Located /\ ~Located'
    BY <1>2, AfterFoundFacts
    DEF CheckHeader, ElfInit, StartHook, EndHooks, OpenSection, Reloc, Fail,
        Located, input, memory, history
  <2>2. QED
    BY <1>1, <2>1, QuietProt
<1>3. CASE ProtectFails
  <2>1. /\ UNCHANGED <<lib, prot, unrestored>> /\ ~Located' /\ ~Changed
    BY <1>3 DEF ProtectFails, Fail, Located, Changed, input, memory
  <2>2. QED
    BY <1>1, <2>1 DEF PInv, Kept, OldKnown, Elsewhere, NeedsChange, Located, NeedProt
<1>4. CASE UNCHANGED vars
  BY <1>1, <1>4 DEF vars, PInv, Kept, OldKnown, Elsewhere, NeedsChange, Changed,
     Located, PagesOf, NeedProt
<1>5. QED
  BY <1>1, <1>2, <1>3, <1>4, QueryProt, ProtectProt, SaveProt, StoreProt,
     RestoreProt, RestoreFailsProt
  DEF Next

LEMMA PInvRestored == PInv => ProtRestored
<1>1. SUFFICES ASSUME PInv, pc \in {"hook", "section", "reloc", "done"},
                      NEW p \in DOMAIN prot \ unrestored
               PROVE  prot[p] = lib.prot[p]
  BY DEF ProtRestored
<1>2. p \in DOMAIN lib.prot /\ ~Changed
  BY <1>1 DEF PInv, EInv, TypeOK, Changed
<1>3. QED
  BY <1>1, <1>2 DEF PInv, Elsewhere

(***************************************************************************)
(* Between two replacements every page has the permissions that it had at  *)
(* the start, except where restoring them failed: also after a page could  *)
(* not be restored for one pointer and is changed again for another one    *)
(* ("restore the old prot", xh_elf.c:485).  Where a pointer lies on two    *)
(* pages, StraddleAlike is needed: the code keeps one old_prot for both.   *)
(***************************************************************************)
THEOREM ProtComesBack ==
  ASSUME StraddleAlike
  PROVE  Spec /\ []ReadsRight => []ProtRestored
<1>1. Init => PInv
  BY InitPInv
<1>2. PInv /\ ReadsRight /\ [Next]_vars => PInv'
  BY StepPInv
<1>3. PInv => ProtRestored
  BY PInvRestored
<1>4. QED
  BY <1>1, <1>2, <1>3, PTL DEF Spec

-----------------------------------------------------------------------------
\* v is what the library was loaded with for symbol.
Original(l, v, symbol) ==
  \E r \in l.relocs : Binds(r, symbol) /\ v = l.slots[r.at]

\* All hooks of the function m come before those of n.
Precedes(hs, m, n) ==
  \A i, k \in DOMAIN hs : hs[i].new = m /\ hs[k].new = n => i < k

\* v is the function of a hook of the symbol among the first upTo ones, and its
\* *old_func is set.
Chained(hs, o, upTo, v, symbol) ==
  \E i \in 1 .. upTo : hs[i].new = v /\ hs[i].symbol = symbol /\ o[v] # Null

\* A word holds what it did at first, or a function hooked for its symbol.
WordsKnown ==
  \A a \in DOMAIN slots :
    \/ slots[a] = lib.slots[a]
    \/ \E r \in lib.relocs :
         /\ r.at = a /\ Binding(lib, r)
         /\ Chained(hooks, old, h, slots[a], r.symbol)

\* *old_func of a hook of the symbol is the original or comes before the hook.
OldFor(l, hs, o, upTo, n, symbol) ==
  \/ Original(l, o[n], symbol)
  \/ Chained(hs, o, upTo, o[n], symbol) /\ Precedes(hs, o[n], n)

OldsKnown ==
  \A n \in News : old[n] # Null =>
    \E k \in 1 .. h :
      hooks[k].new = n /\ OldFor(lib, hooks, old, h, n, hooks[k].symbol)

\* The word that is replaced does not hold the new function yet, and *old_func
\* is set when it gets it.
Fresh ==
  /\ pc \in {"query", "protect", "save"} => slots[addr] # hooks[h].new
  /\ pc = "store" => old[hooks[h].new] # Null

CInv == EInv /\ WordsKnown /\ OldsKnown /\ Fresh

-----------------------------------------------------------------------------
LEMMA HookAt ==
  ASSUME NEW hs \in Hooks, NEW i \in 1 .. Len(hs)
  PROVE  i \in DOMAIN hs /\ hs[i].new \in News
BY HooksFacts DEF News

(***************************************************************************)
(* A function that was hooked for a symbol before another one that is      *)
(* hooked now comes before it altogether.                                  *)
(***************************************************************************)
LEMMA EarlierPrecedes ==
  ASSUME NoReturn, NEW hs \in Hooks, NEW i \in DOMAIN hs, NEW j \in DOMAIN hs,
         i < j, hs[i].symbol = hs[j].symbol, hs[i].new # hs[j].new
  PROVE  Precedes(hs, hs[i].new, hs[j].new)
<1>1. SUFFICES ASSUME NEW p \in DOMAIN hs, NEW q \in DOMAIN hs,
                      hs[p].new = hs[i].new, hs[q].new = hs[j].new, ~(p < q)
               PROVE  FALSE
  BY DEF Precedes
<1>2. /\ \A x, y \in DOMAIN hs : hs[x].new = hs[y].new => hs[x].symbol = hs[y].symbol
      /\ DOMAIN hs = 1 .. Len(hs) /\ Len(hs) \in Nat
  BY XhElfAssumption DEF XhElfAssumption
<1>3. hs[p].symbol = hs[j].symbol /\ hs[q].symbol = hs[j].symbol
  BY <1>1, <1>2
<1>4. p # q /\ q # i /\ p # j
  BY <1>1
<1>5. q < p
  BY <1>1, <1>2, <1>4
<1>6. CASE q < i
  BY <1>1, <1>3, <1>6 DEF NoReturn
<1>7. CASE i < q
  BY <1>1, <1>3, <1>5, <1>7 DEF NoReturn
<1>8. QED
  BY <1>2, <1>4, <1>6, <1>7

(***************************************************************************)
(* What is known of functions stays known when more hooks are started and  *)
(* when *old_func of a function is set.                                    *)
(***************************************************************************)
LEMMA ChainedStays ==
  ASSUME NEW hs, NEW o, NEW p, NEW m \in Nat, NEW n \in Nat, m <= n,
         NEW v, NEW symbol,
         \A x : o[x] # Null => p[x] # Null,
         Chained(hs, o, m, v, symbol)
  PROVE  Chained(hs, p, n, v, symbol)
<1>1. PICK i \in 1 .. m : hs[i].new = v /\ hs[i].symbol = symbol /\ o[v] # Null
  BY DEF Chained
<1>2. i \in 1 .. n
  OBVIOUS
<1>3. QED
  BY <1>1, <1>2 DEF Chained

LEMMA OldForStays ==
  ASSUME NEW l, NEW hs, NEW o, NEW p, NEW m \in Nat, NEW n \in Nat, m <= n,
         NEW f, NEW symbol,
         \A x : o[x] # Null => p[x] # Null,
         p[f] = o[f],
         OldFor(l, hs, o, m, f, symbol)
  PROVE  OldFor(l, hs, p, n, f, symbol)
BY ChainedStays DEF OldFor

LEMMA InitCInv == Init => CInv
<1> SUFFICES ASSUME Init PROVE CInv
  OBVIOUS
<1>1. EInv
  BY InitEInv
<1>2. WordsKnown /\ Fresh
  BY DEF Init, WordsKnown, Fresh
<1>3. OldsKnown
  BY DEF Init, OldsKnown
<1>4. QED
  BY <1>1, <1>2, <1>3 DEF CInv

(***************************************************************************)
(* What every step leaves of the hooks and of the library.                 *)
(***************************************************************************)
LEMMA SameChoice ==
  ASSUME EInv, [Next]_vars
  PROVE  /\ lib' = lib /\ hooks' = hooks /\ lib \in Libs /\ hooks \in Hooks
         /\ h \in Nat /\ h' \in Nat /\ h <= h' /\ h <= Len(hooks)
         /\ DOMAIN slots' = DOMAIN slots /\ DOMAIN slots = DOMAIN lib.slots
         /\ DOMAIN old = News
<1>1. /\ lib \in Libs /\ hooks \in Hooks /\ h \in Nat /\ h <= Len(hooks)
      /\ DOMAIN slots = DOMAIN lib.slots /\ DOMAIN old = News
  BY HooksFacts DEF EInv, TypeOK, Placed
<1>2. UNCHANGED <<lib, hooks>> /\ h' \in {h, h + 1}
  BY DEF Next, vars, CheckHeader, ElfInit, StartHook, EndHooks, OpenSection,
     Reloc, Query, Protect, ProtectFails, Save, Store, Restore, RestoreFails,
     input, place
<1>3. slots' = slots \/ slots' = [slots EXCEPT ![addr] = hooks[h].new]
  BY DEF Next, vars, CheckHeader, ElfInit, StartHook, EndHooks, OpenSection,
     Reloc, Query, Protect, ProtectFails, Save, Store, Restore, RestoreFails,
     memory
<1>4. QED
  BY <1>1, <1>2, <1>3

(***************************************************************************)
(* Steps that set neither a word nor an *old_func.                         *)
(***************************************************************************)
LEMMA KnownStays ==
  ASSUME EInv, WordsKnown, OldsKnown, [Next]_vars, slots' = slots, old' = old
  PROVE  WordsKnown' /\ OldsKnown'
<1>1. \A x : old[x] # Null => old'[x] # Null
  OBVIOUS
<1>2. WordsKnown'
  <2>1. SUFFICES ASSUME NEW a \in DOMAIN slots, slots[a] # lib.slots[a]
                 PROVE  \E r \in lib.relocs :
                          /\ r.at = a /\ Binding(lib, r)
                          /\ Chained(hooks, old, h', slots[a], r.symbol)
    BY SameChoice DEF WordsKnown
  <2>2. PICK r \in lib.relocs : /\ r.at = a /\ Binding(lib, r)
                                /\ Chained(hooks, old, h, slots[a], r.symbol)
    BY <2>1 DEF WordsKnown
  <2>3. Chained(hooks, old, h', slots[a], r.symbol)
    BY <2>2, SameChoice, ChainedStays
  <2>4. QED
    BY <2>2, <2>3
<1>3. OldsKnown'
  <2>1. SUFFICES ASSUME NEW n \in News, old[n] # Null
                 PROVE  \E k \in 1 .. h' :
                          /\ hooks[k].new = n
                          /\ OldFor(lib, hooks, old, h', n, hooks[k].symbol)
    BY SameChoice DEF OldsKnown
  <2>2. PICK k \in 1 .. h :
          hooks[k].new = n /\ OldFor(lib, hooks, old, h, n, hooks[k].symbol)
    BY <2>1 DEF OldsKnown
  <2>3. OldFor(lib, hooks, old, h', n, hooks[k].symbol)
    BY <2>2, SameChoice, OldForStays
  <2>4. k \in 1 .. h'
    BY SameChoice
  <2>5. QED
    BY <2>2, <2>3, <2>4
<1>4. QED
  BY <1>2, <1>3

(***************************************************************************)
(* A word that is about to be replaced holds the original or a function    *)
(* that was hooked for the same symbol before.                             *)
(***************************************************************************)
LEMMA AddrKnown ==
  ASSUME OneOriginal, EInv, WordsKnown, Replacing
  PROVE  /\ h \in 1 .. Len(hooks) /\ hooks \in Hooks
         /\ addr \in DOMAIN slots
         /\ \E r \in lib.relocs :
              /\ r.at = addr /\ Binding(lib, r) /\ r.symbol = hooks[h].symbol
         /\ \/ /\ Original(lib, slots[addr], hooks[h].symbol)
               /\ slots[addr] \notin News /\ slots[addr] # Null
            \/ Chained(hooks, old, h, slots[addr], hooks[h].symbol)
<1>1. /\ h \in 1 .. Len(hooks) /\ hooks \in Hooks /\ lib \in Libs
      /\ DOMAIN slots = DOMAIN lib.slots
  BY HooksFacts DEF EInv, TypeOK, Placed
<1>2. PICK r \in lib.relocs :
        r.at = addr /\ addr \in DOMAIN lib.slots /\ Binds(r, hooks[h].symbol)
  BY DEF EInv, Sought
<1>3. Binding(lib, r) /\ r.symbol = hooks[h].symbol
  BY <1>2 DEF Binding, Binds
<1>4. CASE slots[addr] = lib.slots[addr]
  <2>1. Original(lib, slots[addr], hooks[h].symbol)
    BY <1>2, <1>4 DEF Original
  <2>2. slots[addr] \notin News /\ slots[addr] # Null
    BY <1>1, <1>2, <1>4, XhElfAssumption DEF OneOriginal, XhElfAssumption
  <2>3. QED
    BY <1>1, <1>2, <1>3, <2>1, <2>2
<1>5. CASE slots[addr] # lib.slots[addr]
  <2>1. PICK s \in lib.relocs : /\ s.at = addr /\ Binding(lib, s)
                                /\ Chained(hooks, old, h, slots[addr], s.symbol)
    BY <1>1, <1>2, <1>5 DEF WordsKnown
  <2>2. s.symbol = r.symbol
    BY <1>1, <1>2, <1>3, <2>1 DEF OneOriginal
  <2>3. QED
    BY <1>1, <1>2, <1>3, <2>1, <2>2
<1>6. QED
  BY <1>4, <1>5

(***************************************************************************)
(* "save old func": the function that the word holds comes before the one  *)
(* that it gets.                                                           *)
(***************************************************************************)
LEMMA SaveKnown ==
  ASSUME OneOriginal, NoReturn, CInv, EInv', Save
  PROVE  CInv'
<1> DEFINE n == hooks[h].new
           f == slots[addr]
<1>1. /\ pc = "save" /\ pc' = "store" /\ Replacing
      /\ UNCHANGED <<lib, hooks, slots, h, addr>>
      /\ old' = [old EXCEPT ![n] = f]
  BY DEF Save, Replacing, input, memory, place
<1>2. /\ h \in 1 .. Len(hooks) /\ hooks \in Hooks /\ f # n
      /\ \/ /\ Original(lib, f, hooks[h].symbol)
            /\ f \notin News /\ f # Null
         \/ Chained(hooks, old, h, f, hooks[h].symbol)
  BY <1>1, AddrKnown DEF CInv, Fresh
<1>3. n \in News /\ h \in DOMAIN hooks /\ DOMAIN old = News /\ h \in Nat
  BY <1>2, HookAt DEF CInv, EInv, TypeOK
<1>4. old'[n] = f /\ \A x : x # n => old'[x] = old[x]
  BY <1>1, <1>3
<1>5. f # Null
  <2>1. CASE Chained(hooks, old, h, f, hooks[h].symbol)
    <3>1. f \in News
      BY <1>2, <2>1, HooksFacts DEF Chained, News
    <3>2. QED
      BY <3>1, XhElfAssumption DEF XhElfAssumption
  <2>2. QED
    BY <1>2, <2>1
<1>6. \A x : old[x] # Null => old'[x] # Null
  BY <1>4, <1>5
<1>7. OldFor(lib, hooks, old', h, n, hooks[h].symbol)
  <2>1. CASE Original(lib, f, hooks[h].symbol)
    BY <1>4, <2>1 DEF OldFor
  <2>2. CASE Chained(hooks, old, h, f, hooks[h].symbol)
    <3>1. PICK i \in 1 .. h : /\ hooks[i].new = f /\ hooks[i].symbol = hooks[h].symbol
                              /\ old[f] # Null
      BY <2>2 DEF Chained
    <3>2. i < h /\ i \in DOMAIN hooks
      BY <1>2, <3>1, HooksFacts
    <3>3. Precedes(hooks, f, n)
      BY <1>2, <1>3, <3>1, <3>2, EarlierPrecedes
    <3>4. Chained(hooks, old', h, f, hooks[h].symbol)
      BY <1>6, <3>1 DEF Chained
    <3>5. QED
      BY <1>4, <3>3, <3>4 DEF OldFor
  <2>3. QED
    BY <1>2, <2>1, <2>2
<1> HIDE DEF n, f
<1>8. OldsKnown'
  <2>1. SUFFICES ASSUME NEW g \in News, old'[g] # Null
                 PROVE  \E k \in 1 .. h :
                          /\ hooks[k].new = g
                          /\ OldFor(lib, hooks, old', h, g, hooks[k].symbol)
    BY <1>1 DEF OldsKnown
  <2>2. CASE g = n
    <3>1. h \in 1 .. h
      BY <1>2
    <3>2. QED
      BY <1>7, <2>2, <3>1 DEF n
  <2>3. CASE g # n
    <3>1. old'[g] = old[g]
      BY <1>4, <2>3
    <3>2. PICK k \in 1 .. h :
            hooks[k].new = g /\ OldFor(lib, hooks, old, h, g, hooks[k].symbol)
      BY <2>1, <3>1 DEF CInv, OldsKnown
    <3>3. OldFor(lib, hooks, old', h, g, hooks[k].symbol)
      BY <1>3, <1>6, <3>1, <3>2, OldForStays
    <3>4. QED
      BY <3>2, <3>3
  <2>4. QED
    BY <2>2, <2>3
<1>9. WordsKnown'
  <2>1. SUFFICES ASSUME NEW a \in DOMAIN slots, slots[a] # lib.slots[a]
                 PROVE  \E r \in lib.relocs :
                          /\ r.at = a /\ Binding(lib, r)
                          /\ Chained(hooks, old', h, slots[a], r.symbol)
    BY <1>1 DEF WordsKnown
  <2>2. PICK r \in lib.relocs : /\ r.at = a /\ Binding(lib, r)
                                /\ Chained(hooks, old, h, slots[a], r.symbol)
    BY <2>1 DEF CInv, WordsKnown
  <2>3. Chained(hooks, old', h, slots[a], r.symbol)
    BY <1>3, <1>6, <2>2, ChainedStays
  <2>4. QED
    BY <2>2, <2>3
<1>10. Fresh'
  BY <1>1, <1>4, <1>5 DEF Fresh, n
<1>11. QED
  BY <1>8, <1>9, <1>10 DEF CInv

(***************************************************************************)
(* "replace func": *old_func is set by then.                               *)
(***************************************************************************)
LEMMA StoreKnown ==
  ASSUME OneOriginal, CInv, EInv', Store
  PROVE  CInv'
<1>1. /\ pc = "store" /\ Replacing
      /\ UNCHANGED <<lib, hooks, old, h, addr>>
      /\ slots' = [slots EXCEPT ![addr] = hooks[h].new]
      /\ pc' \notin {"query", "protect", "save", "store"}
  BY AfterFoundFacts DEF Store, AfterStore, Replacing, input, place
<1>2. /\ addr \in DOMAIN slots /\ h \in 1 .. h
      /\ old[hooks[h].new] # Null
  BY <1>1, AddrKnown DEF CInv, Fresh
<1>3. PICK s \in lib.relocs :
        s.at = addr /\ Binding(lib, s) /\ s.symbol = hooks[h].symbol
  BY <1>1, AddrKnown DEF CInv
<1>4. Chained(hooks, old, h, hooks[h].new, s.symbol)
  BY <1>2, <1>3 DEF Chained
<1>5. WordsKnown'
  <2>1. SUFFICES ASSUME NEW a \in DOMAIN slots
                 PROVE  \/ slots'[a] = lib.slots[a]
                        \/ \E r \in lib.relocs :
                             /\ r.at = a /\ Binding(lib, r)
                             /\ Chained(hooks, old, h, slots'[a], r.symbol)
    BY <1>1 DEF WordsKnown
  <2>2. CASE a = addr
    <3>1. slots'[a] = hooks[h].new
      BY <1>1, <2>2
    <3>2. QED
      BY <1>3, <1>4, <2>2, <3>1
  <2>3. CASE a # addr
    <3>1. slots'[a] = slots[a]
      BY <1>1, <2>3
    <3>2. QED
      BY <3>1 DEF CInv, WordsKnown
  <2>4. QED
    BY <2>2, <2>3
<1>6. OldsKnown'
  BY <1>1 DEF CInv, OldsKnown
<1>7. Fresh'
  BY <1>1 DEF Fresh
<1>8. QED
  BY <1>5, <1>6, <1>7 DEF CInv

(***************************************************************************)
(* The test before a pointer is replaced: one that holds the new function  *)
(* is left alone.                                                          *)
(***************************************************************************)
LEMMA RelocFresh ==
  ASSUME EInv, EInv', Reloc, pc' = "query"
  PROVE  slots'[addr'] # hooks'[h'].new
<1>1. /\ UNCHANGED <<hooks, slots, h>>
      /\ ~Holds(addr', hooks[h].new)
  BY AfterFoundFacts DEF Reloc, Fail, input, memory
<1>2. addr' \in DOMAIN slots'
  BY DEF EInv, Sought, Replacing, TypeOK
<1>3. QED
  BY <1>1, <1>2 DEF Holds

LEMMA FreshStays ==
  ASSUME EInv, EInv', Fresh, [Next]_vars, ~Save, ~Store
  PROVE  Fresh'
<1>1. CASE pc' \notin {"query", "protect", "save", "store"}
  BY <1>1 DEF Fresh
<1>2. CASE Reloc /\ pc' = "query"
  BY <1>2, RelocFresh DEF Fresh
<1>3. CASE Query \/ Protect \/ UNCHANGED vars
  BY <1>3 DEF Query, Protect, Fail, Fresh, vars, input, memory, place
<1>4. QED
  BY <1>1, <1>2, <1>3, AfterFoundFacts
  DEF Next, CheckHeader, ElfInit, StartHook, EndHooks, OpenSection, Reloc,
      ProtectFails, Restore, RestoreFails, Fail

LEMMA StepCInv ==
  ASSUME OneOriginal, NoReturn, CInv, ReadsRight, [Next]_vars
  PROVE  CInv'
<1>1. EInv'
  BY StepEInv DEF CInv
<1>2. CASE ~Save /\ ~Store
  <2>1. slots' = slots /\ old' = old
    BY <1>2 DEF Next, vars, CheckHeader, ElfInit, StartHook, EndHooks,
       OpenSection, Reloc, Query, Protect, ProtectFails, Restore, RestoreFails,
       memory
  <2>2. WordsKnown' /\ OldsKnown'
    BY <2>1, KnownStays DEF CInv
  <2>3. Fresh'
    BY <1>1, <1>2, FreshStays DEF CInv
  <2>4. QED
    BY <1>1, <2>2, <2>3 DEF CInv
<1>3. QED
  BY <1>1, <1>2, SaveKnown, StoreKnown

-----------------------------------------------------------------------------
(***************************************************************************)
(* Going from function to *old_func, the hooks come ever earlier.          *)
(***************************************************************************)
LEMMA CInvCallsEnd ==
  ASSUME OneOriginal, CInv
  PROVE  CallsEnd
<1>1. SUFFICES ASSUME NEW a \in DOMAIN slots, slots[a] # lib.slots[a]
               PROVE  Reaches(slots[a], lib.slots[a])
  BY DEF CallsEnd, Reaches
<1>2. /\ lib \in Libs /\ hooks \in Hooks /\ h \in Nat /\ h <= Len(hooks)
      /\ DOMAIN hooks = 1 .. Len(hooks) /\ Len(hooks) \in Nat
  BY HooksFacts DEF CInv, EInv, TypeOK, Placed
<1>3. PICK r \in lib.relocs : /\ r.at = a /\ Binding(lib, r)
                              /\ Chained(hooks, old, h, slots[a], r.symbol)
  BY <1>1 DEF CInv, WordsKnown
<1>4. \A i \in 1 .. h : i \in DOMAIN hooks /\ hooks[i].new \in News
  BY <1>2, HookAt
<1>5. slots[a] \in News
  BY <1>3, <1>4 DEF Chained
<1>6. SUFFICES ASSUME NEW F \in ClosedFrom(slots[a])
               PROVE  \E n \in F : old[n] = lib.slots[a]
  BY <1>5 DEF Reaches
<1>7. /\ F \subseteq News /\ slots[a] \in F
      /\ \A n \in F : old[n] \in News => old[n] \in F
  BY <1>6 DEF ClosedFrom
<1> DEFINE T == {i \in 1 .. h : /\ hooks[i].new \in F /\ hooks[i].symbol = r.symbol
                                /\ old[hooks[i].new] # Null}
<1>8. PICK i \in T : \A j \in T : i <= j
  <2>1. T \subseteq Nat /\ T # {}
    BY <1>3, <1>7 DEF Chained
  <2> HIDE DEF T
  <2>2. QED
    BY <2>1, Least
<1> DEFINE n == hooks[i].new
<1>9. /\ i \in 1 .. h /\ n \in F /\ n \in News /\ hooks[i].symbol = r.symbol
      /\ old[n] # Null
  BY <1>7, <1>8
<1>10. PICK k \in 1 .. h :
         hooks[k].new = n /\ OldFor(lib, hooks, old, h, n, hooks[k].symbol)
  BY <1>9 DEF CInv, OldsKnown
<1>11. hooks[k].symbol = r.symbol
  BY <1>2, <1>4, <1>9, <1>10, XhElfAssumption DEF XhElfAssumption
<1>12. ~(Chained(hooks, old, h, old[n], r.symbol) /\ Precedes(hooks, old[n], n))
  <2>1. SUFFICES ASSUME NEW j \in 1 .. h, hooks[j].new = old[n],
                        hooks[j].symbol = r.symbol, old[old[n]] # Null,
                        Precedes(hooks, old[n], n)
                 PROVE  FALSE
    BY DEF Chained
  <2>2. j \in T
    BY <1>4, <1>7, <1>9, <2>1
  <2>3. j < i
    BY <1>4, <1>9, <2>1 DEF Precedes
  <2> HIDE DEF T
  <2>4. QED
    BY <1>2, <1>8, <1>9, <2>2, <2>3
<1>13. Original(lib, old[n], r.symbol)
  BY <1>10, <1>11, <1>12 DEF OldFor
<1>14. old[n] = lib.slots[a]
  <2>1. PICK s \in lib.relocs : Binds(s, r.symbol) /\ old[n] = lib.slots[s.at]
    BY <1>13 DEF Original
  <2>2. Binding(lib, s) /\ s.symbol = r.symbol
    BY <2>1 DEF Binding, Binds
  <2>3. QED
    BY <1>2, <1>3, <2>1, <2>2 DEF OneOriginal
<1>15. QED
  BY <1>9, <1>14

(***************************************************************************)
(* Whenever another thread calls through a pointer of the library, while   *)
(* hooks are made and fail in any order, the call ends in the function     *)
(* that the pointer was loaded with ("save old func" before "replace       *)
(* func", xh_elf.c:476-481).  OneOriginal is needed as *old_func is one    *)
(* for all pointers of a symbol, and NoReturn as a function that is hooked *)
(* again after another one would be called by the one that it calls.       *)
(***************************************************************************)
THEOREM CallsAlwaysEnd ==
  ASSUME OneOriginal, NoReturn
  PROVE  Spec /\ []ReadsRight => []CallsEnd
<1>1. Init => CInv
  BY InitCInv
<1>2. CInv /\ ReadsRight /\ [Next]_vars => CInv'
  BY StepCInv
<1>3. CInv => CallsEnd
  BY CInvCallsEnd
<1>4. QED
  BY <1>1, <1>2, <1>3, PTL DEF Spec

-----------------------------------------------------------------------------
\* f follows next from each member of D to one where it stops.
Search(f, D, stops, value, next) ==
  f = [i \in D |-> IF i \in stops THEN value[i] ELSE f[next[i]]]

\* There is no end to following next only where rank does not decrease.
ComesToEnd(D, stops, next, rank) ==
  /\ rank \in [D -> Nat]
  /\ \A i \in D : i \notin stops => next[i] \in D /\ rank[next[i]] < rank[i]

(***************************************************************************)
(* A search that comes to an end from everywhere is a function.            *)
(***************************************************************************)
LEMMA SearchBelow ==
  ASSUME NEW D, NEW stops, NEW value, NEW next, NEW rank,
         ComesToEnd(D, stops, next, rank),
         NEW n \in Nat, NEW E, E = {i \in D : rank[i] < n}
  PROVE  \E f : Search(f, E, stops, value, next)
<1> DEFINE Below(m) == {i \in D : rank[i] < m}
           T == {m \in Nat : ~\E f : Search(f, Below(m), stops, value, next)}
<1>1. SUFFICES ASSUME T # {} PROVE FALSE
  OBVIOUS
<1>2. PICK m \in T : \A j \in T : m <= j
  <2>1. T \in SUBSET Nat
    OBVIOUS
  <2> HIDE DEF T
  <2>2. QED
    BY <1>1, <2>1, Least
<1>3. m \in Nat /\ ~\E f : Search(f, Below(m), stops, value, next)
  OBVIOUS
<1>4. m # 0
  <2>1. SUFFICES ASSUME m = 0 PROVE FALSE
    OBVIOUS
  <2>2. Below(m) = {}
    BY <2>1 DEF ComesToEnd
  <2>3. Search([i \in {} |-> i], {}, stops, value, next)
    BY DEF Search
  <2>4. QED
    BY <1>3, <2>2, <2>3
<1>5. m - 1 \in Nat /\ m - 1 \notin T
  <2>1. m - 1 \in Nat /\ ~(m <= m - 1)
    BY <1>3, <1>4
  <2> HIDE DEF T
  <2>2. QED
    BY <1>2, <2>1
<1>6. PICK g : Search(g, Below(m - 1), stops, value, next)
  BY <1>5
<1> DEFINE f == [i \in Below(m) |-> IF i \in stops THEN value[i] ELSE g[next[i]]]
<1>7. \A i \in Below(m) : i \notin stops => next[i] \in Below(m - 1) /\ next[i] \in Below(m)
  BY <1>3 DEF ComesToEnd
<1>8. \A i \in Below(m - 1) : f[i] = g[i]
  <2>1. TAKE i \in Below(m - 1)
  <2>2. i \in Below(m)
    BY <1>3 DEF ComesToEnd
  <2>3. g[i] = IF i \in stops THEN value[i] ELSE g[next[i]]
    BY <1>6 DEF Search
  <2>4. QED
    BY <2>2, <2>3
<1>9. \A i \in Below(m) : i \notin stops => f[next[i]] = g[next[i]]
  <2> HIDE DEF f
  <2>1. QED
    BY <1>7, <1>8
<1>10. f = [i \in Below(m) |-> IF i \in stops THEN value[i] ELSE f[next[i]]]
  BY <1>9
<1>11. Search(f, Below(m), stops, value, next)
  BY <1>10 DEF Search
<1>12. QED
  BY <1>3, <1>11

LEMMA SearchExists ==
  ASSUME NEW D, NEW stops, NEW value, NEW next, NEW rank, NEW top \in Nat,
         ComesToEnd(D, stops, next, rank), \A i \in D : rank[i] <= top
  PROVE  \E f : Search(f, D, stops, value, next)
<1>1. PICK n \in Nat : n = top + 1
  OBVIOUS
<1>2. D = {i \in D : rank[i] < n}
  BY <1>1 DEF ComesToEnd
<1>3. QED
  BY <1>2, SearchBelow

(***************************************************************************)
(* What it gives is the value at a place where it stops.                   *)
(***************************************************************************)
LEMMA SearchGives ==
  ASSUME NEW D, NEW stops, NEW value, NEW next, NEW rank, NEW f,
         ComesToEnd(D, stops, next, rank), Search(f, D, stops, value, next),
         NEW i \in D
  PROVE  \E j \in D : j \in stops /\ f[i] = value[j]
<1> DEFINE Right(x) == \E j \in D : j \in stops /\ f[x] = value[j]
           T == {n \in Nat : \E x \in D : rank[x] = n /\ ~Right(x)}
<1>1. SUFFICES ASSUME ~Right(i) PROVE FALSE
  OBVIOUS
<1>2. rank[i] \in T
  BY <1>1 DEF ComesToEnd
<1>3. PICK n \in T : \A m \in T : n <= m
  <2>1. T \in SUBSET Nat
    OBVIOUS
  <2> HIDE DEF T
  <2>2. QED
    BY <1>2, <2>1, Least
<1>4. PICK x \in D : rank[x] = n /\ ~Right(x)
  BY <1>3
<1>5. f[x] = IF x \in stops THEN value[x] ELSE f[next[x]]
  BY DEF Search
<1>6. x \notin stops
  BY <1>4, <1>5
<1>7. next[x] \in D /\ rank[next[x]] < n /\ rank[next[x]] \in Nat
  BY <1>4, <1>6 DEF ComesToEnd
<1>8. ~Right(next[x])
  BY <1>4, <1>5, <1>6
<1>9. rank[next[x]] \in T
  BY <1>7, <1>8
<1>10. QED
  BY <1>3, <1>7, <1>9

\* got is the index of the symbol, or NotFound if it has none.
Finds(names, symbol, got) ==
  LET found == {i \in DOMAIN names : names[i] = symbol} IN
  IF found = {} THEN got = NotFound ELSE got \in found

SysvSearch(f, table, names, symbol) ==
  f = [i \in DOMAIN names |->
        IF i = 0 THEN NotFound
        ELSE IF names[i] = symbol THEN i ELSE f[table.chain[i]]]

LEMMA SysvLookupSearches ==
  ASSUME NEW table, NEW names, NEW symbol
  PROVE  SysvLookup(table, names, symbol) =
           (CHOOSE f : SysvSearch(f, table, names, symbol))
             [table.bucket[SysvHash[symbol] % table.buckets]]
BY DEF SysvLookup, SysvSearch

LEMMA SysvFound ==
  ASSUME NEW table, NEW names, NEW symbol, Numbered(names),
         SysvRight(table, names), SysvHash[symbol] \in Nat, symbol # names[0]
  PROVE  Finds(names, symbol, SysvLookup(table, names, symbol))
<1> DEFINE D == DOMAIN names
           top == Cardinality(D)
           chain == table.chain
           stops == {i \in D : i = 0 \/ names[i] = symbol}
           value == [i \in D |-> IF i = 0 THEN NotFound ELSE i]
           BucketOf(i) == SysvHash[names[i]] % table.buckets
           bucket == SysvHash[symbol] % table.buckets
           first == table.bucket[bucket]
<1>1. /\ top \in Nat /\ D \subseteq Nat
      /\ table.buckets \in Nat \ {0} /\ bucket \in 0 .. table.buckets - 1
      /\ first \in D
  <2>1. top \in Nat /\ D \subseteq Nat
    BY DEF Numbered
  <2>2. /\ table.buckets \in Nat \ {0}
        /\ \A b \in 0 .. table.buckets - 1 : table.bucket[b] \in D
    BY DEF SysvRight
  <2>3. bucket \in 0 .. table.buckets - 1
    BY <2>2
  <2>4. QED
    BY <2>1, <2>2, <2>3
<1>2. PICK rank \in [D -> 0 .. top] :
        \A i \in D \ {0} : chain[i] \in D /\ rank[chain[i]] < rank[i]
  BY DEF SysvRight
<1>3. ComesToEnd(D, stops, chain, rank) /\ \A i \in D : rank[i] <= top
  <2>1. rank \in [D -> Nat] /\ \A i \in D : rank[i] <= top
    BY <1>1, <1>2
  <2>2. \A i \in D : i \notin stops => chain[i] \in D /\ rank[chain[i]] < rank[i]
    BY <1>2
  <2> HIDE DEF D, stops, chain
  <2>3. QED
    BY <2>1, <2>2 DEF ComesToEnd
<1>4. ASSUME NEW f
      PROVE  Search(f, D, stops, value, chain) <=> SysvSearch(f, table, names, symbol)
  BY DEF Search, SysvSearch
<1>5. \E f : SysvSearch(f, table, names, symbol)
  <2>1. \E f : Search(f, D, stops, value, chain)
    BY <1>1, <1>3, SearchExists
  <2>2. QED
    BY <1>4, <2>1
<1>6. PICK f : /\ SysvSearch(f, table, names, symbol)
               /\ SysvLookup(table, names, symbol) = f[first]
  BY <1>5, SysvLookupSearches
<1>7. Search(f, D, stops, value, chain)
  BY <1>4, <1>6
<1>8. PICK j \in D : j \in stops /\ f[first] = value[j]
  BY <1>1, <1>3, <1>7, SearchGives
<1>9. f[first] = NotFound \/ (f[first] \in D /\ names[f[first]] = symbol)
  BY <1>8
<1>10. ASSUME NEW i \in D, names[i] = symbol
       PROVE  f[first] # NotFound
  <2> DEFINE S == {n \in Nat : \E x \in D \ {0} : /\ BucketOf(x) = bucket
                                                  /\ f[x] # NotFound
                                                  /\ n = top - rank[x]}
  <2>1. \A x \in D \ {0} : f[x] = IF names[x] = symbol THEN x ELSE f[chain[x]]
    BY <1>6 DEF SysvSearch
  <2>2. i # 0 /\ BucketOf(i) = bucket /\ f[i] # NotFound
    <3>1. i # 0
      BY <1>10
    <3>2. f[i] = i
      BY <1>10, <2>1, <3>1
    <3>3. QED
      BY <1>1, <1>10, <3>1, <3>2, XhElfAssumption DEF XhElfAssumption
  <2>3. top - rank[i] \in S
    BY <1>1, <1>2, <2>2
  <2>4. PICK n \in S : \A m \in S : n <= m
    <3>1. S \in SUBSET Nat
      OBVIOUS
    <3> HIDE DEF S
    <3>2. QED
      BY <2>3, <3>1, Least
  <2>5. PICK x \in D \ {0} : /\ BucketOf(x) = bucket /\ f[x] # NotFound
                             /\ n = top - rank[x]
    BY <2>4
  <2>6. CASE first = x
    BY <2>5, <2>6
  <2>7. CASE first # x
    <3>1. PICK y \in D \ {0} : chain[y] = x /\ BucketOf(y) = bucket
      BY <2>5, <2>7 DEF SysvRight
    <3>2. f[y] # NotFound
      BY <1>1, <2>1, <2>5, <3>1, XhElfAssumption DEF XhElfAssumption
    <3>3. rank[x] < rank[y] /\ rank[y] \in 0 .. top /\ rank[x] \in 0 .. top
      BY <1>2, <3>1
    <3>4. top - rank[y] \in S
      BY <1>1, <3>1, <3>2, <3>3
    <3>5. n <= top - rank[y]
      <4> HIDE DEF S
      <4>1. QED
        BY <2>4, <3>4
    <3>6. QED
      BY <1>1, <2>5, <3>3, <3>5
  <2>8. QED
    BY <2>6, <2>7
<1>11. QED
  BY <1>6, <1>9, <1>10 DEF Finds

GnuSearch(f, table, names, symbol) ==
  f = [i \in DOMAIN names |->
        IF /\ SameHash(GnuHash[symbol], table.chain[i - table.symoffset])
           /\ names[i] = symbol
        THEN i
        ELSE IF table.chain[i - table.symoffset] % 2 = 1 THEN NotFound
             ELSE f[i + 1]]

LEMMA GnuLookupSearches ==
  ASSUME NEW table, NEW names, NEW symbol
  PROVE  LET value == GnuHash[symbol]
             first == table.bucket[value % table.buckets]
         IN  GnuLookupDefined(table, names, symbol) =
               IF \/ ~(BloomBits(table, value)
                         \subseteq table.bloom[(value \div WordBits) % table.bloomSize])
                  \/ first < table.symoffset
               THEN NotFound
               ELSE (CHOOSE f : GnuSearch(f, table, names, symbol))[first]
BY DEF GnuLookupDefined, GnuSearch

\* The search goes up to the end of a bucket.
LEMMA GnuSearchEnds ==
  ASSUME NEW table, NEW names, NEW symbol, Numbered(names),
         GnuRight(table, names), table.symoffset < Cardinality(DOMAIN names)
  PROVE  /\ \E f : GnuSearch(f, table, names, symbol)
         /\ \A f : GnuSearch(f, table, names, symbol) =>
              \A i \in DOMAIN names :
                \/ f[i] = NotFound
                \/ f[i] \in DOMAIN names /\ names[f[i]] = symbol
<1> DEFINE D == DOMAIN names
           last == Cardinality(D) - 1
           Match(i) == /\ SameHash(GnuHash[symbol], table.chain[i - table.symoffset])
                       /\ names[i] = symbol
           Odd(i) == table.chain[i - table.symoffset] % 2 = 1
           stops == {i \in D : Match(i) \/ Odd(i)}
           value == [i \in D |-> IF Match(i) THEN i ELSE NotFound]
           next == [i \in D |-> i + 1]
           rank == [i \in D |-> last - i]
<1>1. last \in Nat /\ D = 0 .. last /\ Cardinality(D) \in Nat
  <2>1. Cardinality(D) \in Nat /\ D = 0 .. Cardinality(D) - 1
    BY DEF Numbered
  <2>2. table.symoffset \in 0 .. last + 1
    BY DEF GnuRight
  <2>3. QED
    BY <2>1, <2>2
<1>2. Odd(last)
  <2>1. table.symoffset <= last
    <3>1. table.symoffset \in 0 .. last + 1
      BY DEF GnuRight
    <3>2. QED
      BY <1>1, <3>1
  <2>2. QED
    BY <2>1 DEF GnuRight
<1>3. ComesToEnd(D, stops, next, rank) /\ \A i \in D : rank[i] <= last
  <2>1. rank \in [D -> Nat] /\ \A i \in D : rank[i] <= last
    BY <1>1
  <2>2. ASSUME NEW i \in D, i \notin stops
        PROVE  next[i] \in D /\ rank[next[i]] < rank[i]
    <3>1. i # last
      <4>1. ~Odd(i)
        BY <2>2
      <4> HIDE DEF Odd
      <4>2. QED
        BY <1>2, <4>1
    <3>2. next[i] = i + 1 /\ i + 1 \in D
      BY <1>1, <3>1
    <3>3. rank[i + 1] = last - (i + 1) /\ rank[i] = last - i
      BY <3>2
    <3>4. QED
      BY <1>1, <3>2, <3>3
  <2> HIDE DEF D, stops, next, rank
  <2>3. QED
    BY <2>1, <2>2 DEF ComesToEnd
<1>4. ASSUME NEW f
      PROVE  Search(f, D, stops, value, next) <=> GnuSearch(f, table, names, symbol)
  <2> DEFINE F == [i \in D |-> IF i \in stops THEN value[i] ELSE f[next[i]]]
             G == [i \in D |-> IF Match(i) THEN i
                               ELSE IF Odd(i) THEN NotFound ELSE f[i + 1]]
  <2>1. ASSUME NEW i \in D
        PROVE  F[i] = G[i]
    <3> HIDE DEF Match, Odd
    <3>1. CASE Match(i)
      BY <3>1
    <3>2. CASE ~Match(i) /\ Odd(i)
      BY <3>2
    <3>3. CASE ~Match(i) /\ ~Odd(i)
      BY <3>3
    <3>4. QED
      BY <3>1, <3>2, <3>3
  <2>2. F = G
    BY <2>1
  <2>3. Search(f, D, stops, value, next) <=> f = F
    BY DEF Search
  <2>4. GnuSearch(f, table, names, symbol) <=> f = G
    BY DEF GnuSearch
  <2>5. QED
    BY <2>2, <2>3, <2>4
<1>5. \E f : GnuSearch(f, table, names, symbol)
  <2>1. \E f : Search(f, D, stops, value, next)
    <3> HIDE DEF D, stops, value, next, rank
    <3>1. QED
      BY <1>1, <1>3, SearchExists
  <2>2. QED
    BY <1>4, <2>1
<1>6. ASSUME NEW f, GnuSearch(f, table, names, symbol), NEW i \in D
      PROVE  \/ f[i] = NotFound
             \/ f[i] \in D /\ names[f[i]] = symbol
  <2>1. Search(f, D, stops, value, next)
    BY <1>4, <1>6
  <2>2. PICK j \in D : j \in stops /\ f[i] = value[j]
    <3> HIDE DEF D, stops, value, next, rank
    <3>1. QED
      BY <1>3, <1>6, <2>1, SearchGives
  <2>3. CASE Match(j)
    <3>1. f[i] = j
      BY <2>2, <2>3
    <3>2. QED
      BY <2>3, <3>1
  <2>4. CASE ~Match(j)
    BY <2>2, <2>4
  <2>5. QED
    BY <2>3, <2>4
<1>7. QED
  BY <1>5, <1>6

LEMMA GnuDefinedFound ==
  ASSUME NEW table, NEW names, NEW symbol, Numbered(names),
         GnuRight(table, names), GnuHash[symbol] \in Nat,
         NEW got, got = GnuLookupDefined(table, names, symbol)
  PROVE  /\ \/ got = NotFound
            \/ got \in DOMAIN names /\ names[got] = symbol
         /\ \A i \in DOMAIN names :
              names[i] = symbol /\ table.symoffset <= i => got # NotFound
<1> DEFINE D == DOMAIN names
           last == Cardinality(D) - 1
           value == GnuHash[symbol]
           first == table.bucket[value % table.buckets]
           passes == BloomBits(table, value)
                       \subseteq table.bloom[(value \div WordBits) % table.bloomSize]
<1>1. /\ Cardinality(D) \in Nat /\ D = 0 .. last /\ last \in Int
      /\ table.symoffset \in 0 .. last + 1 /\ first \in 0 .. last
  <2>1. Cardinality(D) \in Nat /\ D = 0 .. last /\ last \in Int
    BY DEF Numbered
  <2>2. /\ table.buckets \in Nat \ {0} /\ table.symoffset \in 0 .. last + 1
        /\ \A b \in 0 .. table.buckets - 1 : table.bucket[b] \in 0 .. last
    BY DEF GnuRight
  <2>3. value % table.buckets \in 0 .. table.buckets - 1
    BY <2>2
  <2>4. QED
    BY <2>1, <2>2, <2>3
<1>2. CASE ~passes \/ first < table.symoffset
  <2>1. got = NotFound
    BY <1>2, GnuLookupSearches
  <2>2. ASSUME NEW i \in D, names[i] = symbol, table.symoffset <= i
        PROVE  FALSE
    <3>1. i \in table.symoffset .. last
      BY <1>1, <2>2
    <3>2. /\ BloomBits(table, GnuHash[names[i]])
               \subseteq table.bloom[(GnuHash[names[i]] \div WordBits) % table.bloomSize]
          /\ table.bucket[GnuHash[names[i]] % table.buckets] \in table.symoffset .. i
      BY <3>1 DEF GnuRight
    <3>3. passes /\ first \in table.symoffset .. i
      BY <2>2, <3>2
    <3>4. QED
      BY <1>1, <1>2, <3>3
  <2>3. QED
    BY <2>1, <2>2
<1>3. CASE passes /\ ~(first < table.symoffset)
  <2>1. table.symoffset < Cardinality(D) /\ first \in D
    BY <1>1, <1>3
  <2>2. PICK f : GnuSearch(f, table, names, symbol) /\ got = f[first]
    BY <1>3, <2>1, GnuLookupSearches, GnuSearchEnds
  <2>3. got = NotFound \/ (got \in D /\ names[got] = symbol)
    BY <2>1, <2>2, GnuSearchEnds
  <2>4. ASSUME NEW i \in D, names[i] = symbol, table.symoffset <= i
        PROVE  f[first] # NotFound
    <3> DEFINE Stored(x) == table.chain[x - table.symoffset]
               S == {x \in first .. i : f[x] # NotFound}
    <3>1. i \in table.symoffset .. last
      BY <1>1, <2>4
    <3>2. /\ first \in table.symoffset .. i /\ SameHash(value, Stored(i))
          /\ \A x \in first .. i - 1 : Stored(x) % 2 # 1
      <4>1. LET v == GnuHash[names[i]]
                b == table.bucket[v % table.buckets]
            IN  /\ b \in table.symoffset .. i
                /\ \A x \in b .. i - 1 : Stored(x) % 2 # 1
                /\ SameHash(v, Stored(i))
        BY <3>1 DEF GnuRight
      <4>2. QED
        BY <2>4, <4>1
    <3>3. \A x \in D : f[x] = IF SameHash(value, Stored(x)) /\ names[x] = symbol THEN x
                              ELSE IF Stored(x) % 2 = 1 THEN NotFound ELSE f[x + 1]
      BY <2>2 DEF GnuSearch
    <3>4. f[i] = i
      BY <2>4, <3>2, <3>3
    <3>5. i \in S
      BY <1>1, <3>2, <3>4, XhElfAssumption DEF XhElfAssumption
    <3>6. PICK x \in S : \A y \in S : x <= y
      <4>1. S \in SUBSET Nat
        BY <1>1
      <4> HIDE DEF S
      <4>2. QED
        BY <3>5, <4>1, Least
    <3>7. x \in first .. i /\ f[x] # NotFound
      OBVIOUS
    <3>8. CASE x # first
      <4>1. PICK y \in first .. i - 1 : x = y + 1
        BY <1>1, <3>7, <3>8
      <4>2. y \in D /\ y \in first .. i /\ ~(x <= y)
        BY <1>1, <4>1
      <4>3. f[y] = y \/ f[y] = f[x]
        BY <3>2, <3>3, <4>1, <4>2
      <4>4. f[y] # NotFound
        BY <1>1, <3>7, <4>2, <4>3, XhElfAssumption DEF XhElfAssumption
      <4>5. y \in S
        BY <4>2, <4>4
      <4> HIDE DEF S
      <4>6. QED
        BY <3>6, <4>2, <4>5
    <3>9. QED
      BY <3>7, <3>8
  <2>5. QED
    BY <2>2, <2>3, <2>4
<1>4. QED
  BY <1>2, <1>3

LEMMA GnuFound ==
  ASSUME NEW table, NEW names, NEW symbol, Numbered(names),
         GnuRight(table, names), GnuHash[symbol] \in Nat
  PROVE  Finds(names, symbol, GnuLookup(table, names, symbol))
<1> DEFINE D == DOMAIN names
           got == GnuLookupDefined(table, names, symbol)
           found == {i \in 0 .. table.symoffset - 1 : names[i] = symbol}
<1>1. /\ got = NotFound \/ (got \in D /\ names[got] = symbol)
      /\ \A i \in D : names[i] = symbol /\ table.symoffset <= i => got # NotFound
  BY GnuDefinedFound
<1>2. CASE got # NotFound
  <2>1. GnuLookup(table, names, symbol) = got
    BY <1>2 DEF GnuLookup
  <2> HIDE DEF got
  <2>2. QED
    BY <1>1, <1>2, <2>1 DEF Finds
<1>3. CASE got = NotFound
  <2>1. GnuLookup(table, names, symbol) = IF found = {} THEN NotFound ELSE Min(found)
    BY <1>3 DEF GnuLookup, GnuLookupUndefined
  <2>2. {i \in D : names[i] = symbol} = found
    <3>1. Cardinality(D) \in Nat /\ D = 0 .. Cardinality(D) - 1
      BY DEF Numbered
    <3>2. table.symoffset \in 0 .. Cardinality(D)
      <4>1. table.symoffset \in 0 .. (Cardinality(D) - 1) + 1
        BY DEF GnuRight
      <4>2. QED
        BY <3>1, <4>1
    <3>3. ASSUME NEW i \in D, names[i] = symbol
          PROVE  i \in 0 .. table.symoffset - 1
      <4>1. ~(table.symoffset <= i)
        <5> HIDE DEF got
        <5>1. QED
          BY <1>1, <1>3, <3>3
      <4>2. QED
        BY <3>1, <3>2, <4>1
    <3>4. 0 .. table.symoffset - 1 \subseteq D
      BY <3>1, <3>2
    <3>5. QED
      BY <3>3, <3>4
  <2>3. CASE found # {}
    <3>1. PICK n \in found : \A m \in found : n <= m
      <4>1. found \in SUBSET Nat
        BY DEF GnuRight
      <4> HIDE DEF found
      <4>2. QED
        BY <2>3, <4>1, Least
    <3>2. Min(found) \in found
      <4> HIDE DEF found
      <4>1. QED
        BY <3>1 DEF Min
    <3> HIDE DEF found
    <3>3. QED
      BY <2>1, <2>2, <2>3, <3>2 DEF Finds
  <2>4. CASE found = {}
    <3> HIDE DEF found
    <3>1. QED
      BY <2>1, <2>2, <2>4 DEF Finds
  <2>5. QED
    BY <2>3, <2>4
<1>4. QED
  BY <1>2, <1>3

LEMMA LookupRight ==
  ASSUME NEW l, NEW read, HashRight(l, read), NEW hs \in Hooks, NEW k \in DOMAIN hs
  PROVE  Finds(l.names, hs[k].symbol, FindSymidx(l, read, hs[k].symbol))
<1> DEFINE symbol == hs[k].symbol
           table == l.tables[read.hash]
           names == l.tables[read.symtab]
<1>1. /\ names = l.names /\ Numbered(names) /\ symbol # names[0]
      /\ IF read.gnu THEN GnuRight(table, names) ELSE SysvRight(table, names)
  BY DEF HashRight
<1>2. SysvHash[symbol] \in Nat /\ GnuHash[symbol] \in Nat
  BY XhElfAssumption DEF XhElfAssumption
<1>3. CASE read.gnu
  <2>1. Finds(names, symbol, GnuLookup(table, names, symbol))
    BY <1>1, <1>2, <1>3, GnuFound
  <2>2. QED
    BY <1>1, <1>3, <2>1 DEF FindSymidx
<1>4. CASE ~read.gnu
  <2>1. Finds(names, symbol, SysvLookup(table, names, symbol))
    BY <1>1, <1>2, <1>4, SysvFound
  <2>2. QED
    BY <1>1, <1>4, <2>1 DEF FindSymidx
<1>5. QED
  BY <1>3, <1>4

-----------------------------------------------------------------------------
SizeOf(read, s) == IF s = "plt" THEN read.pltSize ELSE read.dynSize

\* The iterator of a plain section has returned m relocations.
PlainAt(read, s, it, m) ==
  it = [at |-> read[s], cur |-> m * Stride(read.rela), end |-> SizeOf(read, s)]

LEMMA PlainStep ==
  ASSUME NEW l, NEW read, NEW s, SizeOf(read, s) \in Nat,
         NEW it, NEW m \in Nat, PlainAt(read, s, it, m),
         NEW rel, rel = PlainNext(l, read.rela, it)
  PROVE  LET list == PlainList(l, read, s) IN
         /\ rel.ok => /\ m + 1 \in DOMAIN list
                      /\ rel.offset = list[m + 1].offset
                      /\ rel.info = list[m + 1].info
                      /\ PlainAt(read, s, rel.iter, m + 1)
         /\ ~rel.ok => \A k \in DOMAIN list : k <= m
<1> DEFINE size == SizeOf(read, s)
           stride == Stride(read.rela)
           list == PlainList(l, read, s)
           words == l.tables[read[s]]
           count == (size + stride - 1) \div stride
<1>1. /\ DOMAIN list = 1 .. count
      /\ \A k \in 1 .. count :
           list[k] = [offset |-> Word(words, (k - 1) * stride + 1),
                      info |-> Word(words, (k - 1) * stride + 2)]
  BY DEF PlainList, SizeOf
<1>2. /\ rel.ok <=> m * stride < size
      /\ rel.offset = Word(words, m * stride + 1)
      /\ rel.info = Word(words, m * stride + 2)
      /\ rel.iter = [at |-> read[s], cur |-> m * stride + stride, end |-> size]
  BY DEF PlainAt, PlainNext
<1>3. /\ m * stride < size <=> m + 1 <= count
      /\ count \in Nat
      /\ m * stride + stride = (m + 1) * stride
  <2>1. CASE stride = 2
    BY <2>1
  <2>2. CASE stride = 3
    BY <2>2
  <2>3. QED
    BY <2>1, <2>2 DEF Stride
<1>4. CASE rel.ok
  <2>1. m + 1 \in 1 .. count /\ (m + 1) - 1 = m
    BY <1>2, <1>3, <1>4
  <2>2. list[m + 1] = [offset |-> rel.offset, info |-> rel.info]
    BY <1>1, <1>2, <2>1
  <2>3. QED
    BY <1>1, <1>2, <1>3, <1>4, <2>1, <2>2 DEF PlainAt
<1>5. CASE ~rel.ok
  BY <1>1, <1>2, <1>3, <1>5
<1>6. QED
  BY <1>4, <1>5

-----------------------------------------------------------------------------
PackedFields == {"vals", "pos", "ok", "count", "offset", "index", "size",
                 "groupIndex", "flags", "delta", "info", "addend"}

\* The iterator has returned i relocations of the group.
Within(it, values, rela, group, i) ==
  LET flags == group.flags IN
  /\ it.size = group.size /\ it.flags = flags /\ it.groupIndex = i
  /\ it.pos = group.at + 2 + Shared(flags) + i * Own(flags, rela)
  /\ ByDelta(flags) => it.delta = values[group.at + 2]
  /\ ByInfo(flags) => it.info = values[group.at + 2 + If(ByDelta(flags))]

Before(packed, m) == IF m = 0 THEN packed.values[2] ELSE packed.list[m].offset

LEMMA Ifs ==
  ASSUME NEW flags, NEW rela
  PROVE  /\ Own(flags, rela) \in 0 .. 3 /\ Shared(flags) \in 0 .. 3
         /\ \A b : If(b) \in 0 .. 1
BY DEF Own, Shared, If

LEMMA GroupFacts ==
  ASSUME NEW packed, NEW rela, PackedRight(packed, rela),
         NEW n \in DOMAIN packed.groups
  PROVE  LET g == packed.groups[n] IN
         /\ g.at \in Nat \ {0} /\ g.from \in Nat /\ g.size \in Nat \ {0}
         /\ GroupEnd(g, rela) - 1 <= Len(packed.values)
         /\ packed.values[g.at] = g.size /\ packed.values[g.at + 1] = g.flags
         /\ HasAddend(g.flags) /\ ByAddend(g.flags) => rela
         /\ g.from + g.size <= Len(packed.list)
         /\ \A i \in 1 .. g.size :
              InGroup(packed.values, rela, g, i, Before(packed, g.from + i - 1),
                      packed.list[g.from + i])
<1> DEFINE g == packed.groups[n]
<1>1. /\ g.from \in Nat /\ {g.at, g.size} \subseteq Nat \ {0}
      /\ GroupEnd(g, rela) - 1 <= Len(packed.values)
      /\ packed.values[g.at] = g.size /\ packed.values[g.at + 1] = g.flags
      /\ HasAddend(g.flags) /\ ByAddend(g.flags) => rela
      /\ g.from + g.size <= Len(packed.list)
  <2>1. g.from \in Nat /\ {g.at, g.size} \subseteq Nat \ {0}
    BY DEF PackedRight
  <2>2. GroupEnd(g, rela) - 1 <= Len(packed.values)
    BY DEF PackedRight
  <2>3. packed.values[g.at] = g.size /\ packed.values[g.at + 1] = g.flags
    BY DEF PackedRight
  <2>4. HasAddend(g.flags) /\ ByAddend(g.flags) => rela
    BY DEF PackedRight
  <2>5. g.from + g.size <= Len(packed.list)
    BY DEF PackedRight
  <2>6. QED
    BY <2>1, <2>2, <2>3, <2>4, <2>5
<1>2. ASSUME NEW i \in 1 .. g.size
      PROVE  InGroup(packed.values, rela, g, i, Before(packed, g.from + i - 1),
                     packed.list[g.from + i])
  <2>1. InGroup(packed.values, rela, g, i,
                IF g.from + i = 1 THEN packed.values[2]
                ELSE packed.list[g.from + i - 1].offset,
                packed.list[g.from + i])
    BY DEF PackedRight
  <2>2. (IF g.from + i = 1 THEN packed.values[2]
         ELSE packed.list[g.from + i - 1].offset) = Before(packed, g.from + i - 1)
    BY <1>1 DEF Before
  <2>3. QED
    BY <2>1, <2>2
<1>3. QED
  BY <1>1, <1>2

LEMMA ReadRelocRight ==
  ASSUME NEW packed, NEW rela, PackedRight(packed, rela),
         NEW some, CutOff(some, packed.values),
         NEW n \in DOMAIN packed.groups, NEW g, g = packed.groups[n],
         NEW i \in 0 .. g.size - 1, NEW it,
         DOMAIN it = PackedFields, it.vals = some,
         Within(it, packed.values, rela, g, i),
         it.offset = Before(packed, g.from + i),
         NEW new, new = ReadReloc(it, rela)
  PROVE  /\ DOMAIN new = PackedFields /\ new.vals = some
         /\ new.count = it.count /\ new.index = it.index + 1
         /\ new.ok => /\ new.offset = packed.list[g.from + i + 1].offset
                      /\ new.info = packed.list[g.from + i + 1].info
                      /\ Within(new, packed.values, rela, g, i + 1)
         /\ it.ok /\ Len(some) = Len(packed.values) => new.ok
<1> DEFINE values == packed.values
           flags == g.flags
           info == it.pos + If(~ByDelta(flags))
           addend == info + If(~ByInfo(flags))
           end == it.pos + Own(flags, rela)
           x == packed.list[g.from + i + 1]
           shared == g.at + 2
           own == shared + Shared(flags) + i * Own(flags, rela)
<1>1. /\ g.at \in Nat \ {0} /\ g.from \in Nat /\ g.size \in Nat \ {0}
      /\ Own(flags, rela) \in 0 .. 3 /\ Shared(flags) \in 0 .. 3
      /\ If(~ByDelta(flags)) \in 0 .. 1 /\ If(~ByInfo(flags)) \in 0 .. 1
  BY GroupFacts, Ifs
<1>2. /\ it.pos = own /\ own \in Nat
      /\ own + Own(flags, rela) = shared + Shared(flags) + (i + 1) * Own(flags, rela)
  <2>1. it.pos = own
    BY DEF Within
  <2> DEFINE w == Own(flags, rela)
             t == Shared(flags)
  <2>2. w \in {0, 1, 2, 3} /\ t \in 0 .. 3
    BY <1>1
  <2> HIDE DEF w, t
  <2>3. /\ shared + t + i * w \in Nat
        /\ shared + t + i * w + w = shared + t + (i + 1) * w
    <3>1. CASE w = 0
      BY <1>1, <2>2, <3>1
    <3>2. CASE w = 1
      BY <1>1, <2>2, <3>2
    <3>3. CASE w = 2
      BY <1>1, <2>2, <3>3
    <3>4. CASE w = 3
      BY <1>1, <2>2, <3>4
    <3>5. QED
      BY <2>2, <3>1, <3>2, <3>3, <3>4
  <2>4. QED
    BY <2>1, <2>3 DEF w, t
<1>3. it.flags = flags
  BY DEF Within
<1>4. end = addend + If(rela /\ HasAddend(flags) /\ ~ByAddend(flags))
  <2>1. If(rela /\ HasAddend(flags) /\ ~ByAddend(flags)) \in 0 .. 1
    BY Ifs
  <2>2. QED
    BY <1>1, <1>2, <2>1 DEF Own
<1>5. /\ DOMAIN new = PackedFields /\ new.vals = some
      /\ new.count = it.count /\ new.index = it.index + 1
      /\ new.size = it.size /\ new.flags = flags /\ new.delta = it.delta
      /\ new.groupIndex = it.groupIndex + 1
      /\ new.pos = end
      /\ new.ok <=> it.ok /\ end - 1 <= Len(some)
      /\ new.offset = Wrap(it.offset + IF ByDelta(flags) THEN it.delta
                                       ELSE Val(some, it.pos))
      /\ new.info = IF ByInfo(flags) THEN it.info ELSE Val(some, info)
  BY <1>3, <1>4 DEF ReadReloc, PackedFields
<1>6. ASSUME new.ok
      PROVE  new.offset = x.offset /\ new.info = x.info
  <2>1. i + 1 \in 1 .. g.size /\ g.from + (i + 1) = g.from + i + 1
        /\ g.from + (i + 1) - 1 = g.from + i /\ (i + 1) - 1 = i
    BY <1>1
  <2>2. InGroup(values, rela, g, i + 1, Before(packed, g.from + i), x)
    <3>1. InGroup(values, rela, g, i + 1, Before(packed, g.from + (i + 1) - 1),
                  packed.list[g.from + (i + 1)])
      BY <2>1, GroupFacts
    <3>2. QED
      BY <2>1, <3>1
  <2>3. /\ x.offset = Wrap(it.offset + values[IF ByDelta(flags) THEN shared ELSE own])
        /\ x.info = values[IF ByInfo(flags) THEN shared + If(ByDelta(flags))
                           ELSE own + If(~ByDelta(flags))]
    BY <2>1, <2>2 DEF InGroup
  <2>4. \A p \in Nat : 1 <= p /\ p <= end - 1 => Val(some, p) = values[p]
    <3>1. end \in Int /\ end - 1 <= Len(some)
      BY <1>1, <1>2, <1>5, <1>6
    <3>2. /\ Len(some) \in Nat /\ DOMAIN some = 1 .. Len(some)
          /\ \A p \in DOMAIN some : some[p] = values[p]
      BY DEF CutOff
    <3> HIDE DEF end
    <3>3. QED
      BY <3>1, <3>2 DEF Val
  <2>5. ~ByDelta(flags) => Val(some, it.pos) = values[own]
    <3>1. SUFFICES ASSUME ~ByDelta(flags)
                   PROVE  1 <= own /\ own <= end - 1
      BY <1>2, <2>4
    <3>2. If(~ByDelta(flags)) = 1
      BY <3>1 DEF If
    <3>3. Own(flags, rela) >= 1
      BY <1>1, <3>2, Ifs DEF Own
    <3>4. QED
      BY <1>1, <1>2, <3>3
  <2>6. ~ByInfo(flags) => Val(some, info) = values[own + If(~ByDelta(flags))]
    <3>1. SUFFICES ASSUME ~ByInfo(flags)
                   PROVE  1 <= info /\ info <= end - 1 /\ info \in Nat
      BY <1>2, <2>4
    <3>2. If(~ByInfo(flags)) = 1
      BY <3>1 DEF If
    <3>3. Own(flags, rela) >= If(~ByDelta(flags)) + 1
      BY <1>1, <3>2, Ifs DEF Own
    <3>4. QED
      BY <1>1, <1>2, <3>3
  <2>7. /\ ByDelta(flags) => it.delta = values[shared]
        /\ ByInfo(flags) => it.info = values[shared + If(ByDelta(flags))]
    BY DEF Within
  <2>8. new.offset = x.offset
    BY <1>5, <2>3, <2>5, <2>7
  <2>9. new.info = x.info
    BY <1>5, <2>3, <2>6, <2>7
  <2>10. QED
    BY <2>8, <2>9
<1>7. ASSUME new.ok
      PROVE  Within(new, values, rela, g, i + 1)
  <2>1. new.pos = shared + Shared(flags) + (i + 1) * Own(flags, rela)
    BY <1>2, <1>5
  <2>2. /\ new.size = g.size /\ new.flags = flags /\ new.groupIndex = i + 1
        /\ ByDelta(flags) => new.delta = values[shared]
        /\ ByInfo(flags) => new.info = values[shared + If(ByDelta(flags))]
    BY <1>5 DEF Within
  <2>3. QED
    BY <2>1, <2>2 DEF Within
<1>8. ASSUME it.ok, Len(some) = Len(values)
      PROVE  new.ok
  <2> DEFINE w == Own(flags, rela)
             own1 == shared + Shared(flags)
  <2>1. GroupEnd(g, rela) - 1 <= Len(values) /\ Len(values) \in Nat
    BY GroupFacts DEF PackedRight
  <2>2. GroupEnd(g, rela) = own1 + g.size * w /\ end = own1 + (i + 1) * w
    BY <1>2 DEF GroupEnd
  <2>3. w \in {0, 1, 2, 3} /\ own1 \in Nat /\ i + 1 <= g.size /\ g.size \in Nat
    BY <1>1
  <2> HIDE DEF w, own1, end
  <2>4. end - 1 <= Len(values)
    <3>1. CASE w = 0
      BY <2>1, <2>2, <2>3, <3>1
    <3>2. CASE w = 1
      BY <2>1, <2>2, <2>3, <3>2
    <3>3. CASE w = 2
      BY <2>1, <2>2, <2>3, <3>3
    <3>4. CASE w = 3
      BY <2>1, <2>2, <2>3, <3>4
    <3>5. QED
      BY <2>3, <3>1, <3>2, <3>3, <3>4
  <2>5. QED
    BY <1>5, <1>8, <2>4 DEF end
<1>9. QED
  BY <1>5, <1>6, <1>7, <1>8

LEMMA ReadGroupRight ==
  ASSUME NEW packed, NEW rela, PackedRight(packed, rela),
         NEW some, CutOff(some, packed.values),
         NEW n \in DOMAIN packed.groups, NEW g, g = packed.groups[n], NEW it,
         DOMAIN it = PackedFields, it.vals = some, it.pos = g.at,
         NEW new, new = ReadGroup(it, rela)
  PROVE  /\ DOMAIN new = PackedFields /\ new.vals = some
         /\ new.count = it.count /\ new.index = it.index /\ new.offset = it.offset
         /\ new.ok => g.at + 1 <= Len(some) /\ Within(new, packed.values, rela, g, 0)
         /\ Len(some) = Len(packed.values) => new.ok
<1> DEFINE values == packed.values
           flags == Val(some, g.at + 1)
           delta == g.at + 2
           info == delta + If(ByDelta(flags))
           addend == info + If(ByInfo(flags))
           once == HasAddend(flags) /\ ByAddend(flags)
           end == addend + If(once)
<1>1. g.at \in Nat \ {0} /\ Len(some) \in Nat /\ DOMAIN some = 1 .. Len(some)
  BY GroupFacts DEF CutOff
<1>2. /\ DOMAIN new = PackedFields /\ new.vals = some
      /\ new.count = it.count /\ new.index = it.index /\ new.offset = it.offset
      /\ new.ok <=> end - 1 <= Len(some) /\ (once => rela)
      /\ new.pos = end /\ new.size = Val(some, g.at) /\ new.flags = flags
      /\ ByDelta(flags) => new.delta = Val(some, delta)
      /\ ByInfo(flags) => new.info = Val(some, info)
      /\ new.groupIndex = 0
  BY DEF ReadGroup, PackedFields
<1>3. /\ If(ByDelta(flags)) \in 0 .. 1 /\ If(ByInfo(flags)) \in 0 .. 1
      /\ If(once) \in 0 .. 1
      /\ end = delta + Shared(flags) /\ Shared(flags) \in 0 .. 3
  <2>1. /\ If(ByDelta(flags)) \in 0 .. 1 /\ If(ByInfo(flags)) \in 0 .. 1
        /\ If(once) \in 0 .. 1 /\ Shared(flags) \in 0 .. 3
    BY Ifs
  <2>2. Shared(flags) = If(ByDelta(flags)) + If(ByInfo(flags)) + If(once)
    BY DEF Shared
  <2>3. QED
    BY <1>1, <2>1, <2>2
<1>4. \A p \in Nat \ {0} : p <= Len(some) => Val(some, p) = values[p]
  BY <1>1 DEF CutOff, Val
<1>5. values[g.at] = g.size /\ values[g.at + 1] = g.flags
  BY GroupFacts
<1>6. ASSUME new.ok
      PROVE  g.at + 1 <= Len(some) /\ Within(new, values, rela, g, 0)
  <2>1. end - 1 <= Len(some) /\ end \in Int /\ g.at + 1 <= Len(some)
    BY <1>1, <1>2, <1>3, <1>6
  <2>2. flags = g.flags /\ new.size = g.size
    BY <1>1, <1>2, <1>4, <1>5, <2>1
  <2>3. ByDelta(flags) => new.delta = values[delta]
    <3>1. SUFFICES ASSUME ByDelta(flags) PROVE delta <= Len(some) /\ delta \in Nat \ {0}
      BY <1>2, <1>4
    <3>2. If(ByDelta(flags)) = 1
      BY <3>1 DEF If
    <3>3. QED
      BY <1>1, <1>3, <2>1, <3>2
  <2>4. ByInfo(flags) => new.info = values[info]
    <3>1. SUFFICES ASSUME ByInfo(flags) PROVE info <= Len(some) /\ info \in Nat \ {0}
      BY <1>2, <1>4
    <3>2. If(ByInfo(flags)) = 1
      BY <3>1 DEF If
    <3>3. QED
      BY <1>1, <1>3, <2>1, <3>2
  <2>5. new.pos = g.at + 2 + Shared(flags) + 0 * Own(flags, rela)
    <3>1. Own(flags, rela) \in 0 .. 3
      BY Ifs
    <3>2. 0 * Own(flags, rela) = 0
      BY <3>1
    <3>3. QED
      BY <1>1, <1>2, <1>3, <3>2
  <2> HIDE DEF flags
  <2>6. QED
    BY <1>2, <2>1, <2>2, <2>3, <2>4, <2>5 DEF Within
<1>7. ASSUME Len(some) = Len(values)
      PROVE  new.ok
  <2>1. GroupEnd(g, rela) - 1 <= Len(values) /\ g.size \in Nat
    BY GroupFacts
  <2>2. Own(g.flags, rela) \in 0 .. 3 /\ Shared(g.flags) \in 0 .. 3
    BY Ifs
  <2> DEFINE w == Own(g.flags, rela)
             own1 == g.at + 2 + Shared(g.flags)
  <2>3. GroupEnd(g, rela) = own1 + g.size * w
    BY DEF GroupEnd
  <2>4. w \in {0, 1, 2, 3} /\ own1 \in Nat /\ own1 >= g.at + 2
    BY <1>1, <2>2
  <2>5. own1 - 1 <= Len(values)
    <3> HIDE DEF w, own1
    <3>1. CASE w = 0
      BY <1>1, <1>7, <2>1, <2>3, <2>4, <3>1
    <3>2. CASE w = 1
      BY <1>1, <1>7, <2>1, <2>3, <2>4, <3>2
    <3>3. CASE w = 2
      BY <1>1, <1>7, <2>1, <2>3, <2>4, <3>3
    <3>4. CASE w = 3
      BY <1>1, <1>7, <2>1, <2>3, <2>4, <3>4
    <3>5. QED
      BY <2>4, <3>1, <3>2, <3>3, <3>4
  <2>6. g.at + 1 <= Len(some)
    <3> HIDE DEF own1
    <3>1. QED
      BY <1>1, <1>7, <2>4, <2>5
  <2>7. flags = g.flags
    BY <1>1, <1>4, <1>5, <2>6
  <2>8. once => rela
    BY <2>7, GroupFacts
  <2>9. end - 1 <= Len(some)
    BY <1>3, <1>7, <2>5, <2>7
  <2>10. QED
    BY <1>2, <2>8, <2>9
<1>8. QED
  BY <1>2, <1>6, <1>7

-----------------------------------------------------------------------------
\* The iterator of a packed section has returned m relocations.
PackedAt(packed, rela, some, it, m) ==
  /\ DOMAIN it = PackedFields /\ it.vals = some /\ it.count = Val(some, 1)
  /\ it.index = m /\ it.ok
  /\ \/ /\ m = 0 /\ it.pos = 3 /\ it.size = 0 /\ it.groupIndex = 0
        /\ it.offset = Val(some, 2)
     \/ \E n \in DOMAIN packed.groups : \E i \in 1 .. packed.groups[n].size :
          /\ m = packed.groups[n].from + i
          /\ Within(it, packed.values, rela, packed.groups[n], i)
          /\ it.offset = packed.list[m].offset

LEMMA NextGroup ==
  ASSUME NEW packed, NEW rela, PackedRight(packed, rela),
         NEW some, CutOff(some, packed.values),
         NEW it, NEW m \in Nat, PackedAt(packed, rela, some, it, m),
         m < Len(packed.list), it.groupIndex = it.size
  PROVE  \E n \in DOMAIN packed.groups :
           /\ packed.groups[n].from = m /\ packed.groups[n].at = it.pos
           /\ it.pos + 1 <= Len(some) => it.offset = Before(packed, m)
<1> DEFINE groups == packed.groups
           list == packed.list
<1>1. /\ Len(groups) \in Nat /\ DOMAIN groups = 1 .. Len(groups)
      /\ Len(list) \in Nat
      /\ Len(list) > 0 => Len(groups) > 0 /\ groups[1].from = 0 /\ groups[1].at = 3
  BY DEF PackedRight
<1>2. CASE m = 0 /\ it.pos = 3 /\ it.offset = Val(some, 2)
  <2>1. 1 \in DOMAIN groups /\ groups[1].from = m /\ groups[1].at = it.pos
    BY <1>1, <1>2
  <2>2. it.pos + 1 <= Len(some) => it.offset = Before(packed, m)
    BY <1>2 DEF CutOff, Val, Before
  <2>3. QED
    BY <2>1, <2>2
<1>3. CASE \E n \in DOMAIN groups : \E i \in 1 .. groups[n].size :
             /\ m = groups[n].from + i
             /\ Within(it, packed.values, rela, groups[n], i)
             /\ it.offset = list[m].offset
  <2>1. PICK n \in DOMAIN groups : \E i \in 1 .. groups[n].size :
          /\ m = groups[n].from + i
          /\ Within(it, packed.values, rela, groups[n], i)
          /\ it.offset = list[m].offset
    BY <1>3
  <2> DEFINE g == groups[n]
  <2>2. g.from \in Nat /\ g.size \in Nat \ {0}
    BY GroupFacts
  <2>3. PICK i \in 1 .. g.size :
          /\ m = g.from + i /\ i = g.size /\ it.pos = GroupEnd(g, rela)
          /\ it.offset = list[m].offset
    BY <2>1 DEF Within, GroupEnd
  <2>4. /\ n = Len(groups) => g.from + g.size = Len(list)
        /\ n # Len(groups) => /\ groups[n + 1].from = g.from + g.size
                              /\ groups[n + 1].at = GroupEnd(g, rela)
    BY DEF PackedRight
  <2>5. n + 1 \in DOMAIN groups /\ groups[n + 1].from = m /\ groups[n + 1].at = it.pos
    BY <1>1, <2>2, <2>3, <2>4
  <2>6. it.offset = Before(packed, m)
    BY <2>2, <2>3 DEF Before
  <2>7. QED
    BY <2>5, <2>6
<1>4. QED
  BY <1>2, <1>3 DEF PackedAt

LEMMA PackedStep ==
  ASSUME NEW packed, NEW rela, PackedRight(packed, rela),
         NEW some, CutOff(some, packed.values),
         NEW it, NEW m \in Nat, PackedAt(packed, rela, some, it, m),
         NEW rel, rel = PackedNext(rela, it)
  PROVE  /\ rel.ok => /\ m + 1 \in DOMAIN packed.list
                      /\ rel.offset = packed.list[m + 1].offset
                      /\ rel.info = packed.list[m + 1].info
                      /\ PackedAt(packed, rela, some, rel.iter, m + 1)
         /\ ~rel.ok /\ Len(some) = Len(packed.values)
              => \A k \in DOMAIN packed.list : k <= m
<1> DEFINE list == packed.list
           values == packed.values
           groups == packed.groups
           ready == IF it.groupIndex = it.size THEN ReadGroup(it, rela) ELSE it
           new == ReadReloc(ready, rela)
<1>1. /\ Len(list) \in Nat /\ DOMAIN list = 1 .. Len(list)
      /\ 2 <= Len(values) /\ values[1] = Len(list)
      /\ Len(values) \in Nat
  BY DEF PackedRight
<1>2. /\ DOMAIN it = PackedFields /\ it.vals = some /\ it.count = Val(some, 1)
      /\ it.index = m /\ it.ok
  BY DEF PackedAt
<1>3. it.count \in {0, Len(list)} /\ (Len(some) = Len(values) => it.count = Len(list))
  BY <1>1, <1>2 DEF CutOff, Val
<1>4. CASE m >= it.count
  <2>1. ~rel.ok
    BY <1>2, <1>4 DEF PackedNext
  <2>2. QED
    BY <1>1, <1>3, <1>4, <2>1
<1>5. CASE ~(m >= it.count)
  <2>1. /\ rel.ok = new.ok /\ rel.offset = new.offset /\ rel.info = new.info
        /\ rel.iter = new
    BY <1>2, <1>5 DEF PackedNext
  <2>2. m < Len(list) /\ m + 1 \in DOMAIN list
    BY <1>1, <1>3, <1>5
  <2>3. \E n \in DOMAIN groups : \E i \in 0 .. groups[n].size - 1 :
          /\ groups[n].from + i = m
          /\ DOMAIN ready = PackedFields /\ ready.vals = some
          /\ ready.count = it.count /\ ready.index = m
          /\ ready.ok => /\ Within(ready, values, rela, groups[n], i)
                         /\ ready.offset = Before(packed, m)
          /\ Len(some) = Len(values) => ready.ok
    <3>1. CASE it.groupIndex = it.size
      <4>1. PICK n \in DOMAIN groups :
              /\ groups[n].from = m /\ groups[n].at = it.pos
              /\ it.pos + 1 <= Len(some) => it.offset = Before(packed, m)
        BY <2>2, <3>1, NextGroup
      <4>2. ready = ReadGroup(it, rela)
        BY <3>1
      <4> HIDE DEF ready, new
      <4>3. /\ DOMAIN ready = PackedFields /\ ready.vals = some
            /\ ready.count = it.count /\ ready.index = it.index
            /\ ready.offset = it.offset
            /\ ready.ok => /\ it.pos + 1 <= Len(some)
                           /\ Within(ready, values, rela, groups[n], 0)
            /\ Len(some) = Len(values) => ready.ok
        BY <1>2, <4>1, <4>2, ReadGroupRight
      <4>4. 0 \in 0 .. groups[n].size - 1 /\ groups[n].from + 0 = m
        BY <4>1, GroupFacts
      <4>5. QED
        BY <1>2, <4>1, <4>3, <4>4
    <3>2. CASE it.groupIndex # it.size
      <4>1. PICK n \in DOMAIN groups : \E i \in 1 .. groups[n].size :
              /\ m = groups[n].from + i
              /\ Within(it, values, rela, groups[n], i)
              /\ it.offset = list[m].offset
        BY <3>2 DEF PackedAt
      <4>2. groups[n].size \in Nat /\ groups[n].from \in Nat
        BY GroupFacts
      <4>3. PICK i \in 1 .. groups[n].size :
              /\ m = groups[n].from + i
              /\ Within(it, values, rela, groups[n], i)
              /\ it.offset = list[m].offset
        BY <4>1
      <4>4. i \in 0 .. groups[n].size - 1
        BY <3>2, <4>2, <4>3 DEF Within
      <4>5. it.offset = Before(packed, m) /\ ready = it
        BY <3>2, <4>2, <4>3 DEF Before
      <4> HIDE DEF ready, new
      <4>6. QED
        BY <1>2, <4>3, <4>4, <4>5
    <3>3. QED
      BY <3>1, <3>2
  <2> HIDE DEF ready
  <2>4. PICK n \in DOMAIN groups : \E i \in 0 .. groups[n].size - 1 :
          /\ groups[n].from + i = m
          /\ DOMAIN ready = PackedFields /\ ready.vals = some
          /\ ready.count = it.count /\ ready.index = m
          /\ ready.ok => /\ Within(ready, values, rela, groups[n], i)
                         /\ ready.offset = Before(packed, m)
          /\ Len(some) = Len(values) => ready.ok
    BY <2>3
  <2>5. PICK i \in 0 .. groups[n].size - 1 :
          /\ groups[n].from + i = m
          /\ DOMAIN ready = PackedFields /\ ready.vals = some
          /\ ready.count = it.count /\ ready.index = m
          /\ ready.ok => /\ Within(ready, values, rela, groups[n], i)
                         /\ ready.offset = Before(packed, m)
          /\ Len(some) = Len(values) => ready.ok
    BY <2>4
  <2>6. new.ok => ready.ok
    BY <2>5 DEF ReadReloc, PackedFields
  <2>7. ASSUME ready.ok
        PROVE  /\ DOMAIN new = PackedFields /\ new.vals = some
               /\ new.count = it.count /\ new.index = m + 1
               /\ new.ok => /\ new.offset = list[m + 1].offset
                            /\ new.info = list[m + 1].info
                            /\ Within(new, values, rela, groups[n], i + 1)
               /\ Len(some) = Len(values) => new.ok
    <3>1. Within(ready, values, rela, groups[n], i) /\ ready.offset = Before(packed, groups[n].from + i)
      BY <2>5, <2>7
    <3>2. PICK g : g = groups[n]
      OBVIOUS
    <3>3. i \in 0 .. g.size - 1 /\ g.from + i = m
      BY <2>5, <3>2
    <3> HIDE DEF new
    <3>4. /\ DOMAIN new = PackedFields /\ new.vals = some
          /\ new.count = ready.count /\ new.index = ready.index + 1
          /\ new.ok => /\ new.offset = list[g.from + i + 1].offset
                       /\ new.info = list[g.from + i + 1].info
                       /\ Within(new, values, rela, g, i + 1)
          /\ ready.ok /\ Len(some) = Len(values) => new.ok
      BY <2>5, <3>1, <3>2, <3>3, ReadRelocRight DEF new
    <3>5. QED
      BY <2>5, <2>7, <3>2, <3>3, <3>4
  <2>8. ASSUME new.ok
        PROVE  PackedAt(packed, rela, some, new, m + 1)
    <3>1. i + 1 \in 1 .. groups[n].size /\ m + 1 = groups[n].from + (i + 1)
      <4>1. groups[n].size \in Nat /\ groups[n].from \in Nat
        BY GroupFacts
      <4>2. groups[n].from + i = m
        BY <2>5
      <4>3. QED
        BY <4>1, <4>2
    <3> HIDE DEF new
    <3>2. QED
      BY <1>2, <2>6, <2>7, <2>8, <3>1 DEF PackedAt
  <2>9. CASE new.ok
    <3> HIDE DEF new
    <3>1. QED
      BY <2>1, <2>2, <2>6, <2>7, <2>8, <2>9
  <2>10. CASE ~new.ok
    <3>1. Len(some) # Len(values)
      <4> HIDE DEF new
      <4>1. QED
        BY <2>5, <2>7, <2>10
    <3> HIDE DEF new
    <3>2. QED
      BY <2>1, <2>10, <3>1
  <2>11. QED
    BY <2>9, <2>10
<1>6. QED
  BY <1>4, <1>5

-----------------------------------------------------------------------------

\* Either iterator: what it returns next, and that it has returned m
\* relocations of the section.
NextOf(l, read, s, it) ==
  IF s = "android" THEN PackedNext(read.rela, it) ELSE PlainNext(l, read.rela, it)

IterAt(l, read, s, it, m) ==
  IF s = "android"
  THEN PackedAt(l.packed, read.rela, PackedValues(l, read), it, m)
  ELSE PlainAt(read, s, it, m)

StartOf(l, read, s) ==
  IF s = "android" THEN PackedStart(l, read.android, read.androidSize)
  ELSE PlainStart(read[s], SizeOf(read, s))

Sections == {"plt", "dyn", "android"}

LEMMA IterStarts ==
  ASSUME NEW l, NEW read, NEW s \in Sections, Written(l, read)
  PROVE  IterAt(l, read, s, StartOf(l, read, s), 0)
<1>1. CASE s = "android"
  <2> DEFINE it == PackedStart(l, read.android, read.androidSize)
  <2>1. /\ DOMAIN it = PackedFields /\ it.vals = PackedValues(l, read)
        /\ it.pos = 3 /\ it.ok /\ it.count = Val(it.vals, 1)
        /\ it.offset = Val(it.vals, 2) /\ it.index = 0 /\ it.size = 0
        /\ it.groupIndex = 0
    BY DEF PackedStart, PackedValues, PackedFields
  <2> HIDE DEF it
  <2>2. PackedAt(l.packed, read.rela, PackedValues(l, read), it, 0)
    BY <2>1 DEF PackedAt
  <2>3. QED
    BY <1>1, <2>2 DEF IterAt, StartOf, it
<1>2. CASE s # "android"
  <2>1. Stride(read.rela) \in {2, 3}
    BY DEF Stride
  <2>2. 0 * Stride(read.rela) = 0
    BY <2>1
  <2>3. PlainAt(read, s, PlainStart(read[s], SizeOf(read, s)), 0)
    BY <2>2 DEF PlainAt, PlainStart
  <2>4. QED
    BY <1>2, <2>3 DEF IterAt, StartOf
<1>3. QED
  BY <1>1, <1>2

LEMMA IterSteps ==
  ASSUME NEW l, NEW read, NEW s \in Sections, Written(l, read), read[s] # 0,
         NEW it, NEW m \in Nat, IterAt(l, read, s, it, m),
         NEW rel, rel = NextOf(l, read, s, it)
  PROVE  LET list == ListOf(l, read, s) IN
         /\ rel.ok => /\ m + 1 \in DOMAIN list
                      /\ rel.offset = list[m + 1].offset
                      /\ rel.info = list[m + 1].info
                      /\ IterAt(l, read, s, rel.iter, m + 1)
         /\ ~rel.ok /\ Whole(l, read) => \A k \in DOMAIN list : k <= m
<1>1. CASE s = "android"
  <2>1. /\ PackedRight(l.packed, read.rela)
        /\ CutOff(PackedValues(l, read), l.packed.values)
    BY <1>1 DEF Written
  <2>2. /\ rel = PackedNext(read.rela, it)
        /\ PackedAt(l.packed, read.rela, PackedValues(l, read), it, m)
    BY <1>1 DEF NextOf, IterAt
  <2>3. /\ rel.ok => /\ m + 1 \in DOMAIN l.packed.list
                     /\ rel.offset = l.packed.list[m + 1].offset
                     /\ rel.info = l.packed.list[m + 1].info
                     /\ PackedAt(l.packed, read.rela, PackedValues(l, read),
                                 rel.iter, m + 1)
        /\ ~rel.ok /\ Len(PackedValues(l, read)) = Len(l.packed.values)
             => \A k \in DOMAIN l.packed.list : k <= m
    BY <2>1, <2>2, PackedStep
  <2>4. Whole(l, read) => Len(PackedValues(l, read)) = Len(l.packed.values)
    BY <1>1 DEF Whole
  <2>5. QED
    BY <1>1, <2>3, <2>4 DEF ListOf, IterAt
<1>2. CASE s # "android"
  <2>1. SizeOf(read, s) \in Nat
    BY DEF Written, SizeOf
  <2>2. rel = PlainNext(l, read.rela, it) /\ PlainAt(read, s, it, m)
    BY <1>2 DEF NextOf, IterAt
  <2>3. LET list == PlainList(l, read, s) IN
        /\ rel.ok => /\ m + 1 \in DOMAIN list
                     /\ rel.offset = list[m + 1].offset
                     /\ rel.info = list[m + 1].info
                     /\ PlainAt(read, s, rel.iter, m + 1)
        /\ ~rel.ok => \A k \in DOMAIN list : k <= m
    BY <2>1, <2>2, PlainStep
  <2>4. QED
    BY <1>2, <2>3 DEF ListOf, IterAt
<1>3. QED
  BY <1>1, <1>2

-----------------------------------------------------------------------------
\* The library was accepted and parsed.
Parsed ==
  h > 0 \/ pc \notin {"header", "parse", "done"} =>
    self = Parse(lib) /\ self # NotFound /\ lib.header = {}

Looked == h > 0 => Finds(lib.names, hooks[h].symbol, symidx)

\* The iterator is somewhere in its section.
InSection ==
  pc = "reloc" \/ Replacing =>
    /\ section \in Sections /\ self[section] # 0
    /\ \E m \in Nat : IterAt(lib, self, section, iter, m)

RInv ==
  /\ EInv /\ Parsed /\ Looked /\ InSection
  /\ pc = "parse" => lib.header = {}

LEMMA ReadWritten ==
  ASSUME AllReadable, EInv, Parsed, h > 0 \/ pc \notin {"header", "parse", "done"}
  PROVE  Written(lib, self)
BY DEF AllReadable, Readable, Parsed, EInv, Placed

LEMMA NextRelocIs == NextReloc = NextOf(lib, self, section, iter)
BY DEF NextReloc, NextOf

(***************************************************************************)
(* An entry that is sought is a relocation that binds the symbol.          *)
(***************************************************************************)
LEMMA EntryBinds ==
  ASSUME Written(lib, self), Looked, h > 0, section \in Sections, self[section] # 0,
         NEW k \in DOMAIN ListOf(lib, self, section),
         NEW x, x = ListOf(lib, self, section)[k],
         R_SYM(x.info) = symidx, R_TYPE(x.info) \in Types(section),
         Wrap(self.bias + x.offset) >= lib.base
  PROVE  \E r \in lib.relocs :
           /\ r.section = section
           /\ r.at = Wrap(self.bias + x.offset) /\ r.at \in DOMAIN lib.slots
           /\ Binds(r, hooks[h].symbol)
<1>1. PICK r \in lib.relocs : r.section = section /\ Describes(lib, self, x, r)
  BY DEF Written, SectionRight, Sections
<1>2. r.at = Wrap(self.bias + x.offset) /\ r.at \in DOMAIN lib.slots
  BY <1>1 DEF Describes, Written
<1>3. r.symbol = hooks[h].symbol
  <2>1. symidx \in DOMAIN lib.names /\ r.symbol = lib.names[symidx]
    BY <1>1 DEF Describes
  <2>2. symidx # NotFound
    <3>1. symidx \in Nat
      BY <2>1 DEF Written, HashRight, Numbered
    <3>2. QED
      BY <3>1, XhElfAssumption DEF XhElfAssumption
  <2>3. lib.names[symidx] = hooks[h].symbol
    BY <2>2 DEF Looked, Finds
  <2>4. QED
    BY <2>1, <2>3
<1>4. Binds(r, hooks[h].symbol)
  BY <1>1, <1>3 DEF Binds, Describes, Types
<1>5. QED
  BY <1>1, <1>2, <1>4

LEMMA RInvReads ==
  ASSUME AllReadable, RInv
  PROVE  ReadsRight
<1>1. ASSUME h > 0
      PROVE  LET found == {i \in DOMAIN lib.names : lib.names[i] = hooks[h].symbol} IN
             IF found = {} THEN symidx = NotFound ELSE symidx \in found
  BY <1>1 DEF RInv, Looked, Finds
<1>2. ASSUME pc = "reloc", NEW rel, rel = NextReloc,
             rel.ok, IsSought(rel), PlaceOf(rel) >= lib.base
      PROVE  \E r \in lib.relocs :
               /\ r.at = PlaceOf(rel) /\ r.at \in DOMAIN lib.slots
               /\ Binds(r, hooks[h].symbol)
  <2>1. /\ h > 0 /\ section \in Sections /\ self[section] # 0
        /\ Written(lib, self)
    BY <1>2, ReadWritten DEF RInv, EInv, Placed, InSection
  <2>2. PICK m \in Nat : IterAt(lib, self, section, iter, m)
    BY <1>2 DEF RInv, InSection
  <2> DEFINE list == ListOf(lib, self, section)
             x == list[m + 1]
  <2>3. m + 1 \in DOMAIN list /\ rel.offset = x.offset /\ rel.info = x.info
    BY <1>2, <2>1, <2>2, NextRelocIs, IterSteps
  <2>4. /\ R_SYM(x.info) = symidx /\ R_TYPE(x.info) \in Types(section)
        /\ PlaceOf(rel) = Wrap(self.bias + x.offset)
        /\ Wrap(self.bias + x.offset) >= lib.base
    BY <1>2, <2>3 DEF IsSought, PlaceOf
  <2>5. PICK r \in lib.relocs :
           /\ r.at = Wrap(self.bias + x.offset) /\ r.at \in DOMAIN lib.slots
           /\ Binds(r, hooks[h].symbol)
    <3> HIDE DEF list
    <3>1. QED
      BY <2>1, <2>3, <2>4, EntryBinds DEF RInv, list
  <2>6. QED
    BY <2>4, <2>5
<1>3. QED
  BY <1>1, <1>2 DEF ReadsRight

LEMMA InitRInv == Init => RInv
<1> SUFFICES ASSUME Init PROVE RInv
  OBVIOUS
<1>1. EInv
  BY InitEInv
<1>2. h = 0 /\ pc = "header"
  BY DEF Init
<1>3. Parsed /\ Looked /\ InSection
  BY <1>2 DEF Parsed, Looked, InSection, Replacing
<1>4. QED
  BY <1>1, <1>2, <1>3 DEF RInv

(***************************************************************************)
(* Steps that read nothing.                                                *)
(***************************************************************************)
LEMMA QuietReads ==
  ASSUME RInv, EInv', UNCHANGED <<lib, hooks, self, h, symidx>>,
         pc \notin {"header", "parse"}, pc' \notin {"header", "parse"},
         h > 0 \/ pc # "done",
         pc' = "reloc" \/ Replacing' =>
           (pc = "reloc" \/ Replacing) /\ UNCHANGED <<section, iter>>
  PROVE  RInv'
<1>1. Parsed' /\ Looked'
  BY DEF RInv, Parsed, Looked
<1>2. InSection'
  BY DEF RInv, InSection
<1>3. QED
  BY <1>1, <1>2 DEF RInv

LEMMA OpenReads ==
  ASSUME AllReadable, RInv, EInv', OpenSection
  PROVE  RInv'
<1>1. /\ UNCHANGED <<lib, hooks, self, h, symidx>> /\ pc = "section"
      /\ pc' \in {"hook", "section", "reloc"}
  BY DEF OpenSection, input
<1>2. Parsed' /\ Looked'
  BY <1>1 DEF RInv, Parsed, Looked
<1>3. InSection'
  <2>1. CASE pc' # "reloc"
    BY <1>1, <2>1 DEF InSection, Replacing
  <2>2. CASE pc' = "reloc"
    <3>1. section' \in Sections /\ self[section'] # 0
          /\ iter' = StartOf(lib, self, section')
      BY <2>2 DEF OpenSection, Sections, StartOf, SizeOf
    <3>2. Written(lib, self)
      BY <1>1, ReadWritten DEF RInv
    <3>3. IterAt(lib, self, section', iter', 0)
      BY <3>1, <3>2, IterStarts
    <3>4. QED
      BY <1>1, <3>1, <3>3 DEF InSection
  <2>3. QED
    BY <2>1, <2>2
<1>4. QED
  BY <1>1, <1>2, <1>3 DEF RInv

LEMMA RelocReads ==
  ASSUME AllReadable, RInv, EInv', Reloc
  PROVE  RInv'
<1>1. /\ UNCHANGED <<lib, hooks, self, h, symidx>> /\ pc = "reloc"
      /\ pc' \in {"hook", "section", "reloc", "query"}
  BY AfterFoundFacts DEF Reloc, Fail, input
<1>2. Parsed' /\ Looked'
  BY <1>1 DEF RInv, Parsed, Looked
<1>3. InSection'
  <2>1. CASE pc' \in {"hook", "section"}
    BY <2>1 DEF InSection, Replacing
  <2>2. CASE pc' \in {"reloc", "query"}
    <3>1. PICK rel : /\ rel = NextReloc /\ rel.ok /\ iter' = rel.iter
                     /\ section' = section
      BY <2>2 DEF Reloc, Fail
    <3>2. PICK m \in Nat : IterAt(lib, self, section, iter, m)
      BY <1>1 DEF RInv, InSection
    <3>3. section \in Sections /\ self[section] # 0 /\ Written(lib, self)
      BY <1>1, ReadWritten DEF RInv, InSection
    <3>4. IterAt(lib, self, section, iter', m + 1)
      BY <3>1, <3>2, <3>3, NextRelocIs, IterSteps
    <3>5. QED
      BY <1>1, <3>1, <3>2, <3>3, <3>4 DEF InSection
  <2>3. QED
    BY <1>1, <2>1, <2>2
<1>4. QED
  BY <1>1, <1>2, <1>3 DEF RInv

LEMMA StartReads ==
  ASSUME AllReadable, RInv, EInv', CheckHeader \/ ElfInit \/ StartHook \/ EndHooks
  PROVE  RInv'
<1>1. CASE CheckHeader
  <2>1. UNCHANGED <<lib, hooks, self, h, symidx>> /\ pc = "header"
        /\ pc' \in {"parse", "done"} /\ (pc' = "parse" => lib.header = {})
    BY <1>1 DEF CheckHeader, input, place
  <2>2. h = 0
    BY <2>1 DEF RInv, EInv, Placed
  <2>3. Parsed' /\ Looked' /\ InSection'
    BY <2>1, <2>2 DEF Parsed, Looked, InSection, Replacing
  <2>4. QED
    BY <2>1, <2>3 DEF RInv
<1>2. CASE ElfInit
  <2>1. /\ UNCHANGED <<lib, hooks, h, symidx>> /\ pc = "parse" /\ self' = Parse(lib)
        /\ pc' \in {"hook", "done"} /\ (pc' = "hook" => self' # NotFound)
    BY <1>2 DEF ElfInit, input
  <2>2. h = 0
    BY <2>1 DEF RInv, EInv, Placed
  <2>3. Parsed' /\ Looked' /\ InSection'
    BY <2>1, <2>2 DEF RInv, Parsed, Looked, InSection, Replacing
  <2>4. QED
    BY <2>1, <2>3 DEF RInv
<1>3. CASE StartHook
  <2>1. /\ UNCHANGED <<lib, hooks, self>> /\ pc = "hook" /\ h' = h + 1
        /\ h < Len(hooks)
        /\ symidx' = FindSymidx(lib, self, hooks[h'].symbol)
        /\ pc' \in {"hook", "section"}
    BY <1>3 DEF StartHook, input
  <2>2. /\ h' \in DOMAIN hooks /\ hooks \in Hooks
    <3>1. hooks \in Hooks /\ h \in 0 .. Len(hooks)
      BY DEF RInv, EInv, TypeOK
    <3>2. Len(hooks) \in Nat /\ DOMAIN hooks = 1 .. Len(hooks)
      BY <3>1, HooksFacts
    <3>3. QED
      BY <2>1, <3>1, <3>2
  <2>3. Written(lib, self)
    BY <2>1, ReadWritten DEF RInv
  <2>4. Looked'
    <3>1. HashRight(lib, self)
      BY <2>3 DEF Written
    <3>2. Finds(lib.names, hooks[h'].symbol, symidx')
      BY <2>1, <2>2, <3>1, LookupRight
    <3>3. QED
      BY <2>1, <3>2 DEF Looked
  <2>5. Parsed' /\ InSection'
    BY <2>1 DEF RInv, Parsed, InSection, Replacing
  <2>6. QED
    BY <2>1, <2>4, <2>5 DEF RInv
<1>4. CASE EndHooks
  <2>1. UNCHANGED <<lib, hooks, self, h, symidx>> /\ pc = "hook" /\ pc' = "done"
    BY <1>4 DEF EndHooks, input, place
  <2>2. Parsed' /\ Looked' /\ InSection'
    BY <2>1 DEF RInv, Parsed, Looked, InSection, Replacing
  <2>3. QED
    BY <2>1, <2>2 DEF RInv
<1>5. QED
  BY <1>1, <1>2, <1>3, <1>4

LEMMA StepRInv ==
  ASSUME AllReadable, RInv, [Next]_vars
  PROVE  RInv'
<1>1. EInv'
  BY RInvReads, StepEInv DEF RInv
<1>2. CASE Query \/ Protect \/ ProtectFails \/ Save \/ Store \/ Restore \/ RestoreFails
  <2>1. /\ UNCHANGED <<lib, hooks, self, h, symidx>> /\ Replacing
        /\ pc' \notin {"header", "parse"}
        /\ pc' = "reloc" \/ Replacing' => UNCHANGED <<section, iter>>
    BY <1>2, AfterFoundFacts
    DEF Query, Protect, ProtectFails, Save, Store, Restore, RestoreFails,
        AfterStore, Fail, Replacing, input, place
  <2>2. pc \notin {"header", "parse", "done"}
    BY <2>1 DEF Replacing
  <2>3. QED
    BY <1>1, <2>1, <2>2, QuietReads
<1>3. CASE UNCHANGED vars
  BY <1>1, <1>3 DEF vars, RInv, Parsed, Looked, InSection, Replacing
<1>4. QED
  BY <1>1, <1>2, <1>3, StartReads, OpenReads, RelocReads DEF Next

(***************************************************************************)
(* The hash lookup gives the symbol of the hook or nothing where the       *)
(* library has none of that name (find_symidx_by_name, xh_elf.c:356-446),  *)
(* and what either iterator returns for it, from the whole of a section or *)
(* from one that is cut off, is a relocation of the library that binds the *)
(* symbol (xh_elf.c:958-975): for libraries of any size that are written   *)
(* as XhElfWritten says.                                                   *)
(***************************************************************************)
THEOREM AlwaysReadsRight ==
  ASSUME AllReadable
  PROVE  Spec => []ReadsRight
<1>1. Init => RInv
  BY InitRInv
<1>2. RInv /\ [Next]_vars => RInv'
  BY StepRInv
<1>3. RInv => ReadsRight
  BY RInvReads
<1>4. QED
  BY <1>1, <1>2, <1>3, PTL DEF Spec

-----------------------------------------------------------------------------

\* The sections before each one.
Earlier == [none |-> {}, plt |-> {}, dyn |-> {"plt"}, android |-> {"plt", "dyn"}]

\* A hook that did not fail left its function, or a later hook of the symbol
\* its own, in every word that a relocation binds to the symbol.
HooksDone ==
  \A k \in 1 .. h :
    k \notin failed /\ (k < h \/ pc \in {"hook", "done"}) =>
      \A r \in lib.relocs : Binds(r, hooks[k].symbol) =>
        \E j \in k .. h :
          hooks[j].symbol = hooks[k].symbol /\ slots[r.at] = hooks[j].new

\* The hook that is made has done so in the sections before.
Done(r) == slots[r.at] = hooks[h].new

SectionsDone ==
  pc \in {"section", "reloc"} \/ Replacing =>
    \A r \in lib.relocs :
      /\ Binds(r, hooks[h].symbol)
      /\ r.section \in Earlier[section] \/ (pc = "section" /\ r.section = section)
      => Done(r)

\* And in its section as far as the iterator is, but for the word at addr.
HasIn(words, a, f) == a \in DOMAIN words /\ words[a] = f

EntryDone(x) ==
  IsSought(x) =>
    \/ HasIn(slots, Wrap(self.bias + x.offset), hooks[h].new)
    \/ Replacing /\ pc # "restore" /\ Wrap(self.bias + x.offset) = addr

EntriesDone ==
  pc = "reloc" \/ Replacing =>
    \E m \in Nat :
      /\ IterAt(lib, self, section, iter, m)
      /\ \A k \in DOMAIN ListOf(lib, self, section) :
           k <= m => EntryDone(ListOf(lib, self, section)[k])

\* The relocation that is replaced is one of the section.
AtSection ==
  Replacing =>
    \E r \in lib.relocs :
      r.section = section /\ r.at = addr /\ Binds(r, hooks[h].symbol)

Stored == pc = "restore" => slots[addr] = hooks[h].new

NoSection == pc \in {"header", "parse", "hook", "done"} => section = "none"

Finished == pc = "done" => h = Len(hooks)

VInv ==
  /\ HooksDone /\ SectionsDone /\ EntriesDone /\ AtSection /\ Stored
  /\ NoSection /\ Finished

AInv == RInv /\ (lib.valid => VInv)

-----------------------------------------------------------------------------
LEMMA ValidWhole ==
  ASSUME AllComplete, RInv, lib.valid
  PROVE  /\ lib.header = {} /\ Parse(lib) # NotFound
         /\ h > 0 \/ pc \notin {"header", "parse", "done"} => Whole(lib, self)
BY DEF AllComplete, Complete, RInv, EInv, Placed, Parsed

LEMMA HookNumbers ==
  ASSUME RInv
  PROVE  /\ h \in 0 .. Len(hooks) /\ Len(hooks) \in Nat
         /\ DOMAIN hooks = 1 .. Len(hooks) /\ failed \subseteq 1 .. h
         /\ DOMAIN slots = DOMAIN lib.slots
         /\ pc \in {"section", "reloc"} \/ Replacing => h > 0
BY HooksFacts DEF RInv, EInv, TypeOK, Placed

LEMMA HooksDoneStays ==
  ASSUME HooksDone, h \in Nat, UNCHANGED <<lib, hooks, slots, h>>,
         failed \subseteq failed',
         pc' \in {"hook", "done"} => pc \in {"hook", "done"} \/ h \in failed'
  PROVE  HooksDone'
<1>1. SUFFICES ASSUME NEW k \in 1 .. h, k \notin failed',
                      k < h \/ pc' \in {"hook", "done"},
                      NEW r \in lib.relocs, Binds(r, hooks[k].symbol)
               PROVE  \E j \in k .. h : /\ hooks[j].symbol = hooks[k].symbol
                                        /\ slots[r.at] = hooks[j].new
  BY DEF HooksDone, Binds
<1>2. k \notin failed
  BY <1>1
<1>3. k < h \/ pc \in {"hook", "done"}
  BY <1>1
<1>4. QED
  BY <1>1, <1>2, <1>3 DEF HooksDone

(***************************************************************************)
(* A relocation of the section that binds the symbol is an entry that is   *)
(* sought.                                                                 *)
(***************************************************************************)
LEMMA BoundEntry ==
  ASSUME Whole(lib, self), Written(lib, self), Looked, h > 0, section \in Sections,
         NEW r \in lib.relocs, r.section = section, Binds(r, hooks[h].symbol)
  PROVE  \E k \in DOMAIN ListOf(lib, self, section) :
           /\ IsSought(ListOf(lib, self, section)[k])
           /\ r.at = Wrap(self.bias + ListOf(lib, self, section)[k].offset)
<1>1. PICK k \in DOMAIN ListOf(lib, self, section) :
        Describes(lib, self, ListOf(lib, self, section)[k], r)
  BY DEF Whole
<1> DEFINE x == ListOf(lib, self, section)[k]
<1>2. /\ r.at = Wrap(self.bias + x.offset) /\ R_SYM(x.info) \in DOMAIN lib.names
      /\ lib.names[R_SYM(x.info)] = hooks[h].symbol /\ R_TYPE(x.info) = r.type
  BY <1>1 DEF Describes, Binds
<1>3. R_SYM(x.info) = symidx
  <2> HIDE DEF x
  <2>1. symidx \in {i \in DOMAIN lib.names : lib.names[i] = hooks[h].symbol}
    BY <1>2 DEF Looked, Finds
  <2>2. QED
    BY <1>2, <2>1 DEF Whole
<1>4. R_TYPE(x.info) \in Types(section)
  BY <1>2 DEF Binds, Types, Sections
<1>5. IsSought(x)
  BY <1>3, <1>4 DEF IsSought
<1>6. QED
  BY <1>2, <1>5

(***************************************************************************)
(* What is done when the search goes on after a relocation of the symbol.  *)
(***************************************************************************)
LEMMA FoundDone ==
  ASSUME UNCHANGED <<lib, hooks, h, self, symidx, section>>,
         Whole(lib, self), section \in Sections,
         pc' = AfterFound,
         \A r \in lib.relocs :
           Binds(r, hooks[h].symbol) /\ r.section \in Earlier[section]
             => slots'[r.at] = hooks[h].new,
         \E r \in lib.relocs :
           /\ r.section = section /\ Binds(r, hooks[h].symbol)
           /\ slots'[r.at] = hooks[h].new,
         \E m \in Nat :
           /\ IterAt(lib, self, section, iter', m)
           /\ \A k \in DOMAIN ListOf(lib, self, section) :
                k <= m /\ IsSought(ListOf(lib, self, section)[k]) =>
                  HasIn(slots', Wrap(self.bias + ListOf(lib, self, section)[k].offset),
                        hooks[h].new)
  PROVE  SectionsDone' /\ EntriesDone' /\ AtSection' /\ Stored' /\ NoSection' /\ Finished'
<1>1. /\ pc' \in {"section", "reloc"} /\ ~Replacing'
      /\ pc' = "section" => section = "plt"
  BY DEF AfterFound, Replacing
<1>2. AtSection' /\ Stored' /\ NoSection' /\ Finished'
  BY <1>1 DEF AtSection, Stored, NoSection, Finished
<1>3. SectionsDone'
  <2>1. SUFFICES ASSUME NEW r \in lib.relocs, Binds(r, hooks[h].symbol),
                        \/ r.section \in Earlier[section]
                        \/ pc' = "section" /\ r.section = section
                 PROVE  slots'[r.at] = hooks[h].new
    BY DEF SectionsDone, Done, Binds
  <2>2. CASE pc' = "section" /\ r.section = section
    <3>1. PICK t \in lib.relocs :
            /\ t.section = section /\ Binds(t, hooks[h].symbol)
            /\ slots'[t.at] = hooks[h].new
      OBVIOUS
    <3>2. r.at = t.at
      <4>1. /\ r.section = "plt" /\ t.section = "plt" /\ r.symbol = t.symbol
            /\ Binds(r, r.symbol) /\ Binds(t, t.symbol)
        BY <1>1, <2>1, <2>2, <3>1 DEF Binds
      <4>2. QED
        BY <4>1 DEF Whole
    <3>3. QED
      BY <3>1, <3>2
  <2>3. QED
    BY <2>1, <2>2
<1>4. EntriesDone'
  <2>1. PICK m \in Nat :
           /\ IterAt(lib, self, section, iter', m)
           /\ \A k \in DOMAIN ListOf(lib, self, section) :
                k <= m /\ IsSought(ListOf(lib, self, section)[k]) =>
                  HasIn(slots', Wrap(self.bias + ListOf(lib, self, section)[k].offset),
                        hooks[h].new)
    OBVIOUS
  <2>2. \A k \in DOMAIN ListOf(lib, self, section) :
          k <= m => EntryDone(ListOf(lib, self, section)[k])'
    BY <2>1 DEF EntryDone, IsSought, Types
  <2>3. QED
    BY <2>1, <2>2 DEF EntriesDone
<1>5. QED
  BY <1>2, <1>3, <1>4

LEMMA InitAInv == ASSUME AllComplete PROVE Init => AInv
<1> SUFFICES ASSUME Init PROVE AInv
  OBVIOUS
<1>1. RInv
  BY InitRInv
<1>2. pc = "header" /\ h = 0 /\ section = "none"
  BY DEF Init
<1>3. HooksDone
  BY <1>2 DEF HooksDone
<1>4. VInv
  BY <1>2, <1>3 DEF VInv, SectionsDone, EntriesDone, AtSection, Stored, NoSection,
     Finished, Replacing
<1>5. QED
  BY <1>1, <1>4 DEF AInv

LEMMA StartDone ==
  ASSUME AllReadable, AllComplete, RInv, RInv', lib.valid, VInv,
         CheckHeader \/ ElfInit \/ StartHook \/ EndHooks
  PROVE  VInv'
<1>1. pc' \notin {"reloc"} /\ ~Replacing' /\ pc' # "restore"
  BY DEF CheckHeader, ElfInit, StartHook, EndHooks, Replacing
<1>2. EntriesDone' /\ AtSection' /\ Stored'
  BY <1>1 DEF EntriesDone, AtSection, Stored
<1>3. UNCHANGED <<lib, hooks, slots, section, failed>> /\ section = "none"
  BY DEF CheckHeader, ElfInit, StartHook, EndHooks, input, memory, place, history,
     VInv, NoSection
<1>4. NoSection'
  BY <1>3 DEF NoSection
<1>5. CASE CheckHeader \/ ElfInit
  <2>1. h' = h /\ h = 0 /\ pc' \notin {"done", "section"}
    BY <1>5, ValidWhole DEF CheckHeader, ElfInit, place, RInv, EInv, Placed
  <2>2. HooksDone' /\ SectionsDone' /\ Finished'
    BY <1>1, <2>1 DEF HooksDone, SectionsDone, Finished
  <2>3. QED
    BY <1>2, <1>4, <2>2 DEF VInv
<1>6. CASE EndHooks
  <2>1. h' = h /\ h = Len(hooks) /\ pc = "hook" /\ pc' = "done"
    BY <1>6 DEF EndHooks, place
  <2>2. HooksDone'
    BY <1>3, <2>1, HooksDoneStays, HookNumbers DEF VInv
  <2>3. SectionsDone' /\ Finished'
    BY <1>1, <1>3, <2>1 DEF SectionsDone, Finished
  <2>4. QED
    BY <1>2, <1>4, <2>2, <2>3 DEF VInv
<1>7. CASE StartHook
  <2>1. /\ pc = "hook" /\ h' = h + 1 /\ h' \in Nat /\ h \in Nat
        /\ pc' = IF symidx' = NotFound THEN "hook" ELSE "section"
    BY <1>7, HookNumbers DEF StartHook
  <2>2. Written(lib, self) /\ Whole(lib, self) /\ self' = self
    BY <1>7, <2>1, ReadWritten, ValidWhole DEF RInv, StartHook
  <2>3. ASSUME symidx' = NotFound, NEW r \in lib.relocs, Binds(r, hooks[h'].symbol)
        PROVE  FALSE
    <3>1. PICK x : Describes(lib, self, x, r)
      BY <2>2, <2>3 DEF Whole
    <3>2. PICK i \in DOMAIN lib.names : lib.names[i] = hooks[h'].symbol
      BY <2>3, <3>1 DEF Describes, Binds
    <3>3. Finds(lib.names, hooks[h'].symbol, symidx')
      BY <1>3, <2>1 DEF RInv, Looked
    <3>4. symidx' \in DOMAIN lib.names
      BY <3>2, <3>3 DEF Finds
    <3>5. symidx' \in Nat
      BY <2>2, <3>4 DEF Written, HashRight, Numbered
    <3>6. QED
      BY <2>3, <3>5, XhElfAssumption DEF XhElfAssumption
  <2>4. HooksDone'
    <3>1. SUFFICES ASSUME NEW k \in 1 .. h', k \notin failed,
                          k < h' \/ pc' \in {"hook", "done"},
                          NEW r \in lib.relocs, Binds(r, hooks[k].symbol)
                   PROVE  \E j \in k .. h' : /\ hooks[j].symbol = hooks[k].symbol
                                             /\ slots[r.at] = hooks[j].new
      BY <1>3 DEF HooksDone, Binds
    <3>2. CASE k = h'
      BY <2>1, <2>3, <3>1, <3>2
    <3>3. CASE k # h'
      <4>1. k \in 1 .. h
        BY <2>1, <3>1, <3>3
      <4>2. PICK j \in k .. h : /\ hooks[j].symbol = hooks[k].symbol
                                /\ slots[r.at] = hooks[j].new
        BY <2>1, <3>1, <4>1 DEF VInv, HooksDone
      <4>3. j \in k .. h'
        BY <2>1
      <4>4. QED
        BY <4>2, <4>3
    <3>4. QED
      BY <3>2, <3>3
  <2>5. SectionsDone'
    <3>1. \A r \in lib.relocs : r.section \notin Earlier["none"] /\ r.section # "none"
      BY <2>2 DEF Whole, Earlier
    <3>2. QED
      BY <1>1, <1>3, <3>1 DEF SectionsDone
  <2>6. Finished'
    BY <2>1 DEF Finished
  <2>7. QED
    BY <1>2, <1>4, <2>4, <2>5, <2>6 DEF VInv
<1>8. QED
  BY <1>5, <1>6, <1>7

LEMMA OpenDone ==
  ASSUME AllReadable, AllComplete, RInv, RInv', lib.valid, VInv, OpenSection
  PROVE  VInv'
<1>1. /\ UNCHANGED <<lib, hooks, slots, self, h, symidx, failed>> /\ pc = "section"
      /\ pc' \in {"hook", "section", "reloc"} /\ ~Replacing'
      /\ section' = Following[section]
  BY DEF OpenSection, input, memory, history, Replacing
<1>2. section \in {"none", "plt", "dyn", "android"} /\ h > 0 /\ h \in Nat
  BY <1>1, HookNumbers DEF RInv, EInv, TypeOK, Following
<1>3. Written(lib, self) /\ Whole(lib, self)
  BY <1>1, ReadWritten, ValidWhole DEF RInv
<1>4. \A r \in lib.relocs :
        /\ Binds(r, hooks[h].symbol)
        /\ r.section \in Earlier[section] \/ r.section = section
        => slots[r.at] = hooks[h].new
  BY <1>1 DEF VInv, SectionsDone, Done
<1>5. /\ section = "none" => section' = "plt"
      /\ section = "plt" => section' = "dyn"
      /\ section = "dyn" => section' = "android"
      /\ section = "android" => section' = "none"
  BY <1>1 DEF Following
<1>6. AtSection' /\ Stored' /\ Finished' /\ NoSection'
  BY <1>1 DEF OpenSection, AtSection, Stored, Finished, NoSection, Replacing
<1>7. CASE section' = "none"
  <2>1. pc' = "hook" /\ section = "android"
    BY <1>2, <1>5, <1>7 DEF OpenSection
  <2>2. \A r \in lib.relocs : Binds(r, hooks[h].symbol) => slots[r.at] = hooks[h].new
    BY <1>3, <1>4, <2>1 DEF Whole, Earlier
  <2>3. HooksDone'
    <3>1. SUFFICES ASSUME NEW k \in 1 .. h, k \notin failed,
                          NEW r \in lib.relocs, Binds(r, hooks[k].symbol)
                   PROVE  \E j \in k .. h : /\ hooks[j].symbol = hooks[k].symbol
                                            /\ slots[r.at] = hooks[j].new
      BY <1>1 DEF HooksDone, Binds
    <3>2. CASE k = h
      <4>1. k \in k .. h
        BY <1>2, <3>2
      <4>2. QED
        BY <2>2, <3>1, <3>2, <4>1
    <3>3. CASE k # h
      <4>1. k < h
        BY <1>2, <3>3
      <4>2. QED
        BY <3>1, <4>1 DEF VInv, HooksDone
    <3>4. QED
      BY <3>2, <3>3
  <2>4. SectionsDone' /\ EntriesDone'
    BY <1>1, <2>1 DEF SectionsDone, EntriesDone
  <2>5. QED
    BY <1>6, <2>3, <2>4 DEF VInv
<1>8. CASE section' # "none"
  <2>1. HooksDone'
    BY <1>1, <1>2, <1>8, HooksDoneStays DEF OpenSection, VInv
  <2>2. section' \in Sections
        /\ \A s : s \in Earlier[section'] => s \in Earlier[section] \/ s = section
    BY <1>2, <1>5, <1>8 DEF Earlier, Sections
  <2>3. SectionsDone'
    <3>1. SUFFICES ASSUME NEW r \in lib.relocs, Binds(r, hooks[h].symbol),
                          \/ r.section \in Earlier[section']
                          \/ pc' = "section" /\ r.section = section'
                   PROVE  slots[r.at] = hooks[h].new
      BY <1>1 DEF SectionsDone, Done, Binds
    <3>2. CASE pc' = "section" /\ r.section = section'
      <4>1. self[section'] = 0
        BY <1>8, <3>2 DEF OpenSection
      <4>2. self[r.section] # 0
        BY <1>3 DEF Whole
      <4>3. QED
        BY <3>2, <4>1, <4>2
    <3>3. QED
      BY <1>4, <2>2, <3>1, <3>2
  <2>4. EntriesDone'
    <3>1. SUFFICES ASSUME pc' = "reloc"
                   PROVE  \E m \in Nat :
                            /\ IterAt(lib, self, section', iter', m)
                            /\ \A k \in DOMAIN ListOf(lib, self, section') : ~(k <= m)
      BY <1>1 DEF EntriesDone
    <3>2. iter' = StartOf(lib, self, section')
      BY <3>1 DEF OpenSection, StartOf, SizeOf
    <3>3. IterAt(lib, self, section', iter', 0)
      BY <1>3, <2>2, <3>2, IterStarts
    <3>4. \A k \in DOMAIN ListOf(lib, self, section') : ~(k <= 0)
      <4>1. CASE section' = "android"
        <5>1. PackedRight(lib.packed, self.rela)
          BY <1>3, <3>1, <4>1 DEF OpenSection, Written
        <5>2. DOMAIN lib.packed.list = 1 .. Len(lib.packed.list)
          BY <5>1 DEF PackedRight
        <5>3. QED
          BY <4>1, <5>2 DEF ListOf
      <4>2. CASE section' # "android"
        BY <4>2 DEF ListOf, PlainList
      <4>3. QED
        BY <4>1, <4>2
    <3>5. QED
      BY <3>3, <3>4
  <2>5. QED
    BY <1>6, <2>1, <2>3, <2>4 DEF VInv
<1>9. QED
  BY <1>7, <1>8


(***************************************************************************)
(* A hook that fails, and a step of a replacement before the store.        *)
(***************************************************************************)
LEMMA FailDone ==
  ASSUME VInv, h \in Nat, UNCHANGED <<lib, hooks, slots, h>>, Fail
  PROVE  VInv'
<1>1. failed' = failed \cup {h} /\ section' = "none" /\ pc' = "hook"
  BY DEF Fail
<1>2. HooksDone'
  BY <1>1, HooksDoneStays DEF VInv
<1>3. ~Replacing'
  BY <1>1 DEF Replacing
<1>4. SectionsDone' /\ EntriesDone' /\ AtSection' /\ Stored' /\ NoSection' /\ Finished'
  BY <1>1, <1>3
  DEF SectionsDone, EntriesDone, AtSection, Stored, NoSection, Finished
<1>5. QED
  BY <1>2, <1>4 DEF VInv

LEMMA GoOnDone ==
  ASSUME VInv, h \in Nat,
         UNCHANGED <<lib, hooks, slots, self, h, symidx, section, iter, addr, failed>>,
         Replacing, pc # "restore", Replacing', pc' # "restore"
  PROVE  VInv'
<1>1. pc' \notin {"reloc", "section", "header", "parse", "hook", "done"}
  BY DEF Replacing
<1>2. HooksDone'
  BY <1>1, HooksDoneStays DEF VInv
<1>3. SectionsDone'
  BY <1>1 DEF VInv, SectionsDone, Done, Binds
<1>4. EntriesDone'
  <2>1. PICK m \in Nat :
           /\ IterAt(lib, self, section, iter, m)
           /\ \A k \in DOMAIN ListOf(lib, self, section) :
                k <= m => EntryDone(ListOf(lib, self, section)[k])
    BY DEF VInv, EntriesDone
  <2>2. \A k \in DOMAIN ListOf(lib, self, section) :
          k <= m => EntryDone(ListOf(lib, self, section)[k])'
    BY <2>1 DEF EntryDone, IsSought, Types
  <2>3. QED
    BY <2>1, <2>2 DEF EntriesDone
<1>5. AtSection'
  BY DEF VInv, AtSection, Binds
<1>6. Stored' /\ NoSection' /\ Finished'
  BY <1>1 DEF Stored, NoSection, Finished
<1>7. QED
  BY <1>2, <1>3, <1>4, <1>5, <1>6 DEF VInv

LEMMA RelocDone ==
  ASSUME AllReadable, AllComplete, RInv, lib.valid, VInv, Reloc
  PROVE  VInv'
<1> DEFINE list == ListOf(lib, self, section)
<1>1. /\ UNCHANGED <<lib, hooks, slots, self, h, symidx>> /\ pc = "reloc"
      /\ ~Replacing
  BY DEF Reloc, input, memory, Replacing
<1>2. h > 0 /\ h \in Nat /\ section \in Sections /\ self[section] # 0
  BY <1>1, HookNumbers DEF RInv, InSection
<1>3. Written(lib, self) /\ Whole(lib, self)
  BY <1>1, ReadWritten, ValidWhole DEF RInv
<1>4. PICK m \in Nat :
        /\ IterAt(lib, self, section, iter, m)
        /\ \A k \in DOMAIN list :
             k <= m /\ IsSought(list[k]) =>
               HasIn(slots, Wrap(self.bias + list[k].offset), hooks[h].new)
  BY <1>1 DEF VInv, EntriesDone, EntryDone
<1>5. \A r \in lib.relocs :
        Binds(r, hooks[h].symbol) /\ r.section \in Earlier[section]
          => slots[r.at] = hooks[h].new
  BY <1>1 DEF VInv, SectionsDone, Done
<1>6. PICK rel, at :
        /\ rel = NextReloc /\ at = Wrap(self.bias + rel.offset)
        /\ \/ /\ ~rel.ok
              /\ pc' = "section"
              /\ UNCHANGED <<section, failed>>
           \/ /\ rel.ok /\ ~IsSought(rel)
              /\ iter' = rel.iter
              /\ UNCHANGED <<section, pc, failed>>
           \/ Fail
           \/ /\ rel.ok /\ IsSought(rel) /\ at >= lib.base
              /\ Holds(at, hooks[h].new)
              /\ iter' = rel.iter
              /\ pc' = AfterFound
              /\ UNCHANGED <<section, failed>>
           \/ /\ rel.ok /\ IsSought(rel) /\ at >= lib.base
              /\ iter' = rel.iter
              /\ addr' = at
              /\ pc' = "query"
              /\ UNCHANGED <<section, failed>>
  BY DEF Reloc
<1> HIDE DEF list
<1>7. /\ rel.ok => /\ m + 1 \in DOMAIN list
                   /\ rel.offset = list[m + 1].offset
                   /\ rel.info = list[m + 1].info
                   /\ IterAt(lib, self, section, rel.iter, m + 1)
      /\ ~rel.ok => \A k \in DOMAIN list : k <= m
  BY <1>2, <1>3, <1>4, <1>6, NextRelocIs, IterSteps DEF list
<1>8. rel.ok => /\ IsSought(rel) <=> IsSought(list[m + 1])
                /\ at = Wrap(self.bias + list[m + 1].offset)
  BY <1>6, <1>7 DEF IsSought
<1>9. DOMAIN list \subseteq Nat
  <2>1. CASE section = "android"
    <3>1. PackedRight(lib.packed, self.rela)
      BY <1>2, <1>3, <2>1 DEF Written
    <3>2. QED
      BY <2>1, <3>1 DEF PackedRight, ListOf, list
  <2>2. CASE section # "android"
    BY <2>2 DEF ListOf, PlainList, list
  <2>3. QED
    BY <2>1, <2>2
<1>10. pc' \notin {"hook", "done"} /\ failed' = failed => HooksDone'
  BY <1>1, <1>2, HooksDoneStays DEF VInv
<1>11. CASE Fail
  BY <1>1, <1>2, <1>11, FailDone
<1>12. CASE ~rel.ok /\ pc' = "section" /\ UNCHANGED <<section, failed>>
  <2>1. EntriesDone' /\ AtSection' /\ Stored' /\ NoSection' /\ Finished'
    BY <1>12 DEF EntriesDone, AtSection, Stored, NoSection, Finished, Replacing
  <2>2. SectionsDone'
    <3>1. SUFFICES ASSUME NEW r \in lib.relocs, Binds(r, hooks[h].symbol),
                          \/ r.section \in Earlier[section]
                          \/ r.section = section
                   PROVE  slots[r.at] = hooks[h].new
      BY <1>1, <1>12 DEF SectionsDone, Done, Binds
    <3>2. CASE r.section = section
      <4>1. PICK k \in DOMAIN list :
              IsSought(list[k]) /\ r.at = Wrap(self.bias + list[k].offset)
        BY <1>2, <1>3, <3>1, <3>2, BoundEntry DEF RInv, list
      <4>2. QED
        BY <1>4, <1>7, <1>12, <4>1 DEF HasIn
    <3>3. QED
      BY <1>5, <3>1, <3>2
  <2>3. QED
    BY <1>10, <1>12, <2>1, <2>2 DEF VInv
<1>13. CASE /\ rel.ok /\ ~IsSought(rel)
            /\ iter' = rel.iter
            /\ UNCHANGED <<section, pc, failed>>
  <2>1. AtSection' /\ Stored' /\ NoSection' /\ Finished'
    BY <1>1, <1>13 DEF AtSection, Stored, NoSection, Finished, Replacing
  <2>2. SectionsDone'
    BY <1>1, <1>5, <1>13 DEF SectionsDone, Done, Binds
  <2>3. EntriesDone'
    <3>1. \A k \in DOMAIN list : k <= m + 1 => EntryDone(list[k])'
      <4>1. SUFFICES ASSUME NEW k \in DOMAIN list, k <= m + 1, IsSought(list[k])
                     PROVE  HasIn(slots, Wrap(self.bias + list[k].offset), hooks[h].new)
        BY <1>1, <1>13 DEF EntryDone, IsSought, Types, list
      <4>2. k # m + 1
        BY <1>8, <1>13, <4>1
      <4>3. k <= m
        BY <1>9, <4>1, <4>2
      <4>4. QED
        BY <1>4, <4>1, <4>3
    <3>2. m + 1 \in Nat /\ IterAt(lib, self, section, iter', m + 1)
      BY <1>7, <1>13
    <3>3. QED
      BY <1>1, <1>13, <3>1, <3>2 DEF EntriesDone, list
  <2>4. QED
    BY <1>1, <1>10, <1>13, <2>1, <2>2, <2>3 DEF VInv
<1>14. ASSUME rel.ok, IsSought(rel), at >= lib.base
       PROVE  \E r \in lib.relocs :
                r.section = section /\ r.at = at /\ Binds(r, hooks[h].symbol)
  <2>1. R_SYM(list[m + 1].info) = symidx /\ R_TYPE(list[m + 1].info) \in Types(section)
    BY <1>8, <1>14 DEF IsSought
  <2>2. QED
    BY <1>2, <1>3, <1>7, <1>8, <1>14, <2>1, EntryBinds DEF RInv, list
<1>15. CASE /\ rel.ok /\ IsSought(rel) /\ at >= lib.base
            /\ Holds(at, hooks[h].new)
            /\ iter' = rel.iter
            /\ pc' = AfterFound
            /\ UNCHANGED <<section, failed>>
  <2>1. HasIn(slots, at, hooks[h].new)
    BY <1>15 DEF Holds, HasIn
  <2>2. \E r \in lib.relocs :
          /\ r.section = section /\ Binds(r, hooks[h].symbol)
          /\ slots[r.at] = hooks[h].new
    BY <1>14, <1>15, <2>1 DEF HasIn
  <2>3. m + 1 \in Nat /\ IterAt(lib, self, section, iter', m + 1)
    BY <1>7, <1>15
  <2>4. \A k \in DOMAIN list :
          k <= m + 1 /\ IsSought(list[k]) =>
            HasIn(slots, Wrap(self.bias + list[k].offset), hooks[h].new)
    <3>1. SUFFICES ASSUME NEW k \in DOMAIN list, k <= m + 1, IsSought(list[k])
                   PROVE  HasIn(slots, Wrap(self.bias + list[k].offset), hooks[h].new)
      OBVIOUS
    <3>2. CASE k = m + 1
      BY <1>8, <1>15, <2>1, <3>2
    <3>3. CASE k # m + 1
      <4>1. k <= m
        BY <1>9, <3>1, <3>3
      <4>2. QED
        BY <1>4, <3>1, <4>1
    <3>4. QED
      BY <3>2, <3>3
  <2>5. SectionsDone' /\ EntriesDone' /\ AtSection' /\ Stored' /\ NoSection' /\ Finished'
    BY <1>1, <1>2, <1>3, <1>5, <1>15, <2>2, <2>3, <2>4, FoundDone DEF list
  <2>6. HooksDone'
    BY <1>10, <1>15, AfterFoundFacts
  <2>7. QED
    BY <2>5, <2>6 DEF VInv
<1>16. CASE /\ rel.ok /\ IsSought(rel) /\ at >= lib.base
            /\ iter' = rel.iter
            /\ addr' = at
            /\ pc' = "query"
            /\ UNCHANGED <<section, failed>>
  <2>1. Stored' /\ NoSection' /\ Finished'
    BY <1>16 DEF Stored, NoSection, Finished
  <2>2. AtSection'
    BY <1>1, <1>14, <1>16 DEF AtSection, Binds
  <2>3. SectionsDone'
    BY <1>1, <1>5, <1>16 DEF SectionsDone, Done, Binds
  <2>4. EntriesDone'
    <3>1. \A k \in DOMAIN list : k <= m + 1 => EntryDone(list[k])'
      <4>1. SUFFICES ASSUME NEW k \in DOMAIN list, k <= m + 1, IsSought(list[k])
                     PROVE  \/ HasIn(slots, Wrap(self.bias + list[k].offset), hooks[h].new)
                            \/ Wrap(self.bias + list[k].offset) = at
        BY <1>1, <1>16 DEF EntryDone, IsSought, Types, Replacing, list
      <4>2. CASE k = m + 1
        BY <1>8, <1>16, <4>2
      <4>3. CASE k # m + 1
        <5>1. k <= m
          BY <1>9, <4>1, <4>3
        <5>2. QED
          BY <1>4, <4>1, <5>1
      <4>4. QED
        BY <4>2, <4>3
    <3>2. m + 1 \in Nat /\ IterAt(lib, self, section, iter', m + 1)
      BY <1>7, <1>16
    <3>3. QED
      BY <1>1, <1>16, <3>1, <3>2 DEF EntriesDone, list
  <2>5. QED
    BY <1>10, <1>16, <2>1, <2>2, <2>3, <2>4 DEF VInv
<1>17. QED
  BY <1>6, <1>11, <1>12, <1>13, <1>15, <1>16


LEMMA QueryDone ==
  ASSUME RInv, VInv, Query \/ Protect \/ ProtectFails \/ Save
  PROVE  VInv'
<1>1. /\ UNCHANGED <<lib, hooks, slots, self, h, symidx, iter, addr>>
      /\ Replacing /\ pc # "restore"
  BY DEF Query, Protect, ProtectFails, Save, input, memory, place, Replacing
<1>2. h \in Nat
  BY <1>1, HookNumbers
<1>3. Fail \/ (UNCHANGED <<section, failed>> /\ pc' \in {"protect", "save", "store"})
  BY DEF Query, Protect, ProtectFails, Save, place, history
<1>4. CASE Fail
  BY <1>1, <1>2, <1>4, FailDone
<1>5. CASE UNCHANGED <<section, failed>> /\ pc' \in {"protect", "save", "store"}
  <2>1. Replacing' /\ pc' # "restore"
    BY <1>5 DEF Replacing
  <2>2. QED
    BY <1>1, <1>2, <1>5, <2>1, GoOnDone
<1>6. QED
  BY <1>3, <1>4, <1>5

LEMMA StoreDone ==
  ASSUME AllReadable, AllComplete, RInv, lib.valid, VInv, Store
  PROVE  VInv'
<1> DEFINE list == ListOf(lib, self, section)
<1>1. /\ UNCHANGED <<lib, hooks, self, h, symidx, section, iter, addr, failed>>
      /\ slots' = [slots EXCEPT ![addr] = hooks[h].new]
      /\ pc = "store" /\ pc' = AfterStore /\ Replacing
  BY DEF Store, input, place, history, Replacing
<1>2. h > 0 /\ h \in Nat /\ section \in Sections /\ self[section] # 0
  BY <1>1, HookNumbers DEF RInv, InSection
<1>3. Written(lib, self) /\ Whole(lib, self)
  BY <1>1, ReadWritten, ValidWhole DEF RInv
<1>4. PICK t \in lib.relocs :
        t.section = section /\ t.at = addr /\ Binds(t, hooks[h].symbol)
  BY <1>1 DEF VInv, AtSection
<1>5. addr \in DOMAIN slots
  BY <1>3, <1>4, HookNumbers DEF Written
<1>6. /\ DOMAIN slots' = DOMAIN slots
      /\ \A a \in DOMAIN slots :
           slots'[a] = IF a = addr THEN hooks[h].new ELSE slots[a]
  BY <1>1
<1>7. \A r \in lib.relocs : r.at \in DOMAIN slots
  BY <1>3, HookNumbers DEF Written
<1>8. \A r \in lib.relocs :
        Binds(r, hooks[h].symbol) /\ r.section \in Earlier[section]
          => slots'[r.at] = hooks[h].new
  BY <1>1, <1>6, <1>7 DEF VInv, SectionsDone, Done
<1>9. PICK m \in Nat :
        /\ IterAt(lib, self, section, iter, m)
        /\ \A k \in DOMAIN list :
             k <= m /\ IsSought(list[k]) =>
               HasIn(slots', Wrap(self.bias + list[k].offset), hooks[h].new)
  <2>1. PICK m \in Nat :
          /\ IterAt(lib, self, section, iter, m)
          /\ \A k \in DOMAIN list : k <= m => EntryDone(list[k])
    BY <1>1 DEF VInv, EntriesDone
  <2>2. ASSUME NEW k \in DOMAIN list, k <= m, IsSought(list[k])
        PROVE  HasIn(slots', Wrap(self.bias + list[k].offset), hooks[h].new)
    <3> DEFINE a == Wrap(self.bias + list[k].offset)
    <3>1. HasIn(slots, a, hooks[h].new) \/ a = addr
      BY <2>1, <2>2 DEF EntryDone
    <3>2. QED
      BY <1>5, <1>6, <3>1 DEF HasIn
  <2>3. QED
    BY <2>1, <2>2
<1>10. HooksDone'
  <2>1. SUFFICES ASSUME NEW k \in 1 .. h, k \notin failed,
                        k < h \/ pc' \in {"hook", "done"},
                        NEW r \in lib.relocs, Binds(r, hooks[k].symbol)
                 PROVE  \E j \in k .. h : /\ hooks[j].symbol = hooks[k].symbol
                                          /\ slots'[r.at] = hooks[j].new
    BY <1>1 DEF HooksDone, Binds
  <2>2. k < h
    BY <1>1, <2>1, AfterFoundFacts DEF AfterStore
  <2>3. CASE r.at = addr
    <3>1. r.symbol = t.symbol
      <4>1. Binds(r, r.symbol) /\ Binds(t, t.symbol)
        BY <1>4, <2>1 DEF Binds
      <4>2. QED
        BY <1>3, <1>4, <2>3, <4>1 DEF Whole
    <3>2. hooks[h].symbol = hooks[k].symbol
      BY <1>4, <2>1, <3>1 DEF Binds
    <3>3. h \in k .. h /\ slots'[r.at] = hooks[h].new
      BY <1>2, <1>5, <1>6, <2>2, <2>3
    <3>4. QED
      BY <3>2, <3>3
  <2>4. CASE r.at # addr
    <3>1. \E j \in k .. h : /\ hooks[j].symbol = hooks[k].symbol
                            /\ slots[r.at] = hooks[j].new
      BY <2>1, <2>2 DEF VInv, HooksDone
    <3>2. slots'[r.at] = slots[r.at]
      BY <1>6, <1>7, <2>4
    <3>3. QED
      BY <3>1, <3>2
  <2>5. QED
    BY <2>3, <2>4
<1>11. slots'[addr] = hooks[h].new
  BY <1>5, <1>6
<1>12. CASE pc' = AfterFound
  <2>1. \E r \in lib.relocs :
          /\ r.section = section /\ Binds(r, hooks[h].symbol)
          /\ slots'[r.at] = hooks[h].new
    BY <1>4, <1>11
  <2>2. SectionsDone' /\ EntriesDone' /\ AtSection' /\ Stored' /\ NoSection' /\ Finished'
    BY <1>1, <1>2, <1>3, <1>8, <1>9, <1>12, <2>1, FoundDone
  <2>3. QED
    BY <1>10, <2>2 DEF VInv
<1>13. CASE pc' = "restore"
  <2>1. NoSection' /\ Finished'
    BY <1>13 DEF NoSection, Finished
  <2>2. Stored'
    BY <1>1, <1>11 DEF Stored
  <2>3. AtSection'
    BY <1>1, <1>4 DEF AtSection, Binds
  <2>4. SectionsDone'
    BY <1>1, <1>8, <1>13 DEF SectionsDone, Done, Binds
  <2>5. EntriesDone'
    <3>1. \A k \in DOMAIN list : k <= m => EntryDone(list[k])'
      BY <1>1, <1>9 DEF EntryDone, IsSought, Types
    <3>2. QED
      BY <1>1, <1>9, <3>1 DEF EntriesDone
  <2>6. QED
    BY <1>10, <2>1, <2>2, <2>3, <2>4, <2>5 DEF VInv
<1>14. QED
  BY <1>1, <1>12, <1>13 DEF AfterStore

LEMMA RestoreDone ==
  ASSUME AllReadable, AllComplete, RInv, lib.valid, VInv, Restore \/ RestoreFails
  PROVE  VInv'
<1> DEFINE list == ListOf(lib, self, section)
<1>1. /\ UNCHANGED <<lib, hooks, slots, self, h, symidx, section, iter, failed>>
      /\ pc = "restore" /\ pc' = AfterFound /\ Replacing
  BY DEF Restore, RestoreFails, input, memory, place, history, Replacing
<1>2. h > 0 /\ h \in Nat /\ section \in Sections /\ self[section] # 0
  BY <1>1, HookNumbers DEF RInv, InSection
<1>3. Whole(lib, self)
  BY <1>1, ValidWhole DEF RInv
<1>4. \E r \in lib.relocs :
        /\ r.section = section /\ Binds(r, hooks[h].symbol)
        /\ slots[r.at] = hooks[h].new
  BY <1>1 DEF VInv, AtSection, Stored
<1>5. \A r \in lib.relocs :
        Binds(r, hooks[h].symbol) /\ r.section \in Earlier[section]
          => slots[r.at] = hooks[h].new
  BY <1>1 DEF VInv, SectionsDone, Done
<1>6. PICK m \in Nat :
        /\ IterAt(lib, self, section, iter, m)
        /\ \A k \in DOMAIN list :
             k <= m /\ IsSought(list[k]) =>
               HasIn(slots, Wrap(self.bias + list[k].offset), hooks[h].new)
  BY <1>1 DEF VInv, EntriesDone, EntryDone
<1>7. SectionsDone' /\ EntriesDone' /\ AtSection' /\ Stored' /\ NoSection' /\ Finished'
  BY <1>1, <1>2, <1>3, <1>4, <1>5, <1>6, FoundDone
<1>8. HooksDone'
  BY <1>1, <1>2, HooksDoneStays, AfterFoundFacts DEF VInv
<1>9. QED
  BY <1>7, <1>8 DEF VInv

LEMMA StepAInv ==
  ASSUME AllReadable, AllComplete, AInv, [Next]_vars
  PROVE  AInv'
<1>1. RInv'
  BY StepRInv DEF AInv
<1>2. lib' = lib
  BY DEF Next, CheckHeader, ElfInit, StartHook, EndHooks, OpenSection, Reloc, Query,
     Protect, ProtectFails, Save, Store, Restore, RestoreFails, input, vars
<1>3. ASSUME lib.valid
      PROVE  VInv'
  <2>1. RInv /\ VInv
    BY <1>3 DEF AInv
  <2>2. CASE CheckHeader \/ ElfInit \/ StartHook \/ EndHooks
    BY <1>1, <1>3, <2>1, <2>2, StartDone
  <2>3. CASE OpenSection
    BY <1>1, <1>3, <2>1, <2>3, OpenDone
  <2>4. CASE Reloc
    BY <1>3, <2>1, <2>4, RelocDone
  <2>5. CASE Query \/ Protect \/ ProtectFails \/ Save
    BY <2>1, <2>5, QueryDone
  <2>6. CASE Store
    BY <1>3, <2>1, <2>6, StoreDone
  <2>7. CASE Restore \/ RestoreFails
    BY <1>3, <2>1, <2>7, RestoreDone
  <2>8. CASE UNCHANGED vars
    <3>1. UNCHANGED <<lib, hooks, slots, self, h, symidx, section, iter, addr, pc, failed>>
      BY <2>8 DEF vars
    <3>2. HooksDone'
      BY <2>1, <3>1 DEF VInv, HooksDone, Binds
    <3>3. SectionsDone'
      BY <2>1, <3>1 DEF VInv, SectionsDone, Done, Binds, Replacing
    <3>4. EntriesDone'
      BY <2>1, <3>1 DEF VInv, EntriesDone, EntryDone, IsSought, Types, Replacing
    <3>5. AtSection'
      BY <2>1, <3>1 DEF VInv, AtSection, Binds, Replacing
    <3>6. Stored' /\ NoSection' /\ Finished'
      BY <2>1, <3>1 DEF VInv, Stored, NoSection, Finished
    <3>7. QED
      BY <3>2, <3>3, <3>4, <3>5, <3>6 DEF VInv
  <2>9. QED
    BY <2>2, <2>3, <2>4, <2>5, <2>6, <2>7, <2>8 DEF Next
<1>4. QED
  BY <1>1, <1>2, <1>3 DEF AInv

LEMMA DoneReplaced ==
  ASSUME AInv
  PROVE  AllReplaced
<1>1. SUFFICES ASSUME pc = "done", lib.valid,
                      NEW r \in lib.relocs, NEW k \in Latest(r.symbol),
                      Binds(r, r.symbol)
               PROVE  slots[r.at] \in {hooks[j].new : j \in {k} \cup
                        {i \in failed : i > k /\ hooks[i].symbol = r.symbol}}
  BY DEF AllReplaced
<1>2. /\ h = Len(hooks) /\ h \in Nat /\ DOMAIN hooks = 1 .. h
      /\ RInv /\ VInv
  BY <1>1, HookNumbers DEF AInv, VInv, Finished
<1>3. k \in 1 .. h /\ k \notin failed /\ hooks[k].symbol = r.symbol
  BY <1>2 DEF Latest
<1>4. PICK j \in k .. h : hooks[j].symbol = r.symbol /\ slots[r.at] = hooks[j].new
  BY <1>1, <1>2, <1>3 DEF VInv, HooksDone
<1>5. CASE j = k
  BY <1>4, <1>5
<1>6. CASE j # k
  <2>1. j > k /\ j \in k + 1 .. Len(hooks)
    BY <1>2, <1>3, <1>4, <1>6
  <2>2. j \in failed
    BY <1>4, <2>1 DEF Latest
  <2>3. QED
    BY <1>4, <2>1, <2>2
<1>7. QED
  BY <1>5, <1>6

(***************************************************************************)
(* When the hooks are made, each word that a relocation of a whole library *)
(* binds to a hooked symbol, in whichever of the three sections, holds the *)
(* function of the latest hook of the symbol that did not fail ("replace   *)
(* for .rel(a).plt", xh_elf.c:1005-1042): for any number of hooks,         *)
(* relocations and failures.                                               *)
(***************************************************************************)
THEOREM AlwaysAllReplaced ==
  ASSUME AllReadable, AllComplete
  PROVE  Spec => []AllReplaced
<1>1. Init => AInv
  BY InitAInv
<1>2. AInv /\ [Next]_vars => AInv'
  BY StepAInv
<1>3. AInv => AllReplaced
  BY DoneReplaced
<1>4. QED
  BY <1>1, <1>2, <1>3, PTL DEF Spec

-----------------------------------------------------------------------------
(***************************************************************************)
(* From the file to the memory: where libraries are written as             *)
(* XhElfWritten says, only words that relocations bind to a hooked symbol  *)
(* are replaced, by the function of its hook, and every store goes to      *)
(* memory that can be written, whatever fails (xh_elf.c:455-490 and        *)
(* 958-975).                                                               *)
(***************************************************************************)
THEOREM SafeFromFile ==
  ASSUME AllReadable
  PROVE  Spec => [](TypeOK /\ OnlySought /\ StoreWritable)
<1>1. Spec => []ReadsRight
  BY AlwaysReadsRight
<1>2. QED
  BY <1>1, TypeCorrect, OnlySoughtReplaced, StoresWritable, PTL

(***************************************************************************)
(* Also from the file: the pages have their permissions back between two   *)
(* replacements ("restore the old prot", xh_elf.c:485), and calls through  *)
(* the pointers end in the functions they were loaded with at any moment   *)
(* ("save old func", xh_elf.c:476).                                        *)
(***************************************************************************)
THEOREM TransparentFromFile ==
  ASSUME AllReadable, StraddleAlike, OneOriginal, NoReturn
  PROVE  Spec => [](ProtRestored /\ CallsEnd)
<1>1. Spec => []ReadsRight
  BY AlwaysReadsRight
<1>2. Spec /\ []ReadsRight => []ProtRestored
  BY ProtComesBack
<1>3. Spec /\ []ReadsRight => []CallsEnd
  BY CallsAlwaysEnd
<1>4. QED
  BY <1>1, <1>2, <1>3, PTL
=============================================================================
