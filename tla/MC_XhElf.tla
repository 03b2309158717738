------------------------------- MODULE MC_XhElf -------------------------------
(***************************************************************************)
(* Libraries as a link editor writes them, for model checking.             *)
(***************************************************************************)
EXTENDS XhElfWritten, SequencesExt

CONSTANTS n1, n2, n3

\* Symbol 0 has no name, then two imported symbols, then the defined ones in
\* the order of their hash buckets.
Names == <<"", "open", "read", "init", "exit", "fini">>
SymOffset == 3
NamesFrom0 == [i \in 0 .. Len(Names) - 1 |-> Names[i + 1]]
Indices == DOMAIN NamesFrom0
Index(name) == CHOOSE i \in Indices : NamesFrom0[i] = name

\* "gone" passes the bloom filter and "none" does not; "read" has the hash of
\* "exit", and "init" and "fini" differ in the lowest bit.
SysvHashDef == [open |-> 3, read |-> 3, init |-> 3, exit |-> 1, fini |-> 0,
                gone |-> 3, none |-> 2]
GnuHashDef == [open |-> 21, read |-> 20, init |-> 4, exit |-> 20, fini |-> 5,
               gone |-> 36, none |-> 7]

Buckets == 2
InBucket(hash, from, b) ==
  {i \in Indices : i >= from /\ hash[NamesFrom0[i]] % Buckets = b}

SysvTable ==
  LET Before(i) == {j \in InBucket(SysvHash, 1, SysvHash[NamesFrom0[i]] % Buckets)
                      : j < i}
  IN  [buckets |-> Buckets,
       bucket |-> [b \in 0 .. Buckets - 1 |-> Max(InBucket(SysvHash, 1, b) \cup {0})],
       chain |-> [i \in Indices |-> IF i = 0 THEN 0 ELSE Max(Before(i) \cup {0})]]

GnuTable ==
  LET hash(i) == GnuHash[NamesFrom0[i]]
      Same(i) == InBucket(GnuHash, SymOffset, hash(i) % Buckets)
      table == [shift |-> 3]
  IN  [buckets |-> Buckets, symoffset |-> SymOffset, shift |-> 3, bloomSize |-> 1,
       bloom |-> [w \in {0} |->
                   UNION {BloomBits(table, hash(i)) : i \in SymOffset .. Len(Names) - 1}],
       bucket |-> [b \in 0 .. Buckets - 1 |-> Min(InBucket(GnuHash, SymOffset, b))],
       chain |-> [k \in 0 .. Len(Names) - 1 - SymOffset |->
                   LET i == k + SymOffset IN
                   2 * (hash(i) \div 2) + IF i = Max(Same(i)) THEN 1 ELSE 0]]

-----------------------------------------------------------------------------
RELATIVE == 8
COPY == 5
Rel(symbol, type, off, addend) ==
  [symbol |-> symbol, type |-> type, off |-> off, addend |-> addend]
Info(r) == Index(r.symbol) * TypeBase + r.type

Plt == <<Rel("read", JUMP_SLOT, 64, 0), Rel("open", JUMP_SLOT, 66, 0)>>

\* The last word of page 4 and the first of page 5, and a word of the code.
Dyn == <<Rel("", RELATIVE, 68, 5), Rel("open", GLOB_DAT, 70, 0),
         Rel("init", ABS, 72, 0), Rel("open", COPY, 76, 0),
         Rel("open", ABS, 79, 0), Rel("exit", ABS, 112, 0)>>

Android == <<Rel("", RELATIVE, 90, 3), Rel("", RELATIVE, 92, 3),
             Rel("fini", GLOB_DAT, 94, 0), Rel("open", ABS, 96, 0),
             Rel("read", ABS, 88, 0)>>
FirstOffset == 88

Plain(rels, rela) ==
  FlattenSeq([k \in DOMAIN rels |->
    <<rels[k].off, Info(rels[k])>> \o IF rela THEN <<rels[k].addend>> ELSE <<>>])

SlebOf(v) ==
  LET n == Min({m \in 1 .. 3 : -(2^(7 * m - 1)) <= v /\ v < 2^(7 * m - 1)}) IN
  [i \in 1 .. n |-> ((v \div 128^(i - 1)) % 128) + IF i < n THEN 128 ELSE 0]

\* A group is a number of relocations and its flags.
Group(n, flags) == [n |-> n, flags |-> flags]
RelGroups == {<<Group(5, {})>>, <<Group(3, {2}), Group(2, {})>>,
              <<Group(2, {1, 2}), Group(1, {}), Group(1, {2}), Group(1, {1})>>}
RelaGroups == {<<Group(5, {8})>>, <<Group(2, {1, 2, 4, 8}), Group(3, {4, 8})>>,
               <<Group(2, {1, 8}), Group(3, {})>>}

\* Where the relocations of each group begin.
StartsOf(groups) ==
  LET StartOf[g \in 1 .. Len(groups) + 1] ==
        IF g = 1 THEN 1 ELSE StartOf[g - 1] + groups[g - 1].n
  IN  StartOf

\* The values of each group.
GroupValues(groups) ==
  LET StartOf == StartsOf(groups)
      GroupOf(k) == CHOOSE g \in DOMAIN groups :
                      StartOf[g] <= k /\ k < StartOf[g + 1]
      Flags(k) == groups[GroupOf(k)].flags
      Step(k) == Android[k].off -
                   IF k = 1 THEN FirstOffset ELSE Android[k - 1].off
      Addend(k) == Android[k].addend -
                     IF k = 1 \/ 8 \notin Flags(k - 1) THEN 0
                     ELSE Android[k - 1].addend
      Opt(b, v) == IF b THEN <<v>> ELSE <<>>
      Fields(g) ==
        LET k == StartOf[g]  F == groups[g].flags IN
        <<groups[g].n, SumSet(F)>>
          \o Opt(2 \in F, Step(k)) \o Opt(1 \in F, Info(Android[k]))
          \o Opt({4, 8} \subseteq F, Addend(k))
      Item(k) ==
        LET F == Flags(k) IN
        Opt(2 \notin F, Step(k)) \o Opt(1 \notin F, Info(Android[k]))
          \o Opt(8 \in F /\ 4 \notin F, Addend(k))
  IN  [g \in DOMAIN groups |->
         Fields(g) \o FlattenSeq([i \in 1 .. groups[g].n |-> Item(StartOf[g] + i - 1)])]

PackedValuesOf(groups) ==
  <<Len(Android), FirstOffset>> \o FlattenSeq(GroupValues(groups))

Packed(groups) ==
  LET values == PackedValuesOf(groups) IN
  Magic \o FlattenSeq([k \in DOMAIN values |-> SlebOf(values[k])])

\* What the packed section is meant to be.
PackedMeant(groups) ==
  LET values == PackedValuesOf(groups) IN
  [values |-> [k \in DOMAIN values |-> Wrap(values[k])],
   groups |->
     [g \in DOMAIN groups |->
       [at |-> 3 + Len(FlattenSeq(SubSeq(GroupValues(groups), 1, g - 1))),
        from |-> StartsOf(groups)[g] - 1,
        size |-> groups[g].n,
        flags |-> SumSet(groups[g].flags)]],
   list |-> [k \in DOMAIN Android |->
              [offset |-> Android[k].off, info |-> Info(Android[k])]]]

-----------------------------------------------------------------------------
Entry(tag, val) == [tag |-> tag, val |-> val]

\* Addresses of the tables relative to the load bias.
At == [dynamic |-> 32, STRTAB |-> 36, SYMTAB |-> 40, HASH |-> 44,
       GNU_HASH |-> 48, plt |-> 52, dyn |-> 56, android |-> 60]

PageOf(a) == a \div PageSize

(***************************************************************************)
(* A library: whether its relocations have addends, its hash tables in the *)
(* order of the dynamic section, the groups of its packed relocations, the *)
(* address of its first segment, which relocation sections it has, and     *)
(* which pages have its path.                                              *)
(***************************************************************************)
LibOf(rela, hashes, groups, vaddr, sections, unnamed) ==
  LET base == 208
      bias == base - vaddr
      plain == [plt |-> Plain(Plt, rela), dyn |-> Plain(Dyn, rela)]
      packed == Packed(groups)
      Part(s, entries) == IF s \in sections THEN entries ELSE <<>>
      A(name) == IF rela THEN name \o "A" ELSE name
      rels == [plt |-> Plt, dyn |-> Dyn, android |-> Android]
      dynamic ==
        <<Entry("STRTAB", At.STRTAB)>>
          \o [k \in DOMAIN hashes |-> Entry(hashes[k], At[hashes[k]])]
          \o <<Entry("SYMTAB", At.SYMTAB)>>
          \o Part("plt", <<Entry("PLTRELSZ", Len(plain.plt)),
                         Entry("PLTREL", IF rela THEN DT_RELA ELSE 17),
                         Entry("JMPREL", At.plt)>>)
          \o Part("dyn", <<Entry(IF rela THEN "RELA" ELSE "REL", At.dyn),
                         Entry(IF rela THEN "RELASZ" ELSE "RELSZ", Len(plain.dyn))>>)
          \o Part("android",
                <<Entry(IF rela THEN "ANDROID_RELA" ELSE "ANDROID_REL", At.android),
                  Entry(IF rela THEN "ANDROID_RELASZ" ELSE "ANDROID_RELSZ",
                        Len(packed))>>)
          \o <<Entry("NULL", 0), Entry("SYMTAB", At.STRTAB), Entry("JMPREL", 1)>>
  IN
  [base |-> base,
   header |-> {},
   phdrs |-> <<[type |-> "PHDR", offset |-> 4, vaddr |-> 4, memsz |-> 4],
               [type |-> "LOAD", offset |-> 0, vaddr |-> vaddr, memsz |-> 64],
               [type |-> "LOAD", offset |-> 64, vaddr |-> 64, memsz |-> 64],
               [type |-> "DYNAMIC", offset |-> 32, vaddr |-> At.dynamic,
                memsz |-> Len(dynamic)]>>,
   tables |-> [a \in {bias + At[n] : n \in DOMAIN At} |->
                CASE a = bias + At.dynamic -> dynamic
                  [] a = bias + At.STRTAB -> <<>>
                  [] a = bias + At.SYMTAB -> NamesFrom0
                  [] a = bias + At.HASH -> SysvTable
                  [] a = bias + At.GNU_HASH -> GnuTable
                  [] a = bias + At.plt -> plain.plt
                  [] a = bias + At.dyn -> plain.dyn
                  [] a = bias + At.android -> packed],
   slots |-> [a \in UNION {{bias + rels[s][k].off : k \in DOMAIN rels[s]}
                            : s \in DOMAIN rels} |->
               (CHOOSE r \in UNION {ToSet(rels[s]) : s \in DOMAIN rels} :
                  bias + r.off = a).symbol],
   prot |-> [p \in PageOf(bias + 64) .. PageOf(bias + 112) |->
              IF p = PageOf(bias + 112) THEN {"r", "x"}
              ELSE IF p = PageOf(bias + 96) THEN {"r", "w"} ELSE {"r"}],
   named |-> {PageOf(bias + a) : a \in {64, 80, 96, 112} \ unnamed},
   names |-> NamesFrom0,
   relocs |-> UNION {{[section |-> s, symbol |-> rels[s][k].symbol,
                       type |-> rels[s][k].type, at |-> bias + rels[s][k].off]
                       : k \in DOMAIN rels[s]} : s \in sections},
   packed |-> PackedMeant(groups),
   valid |-> TRUE]

AllSections == {"plt", "dyn", "android"}

Valid ==
  {LibOf(FALSE, hashes, groups, 0, AllSections, {}) :
     hashes \in {<<"HASH">>, <<"GNU_HASH">>}, groups \in RelGroups}
  \cup {LibOf(TRUE, hashes, groups, 16, AllSections, {}) :
     hashes \in {<<"HASH", "GNU_HASH">>, <<"GNU_HASH", "HASH">>},
     groups \in RelaGroups}
  \cup {LibOf(TRUE, <<"GNU_HASH">>, <<Group(5, {8})>>, 16, {"plt", s}, {96}) :
     s \in {"dyn", "android"}}
  \cup {LibOf(FALSE, <<"HASH">>, <<Group(5, {})>>, 0, {"dyn"}, {})}

\* Files that the code refuses, and two that it reads, with a relocation that
\* points before the library and with a packed section that is cut off.
Sample ==
  [LibOf(TRUE, <<"GNU_HASH", "HASH">>, <<Group(5, {8})>>, 16, AllSections, {})
    EXCEPT !.valid = FALSE]
Damaged ==
  LET dynamic == Sample.base - 16 + At.dynamic
      plt == Sample.base - 16 + At.plt
      magic == Sample.base - 16 + At.android
      size == CHOOSE k \in DOMAIN Sample.tables[dynamic] :
                Sample.tables[dynamic][k].tag = "ANDROID_RELASZ"
  IN  {[Sample EXCEPT !.header = {"class"}],
       [Sample EXCEPT !.phdrs = SubSeq(@, 1, 3)],
       [Sample EXCEPT !.phdrs[2].offset = 1],
       [Sample EXCEPT !.tables[dynamic][1] = Entry("NULL", 0)],
       [Sample EXCEPT !.tables[dynamic][1].val = 3],
       [Sample EXCEPT !.tables[magic][4] = 49],
       [Sample EXCEPT !.tables[dynamic][size].val = 3],
       [Sample EXCEPT !.tables[dynamic][size].val = @ - 1],
       [Sample EXCEPT !.tables[plt][1] = 3]}

LibsAll == Valid \cup Damaged

\* A 64-bit library that calls nothing through a PLT.
LibsNoPlt ==
  {LibOf(TRUE, <<"GNU_HASH">>, <<Group(5, {8})>>, 16, {"dyn"}, {})}

Hook(symbol, new) == [symbol |-> symbol, new |-> new]
HooksAll ==
  {<<Hook("open", n1), Hook("read", n2), Hook("open", n3), Hook("open", n3)>>,
   <<Hook("init", n1), Hook("gone", n2), Hook("exit", n3)>>,
   <<Hook("none", n1), Hook("fini", n2)>>}

HooksNoPlt == {<<Hook("open", n1)>>}

\* The hash tables and packed sections above are well formed.
ASSUME WellFormed ==
  /\ \A i, j \in SymOffset .. Len(Names) - 1 :
       i < j => GnuHash[NamesFrom0[i]] % Buckets <= GnuHash[NamesFrom0[j]] % Buckets
  /\ \A G \in RelGroups \cup RelaGroups :
       Len(Android) = FoldLeft(LAMBDA n, g : n + g.n, 0, G)

\* All of them are what the proofs assume, but for the library that is read
\* with the wrong stride.
ASSUME AllWritten ==
  /\ \A l \in LibsAll : Readable(l) /\ Complete(l)
  /\ \A l \in LibsNoPlt : ~Readable(l)

\* Words, pages and hooks are as the proofs of single properties need them.
ASSUME Suited == StraddleAlike /\ OneOriginal /\ NoReturn
=============================================================================
