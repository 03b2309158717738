----------------------------- MODULE XhElfWritten -----------------------------
(***************************************************************************)
(* What the words of a library have to do with its symbols and relocations *)
(* when a link editor has written it and the dynamic linker has mapped it. *)
(* The formats are stated here of the tables themselves, without the loops *)
(* with which xh_elf.c reads them: this is what the proofs about the       *)
(* reading assume of a library.                                            *)
(***************************************************************************)
EXTENDS XhElf, FiniteSets

\* Symbols are numbered from 0.
Numbered(names) ==
  /\ Cardinality(DOMAIN names) \in Nat
  /\ DOMAIN names = 0 .. Cardinality(DOMAIN names) - 1

\* DT_HASH: every chain comes to an end, and every symbol but symbol 0 is the
\* first one of its bucket or follows another one of the bucket.
SysvRight(table, names) ==
  LET listed == DOMAIN names \ {0}
      BucketOf(i) == SysvHash[names[i]] % table.buckets
  IN
  /\ table.buckets \in Nat \ {0}
  /\ \A b \in 0 .. table.buckets - 1 : table.bucket[b] \in DOMAIN names
  /\ \A i \in listed : table.chain[i] \in DOMAIN names
  /\ \E rank \in [DOMAIN names -> 0 .. Cardinality(DOMAIN names)] :
       \A i \in listed : rank[table.chain[i]] < rank[i]
  /\ \A i \in listed :
       \/ table.bucket[BucketOf(i)] = i
       \/ \E j \in listed : table.chain[j] = i /\ BucketOf(j) = BucketOf(i)

\* DT_GNU_HASH: the symbols from symoffset on lie in the order of their
\* buckets; the last one of a bucket has an odd value in the chain.
GnuRight(table, names) ==
  LET last == Cardinality(DOMAIN names) - 1
      Stored(i) == table.chain[i - table.symoffset]
  IN
  /\ table.buckets \in Nat \ {0} /\ table.symoffset \in 0 .. last + 1
  /\ \A b \in 0 .. table.buckets - 1 : table.bucket[b] \in 0 .. last
  /\ table.symoffset <= last => Stored(last) % 2 = 1
  /\ \A i \in table.symoffset .. last :
       LET value == GnuHash[names[i]]
           first == table.bucket[value % table.buckets]
       IN
       /\ BloomBits(table, value)
            \subseteq table.bloom[(value \div WordBits) % table.bloomSize]
       /\ first \in table.symoffset .. i
       /\ \A j \in first .. i - 1 : Stored(j) % 2 # 1
       /\ SameHash(value, Stored(i))

HashRight(l, read) ==
  LET table == l.tables[read.hash]  names == l.tables[read.symtab] IN
  /\ names = l.names /\ Numbered(names)
  /\ \A hs \in Hooks : \A k \in DOMAIN hs : hs[k].symbol # names[0]
  /\ IF read.gnu THEN GnuRight(table, names) ELSE SysvRight(table, names)

-----------------------------------------------------------------------------
\* How many values in a packed section the relocations of a group share, and
\* how many each one has.
Shared(flags) ==
  If(ByDelta(flags)) + If(ByInfo(flags)) + If(HasAddend(flags) /\ ByAddend(flags))
Own(flags, rela) ==
  If(~ByDelta(flags)) + If(~ByInfo(flags))
    + If(rela /\ HasAddend(flags) /\ ~ByAddend(flags))

\* Where the values of a group end that begin at its position at.
GroupEnd(g, rela) == g.at + 2 + Shared(g.flags) + g.size * Own(g.flags, rela)

\* The i-th relocation of a group has the offset and the info of the relocation
\* x, when the one before it has the offset before.
InGroup(values, rela, group, i, before, x) ==
  LET flags == group.flags
      shared == group.at + 2
      own == shared + Shared(flags) + (i - 1) * Own(flags, rela)
  IN
  /\ x.offset = Wrap(before + values[IF ByDelta(flags) THEN shared ELSE own])
  /\ x.info = values[IF ByInfo(flags) THEN shared + If(ByDelta(flags))
                     ELSE own + If(~ByDelta(flags))]

\* The values of a packed section are the number of its relocations, the first
\* offset and the groups, each from position at on and after from relocations.
PackedRight(packed, rela) ==
  LET values == packed.values
      groups == packed.groups
      list == packed.list
  IN
  /\ Len(values) \in Nat /\ DOMAIN values = 1 .. Len(values)
  /\ Len(groups) \in Nat /\ DOMAIN groups = 1 .. Len(groups)
  /\ Len(list) \in Nat /\ DOMAIN list = 1 .. Len(list)
  /\ 2 <= Len(values) /\ values[1] = Len(list)
  /\ Len(list) > 0 => Len(groups) > 0 /\ groups[1].from = 0 /\ groups[1].at = 3
  /\ \A n \in DOMAIN groups :
       LET g == groups[n] IN
       /\ g.from \in Nat /\ {g.at, g.size} \subseteq Nat \ {0}
       /\ GroupEnd(g, rela) - 1 <= Len(values)
       /\ values[g.at] = g.size /\ values[g.at + 1] = g.flags
       /\ HasAddend(g.flags) /\ ByAddend(g.flags) => rela
       /\ IF n = Len(groups) THEN g.from + g.size = Len(list)
          ELSE groups[n + 1].from = g.from + g.size /\ groups[n + 1].at = GroupEnd(g, rela)
       /\ g.from + g.size <= Len(list)
       /\ \A i \in 1 .. g.size :
            InGroup(values, rela, g, i,
                    IF g.from + i = 1 THEN values[2] ELSE list[g.from + i - 1].offset,
                    list[g.from + i])

\* The values that are there, also when the section is cut off.
CutOff(some, values) ==
  /\ Len(some) \in Nat /\ DOMAIN some = 1 .. Len(some)
  /\ Len(some) <= Len(values)
  /\ \A k \in DOMAIN some : some[k] = values[k]

\* The offsets and infos that the words of a plain section give.
PlainList(l, read, s) ==
  LET words == l.tables[read[s]]
      size == IF s = "plt" THEN read.pltSize ELSE read.dynSize
      stride == Stride(read.rela)
  IN  [k \in 1 .. (size + stride - 1) \div stride |->
         [offset |-> Word(words, (k - 1) * stride + 1),
          info |-> Word(words, (k - 1) * stride + 2)]]

ListOf(l, read, s) ==
  IF s = "android" THEN l.packed.list ELSE PlainList(l, read, s)

\* x has the offset and the info of the relocation r.
Describes(l, read, x, r) ==
  /\ r.at = Wrap(read.bias + x.offset)
  /\ R_SYM(x.info) \in DOMAIN l.names /\ r.symbol = l.names[R_SYM(x.info)]
  /\ r.type = R_TYPE(x.info)

SectionRight(l, read, s) ==
  LET list == ListOf(l, read, s) IN
  \A k \in DOMAIN list :
    \/ ~(Wrap(read.bias + list[k].offset) >= l.base)
    \/ \E r \in l.relocs : r.section = s /\ Describes(l, read, list[k], r)

PackedValues(l, read) == PackedStart(l, read.android, read.androidSize).vals

\* What is read is what is meant; a section may be cut off and relocations may
\* point before the library.
Written(l, read) ==
  /\ HashRight(l, read)
  /\ {read.pltSize, read.dynSize} \subseteq Nat
  /\ \A r \in l.relocs : r.at \in DOMAIN l.slots
  /\ read.android # 0 =>
       /\ PackedRight(l.packed, read.rela)
       /\ CutOff(PackedValues(l, read), l.packed.values)
  /\ \A s \in {"plt", "dyn", "android"} : read[s] # 0 => SectionRight(l, read, s)

\* All that is meant is there: each relocation in its section, and at most one
\* of a symbol in the PLT.
Whole(l, read) ==
  /\ \A i, j \in DOMAIN l.names : l.names[i] = l.names[j] => i = j
  /\ read.android # 0 => Len(PackedValues(l, read)) = Len(l.packed.values)
  /\ \A r \in l.relocs :
       /\ r.section \in {"plt", "dyn", "android"}
       /\ read[r.section] # 0
       /\ \E k \in DOMAIN ListOf(l, read, r.section) :
            Describes(l, read, ListOf(l, read, r.section)[k], r)
  /\ \A r, t \in l.relocs :
       /\ Binds(r, r.symbol) /\ Binds(t, t.symbol) /\ r.at = t.at
            => r.symbol = t.symbol
       /\ r.section = "plt" /\ t.section = "plt" /\ r.symbol = t.symbol
            /\ Binds(r, r.symbol) /\ Binds(t, t.symbol) => r.at = t.at

\* A library that the code refuses is not read.
Readable(l) == l.header # {} \/ Parse(l) = NotFound \/ Written(l, Parse(l))

Complete(l) ==
  l.valid => l.header = {} /\ Parse(l) # NotFound /\ Whole(l, Parse(l))

AllReadable == \A l \in Libs : Readable(l)
AllComplete == \A l \in Libs : Complete(l)

-----------------------------------------------------------------------------
(***************************************************************************)
(* What single properties need besides: of the words and pages of the      *)
(* libraries and of what is hooked.                                        *)
(***************************************************************************)
\* A pointer that lies on two pages has the same permissions on both, and
\* those either lack nothing but what a replacement adds, or include it.
StraddleAlike ==
  \A l \in Libs : \A a \in DOMAIN l.slots :
    PagesOf(a) \subseteq l.named =>
      \A p, q \in PagesOf(a) : p # q =>
        /\ l.prot[p] = l.prot[q]
        /\ \/ l.prot[p] \subseteq NeedProt
           \/ NeedProt \subseteq l.prot[p]

\* r binds a symbol.
Binding(l, r) == r \in l.relocs /\ Binds(r, r.symbol)

\* A word is bound to one symbol, all words of a symbol hold the same function
\* at first, and none of them is a new function.
OneOriginal ==
  \A l \in Libs :
    /\ \A r, s \in {x \in l.relocs : Binding(l, x)} :
         /\ r.at = s.at => r.symbol = s.symbol
         /\ r.symbol = s.symbol => l.slots[r.at] = l.slots[s.at]
    /\ \A a \in DOMAIN l.slots : l.slots[a] \notin News

\* A function is not hooked for a symbol again after another one was.
NoReturn ==
  \A hs \in Hooks : \A i, j, k \in DOMAIN hs :
    i < j /\ j < k /\ hs[i].new = hs[k].new /\ hs[i].symbol = hs[j].symbol
      => hs[j].new = hs[i].new
=============================================================================
