----------------------------- MODULE XhElfFormat -----------------------------
(***************************************************************************)
(* How xh_elf.c reads a library that is mapped: its program headers, its   *)
(* dynamic section, its hash tables and its relocation sections.  A        *)
(* library is a record                                                     *)
(*   base    where it is mapped,                                           *)
(*   header  the fields of its ELF header that do not have the value the   *)
(*           code expects,                                                 *)
(*   phdrs   its program headers: type, offset, vaddr and memsz,           *)
(*   tables  what is in memory at an address: the dynamic section as a     *)
(*           sequence of tags and values, the symbol table with the names  *)
(*           of the symbols, a hash table as a record, a plain relocation  *)
(*           section as a sequence of words, a packed one as bytes.        *)
(* Addresses and sizes count words, bytes in a packed section.             *)
(***************************************************************************)
EXTENDS Integers, Sequences, FiniteSetsExt

CONSTANTS
  WordBits,   \* width of size_t and of ElfW(Addr)
  TypeBase,   \* r_info is the symbol times TypeBase plus the type
  SysvHash,   \* xh_elf_hash of each name
  GnuHash,    \* xh_elf_gnu_hash of each name
  NotFound    \* no symbol index

R_SYM(info) == info \div TypeBase
R_TYPE(info) == info % TypeBase
Wrap(n) == n % 2^WordBits
HasFlag(flags, bit) == (flags \div bit) % 2 = 1

-----------------------------------------------------------------------------
(***************************************************************************)
(* xh_elf_init                                                             *)
(***************************************************************************)
DynPointers == {"STRTAB", "SYMTAB", "JMPREL", "REL", "RELA", "ANDROID_REL",
                "ANDROID_RELA", "HASH", "GNU_HASH"}

\* The entries of a dynamic section before DT_NULL.
Live(dyn) ==
  LET nulls == {k \in DOMAIN dyn : dyn[k].tag = "NULL"} IN
  IF nulls = {} THEN dyn ELSE SubSeq(dyn, 1, Min(nulls) - 1)

\* DT_HASH is ignored after DT_GNU_HASH.
IgnoresHash(dyn, k) ==
  dyn[k].tag = "HASH" /\ \E j \in 1 .. k - 1 : dyn[j].tag = "GNU_HASH"

\* The last entry with one of the tags counts.
Entries(dyn, tags) == {k \in DOMAIN dyn : dyn[k].tag \in tags}
Value(dyn, tags) ==
  LET E == Entries(dyn, tags) IN IF E = {} THEN 0 ELSE dyn[Max(E)].val
Pointer(dyn, bias, tags) ==
  IF Entries(dyn, tags) = {} THEN 0 ELSE bias + Value(dyn, tags)

UsesGnuHash(dyn) == Entries(dyn, {"GNU_HASH"}) # {}

\* is_use_rela: whether the PLT's relocations have an addend.
DT_RELA == 7
UsesRela(dyn) == Value(dyn, {"PLTREL"}) = DT_RELA

Magic == <<65, 80, 83, 50>>   \* "APS2"

\* The fields of xh_elf_t, or NotFound for XH_ERRNO_FORMAT.
Parse(lib) ==
  LET load == SelectSeq(lib.phdrs, LAMBDA p : p.type = "LOAD" /\ p.offset = 0)
      dynamic == SelectSeq(lib.phdrs, LAMBDA p : p.type = "DYNAMIC")
  IN
  IF load = <<>> \/ dynamic = <<>> \/ lib.base < Head(load).vaddr
  THEN NotFound
  ELSE
  LET bias == lib.base - Head(load).vaddr
      dyn == Live(SubSeq(lib.tables[bias + Head(dynamic).vaddr], 1,
                         Head(dynamic).memsz))
      android == Pointer(dyn, bias, {"ANDROID_REL", "ANDROID_RELA"})
      androidSize == Value(dyn, {"ANDROID_RELSZ", "ANDROID_RELASZ"})
      gnu == UsesGnuHash(dyn)
      self ==
        [bias |-> bias,
         strtab |-> Pointer(dyn, bias, {"STRTAB"}),
         symtab |-> Pointer(dyn, bias, {"SYMTAB"}),
         gnu |-> gnu,
         hash |-> Pointer(dyn, bias, {IF gnu THEN "GNU_HASH" ELSE "HASH"}),
         rela |-> UsesRela(dyn),
         plt |-> Pointer(dyn, bias, {"JMPREL"}),
         pltSize |-> Value(dyn, {"PLTRELSZ"}),
         dyn |-> Pointer(dyn, bias, {"REL", "RELA"}),
         dynSize |-> Value(dyn, {"RELSZ", "RELASZ"}),
         android |-> android,
         androidSize |-> androidSize - Len(Magic)]
  IN
  IF \/ \E k \in Entries(dyn, DynPointers) :
          ~IgnoresHash(dyn, k) /\ bias + dyn[k].val < lib.base
     \/ /\ android # 0
        /\ \/ androidSize < Len(Magic)
           \/ SubSeq(lib.tables[android], 1, Len(Magic)) # Magic
     \/ 0 \in {lib.base, bias, self.strtab, self.symtab, self.hash}
  THEN NotFound ELSE self

-----------------------------------------------------------------------------
(***************************************************************************)
(* xh_elf_find_symidx_by_name: names is the symbol table, from index 0.    *)
(***************************************************************************)
\* Follow the chain of a bucket that ends with 0.
SysvLookup(table, names, symbol) ==
  LET From[i \in DOMAIN names] ==
        IF i = 0 THEN NotFound
        ELSE IF names[i] = symbol THEN i ELSE From[table.chain[i]]
  IN  From[table.bucket[SysvHash[symbol] % table.buckets]]

\* The two bits of the bloom filter that a name with this hash sets.
BloomBits(table, h) ==
  {h % WordBits, (h \div 2^table.shift) % WordBits}

\* The hash values in a chain have their lowest bit set at the end of a bucket.
SameHash(a, b) == a \div 2 = b \div 2

GnuLookupDefined(table, names, symbol) ==
  LET h == GnuHash[symbol]
      bloom == table.bloom[(h \div WordBits) % table.bloomSize]
      From[i \in DOMAIN names] ==
        LET stored == table.chain[i - table.symoffset] IN
        IF SameHash(h, stored) /\ names[i] = symbol THEN i
        ELSE IF stored % 2 = 1 THEN NotFound ELSE From[i + 1]
      first == table.bucket[h % table.buckets]
  IN  IF ~(BloomBits(table, h) \subseteq bloom) \/ first < table.symoffset
      THEN NotFound ELSE From[first]

\* The symbols below symoffset are not in the hash table.
GnuLookupUndefined(table, names, symbol) ==
  LET found == {i \in 0 .. table.symoffset - 1 : names[i] = symbol} IN
  IF found = {} THEN NotFound ELSE Min(found)

GnuLookup_DefinedOnly(table, names, symbol) ==
  GnuLookupDefined(table, names, symbol)

GnuLookup(table, names, symbol) ==
  LET defined == GnuLookupDefined(table, names, symbol) IN
  IF defined # NotFound THEN defined
  ELSE GnuLookupUndefined(table, names, symbol)

FindSymidx(lib, self, symbol) ==
  LET table == lib.tables[self.hash]
      names == lib.tables[self.symtab]
  IN  IF self.gnu THEN GnuLookup(table, names, symbol)
      ELSE SysvLookup(table, names, symbol)

-----------------------------------------------------------------------------
(***************************************************************************)
(* The iterators.  Next relocations are records with ok, offset and info;  *)
(* ok is FALSE where the code returns NULL.                                *)
(***************************************************************************)
PlainStart(addr, size) == [at |-> addr, cur |-> 0, end |-> size]

\* sizeof(ElfW(Rela)) and sizeof(ElfW(Rel)).
Stride(rela) == IF rela THEN 3 ELSE 2

\* A word beyond the last one of a section that ends inside a relocation is
\* taken to be 0.
Word(words, k) == IF k \in DOMAIN words THEN words[k] ELSE 0

PlainNext(lib, rela, it) ==
  LET words == lib.tables[it.at] IN
  [ok |-> it.cur < it.end,
   offset |-> Word(words, it.cur + 1),
   info |-> Word(words, it.cur + 2),
   iter |-> [it EXCEPT !.cur = @ + Stride(rela)]]

\* Where the values of a byte sequence end: at bytes without the highest bit.
Ends(bytes) ==
  SelectSeq([k \in DOMAIN bytes |-> k], LAMBDA k : bytes[k] < 128)

\* The value of the bytes from first to last: groups of 7 bits, the lowest
\* first; those beyond the width of size_t are lost.
Bits(bytes, first, last) ==
  MapThenSumSet(LAMBDA k : (bytes[k] % 128) * 2^(7 * (k - first)),
                {k \in first .. last : 7 * (k - first) < WordBits})

\* xh_elf_sleb128_decoder_next: the value is extended with the sign of the last
\* group, if that leaves room.
Sleb128(bytes, first, last) ==
  LET shift == 7 * (last - first + 1)
      sign == IF shift < WordBits /\ HasFlag(bytes[last], 64)
              THEN 2^shift ELSE 0
  IN  Wrap(Bits(bytes, first, last) - sign)

\* All values that the decoder returns before it fails.
Decode(bytes) ==
  LET ends == Ends(bytes) IN
  [k \in DOMAIN ends |->
     Sleb128(bytes, IF k = 1 THEN 1 ELSE ends[k - 1] + 1, ends[k])]

\* The k-th value; 0 if the decoder fails.
Val(vals, k) == IF k \in DOMAIN vals THEN vals[k] ELSE 0

\* How many values are read if a field is there.
If(there) == IF there THEN 1 ELSE 0

\* xh_elf_packed_reloc_iterator_init; pos is the next value.
PackedStart(lib, addr, size) ==
  LET vals == Decode(SubSeq(lib.tables[addr], Len(Magic) + 1, Len(Magic) + size))
  IN  [vals |-> vals, pos |-> 3, ok |-> TRUE,
       count |-> Val(vals, 1), offset |-> Val(vals, 2),
       index |-> 0, size |-> 0, groupIndex |-> 0, flags |-> 0, delta |-> 0,
       info |-> 0, addend |-> 0]

ByInfo(flags) == HasFlag(flags, 1)
ByDelta(flags) == HasFlag(flags, 2)
ByAddend(flags) == HasFlag(flags, 4)
HasAddend(flags) == HasFlag(flags, 8)

\* xh_elf_packed_reloc_iterator_read_group_fields.
ReadGroup(it, rela) ==
  LET flags == Val(it.vals, it.pos + 1)
      delta == it.pos + 2
      info == delta + If(ByDelta(flags))
      addend == info + If(ByInfo(flags))
      once == HasAddend(flags) /\ ByAddend(flags)
      end == addend + If(once)
  IN  [it EXCEPT
        !.ok = end - 1 <= Len(it.vals) /\ (once => rela),
        !.pos = end,
        !.size = Val(it.vals, it.pos),
        !.flags = flags,
        !.delta = IF ByDelta(flags) THEN Val(it.vals, delta) ELSE @,
        !.info = IF ByInfo(flags) THEN Val(it.vals, info) ELSE @,
        !.addend = IF once THEN Wrap(@ + Val(it.vals, addend))
                   ELSE IF HasAddend(flags) THEN @ ELSE 0,
        !.groupIndex = 0]

\* The fields of one relocation.
ReadReloc(it, rela) ==
  LET info == it.pos + If(~ByDelta(it.flags))
      addend == info + If(~ByInfo(it.flags))
      own == rela /\ HasAddend(it.flags) /\ ~ByAddend(it.flags)
      end == addend + If(own)
  IN  [it EXCEPT
        !.ok = @ /\ end - 1 <= Len(it.vals),
        !.pos = end,
        !.offset = Wrap(@ + IF ByDelta(it.flags) THEN it.delta
                            ELSE Val(it.vals, it.pos)),
        !.info = IF ByInfo(it.flags) THEN @ ELSE Val(it.vals, info),
        !.addend = IF own THEN Wrap(@ + Val(it.vals, addend)) ELSE @,
        !.index = @ + 1,
        !.groupIndex = @ + 1]

\* r_offset is set where it should be added to.
PackedNext_NotAdded(rela, it) ==
  LET group == IF it.groupIndex = it.size THEN ReadGroup(it, rela) ELSE it
      new == ReadReloc([group EXCEPT !.offset = 0], rela)
  IN  [ok |-> it.index < it.count /\ new.ok, offset |-> new.offset,
       info |-> new.info, iter |-> new]

\* xh_elf_packed_reloc_iterator_next.
PackedNext(rela, it) ==
  IF it.index >= it.count
  THEN [ok |-> FALSE, offset |-> 0, info |-> 0, iter |-> it]
  ELSE LET new == ReadReloc(IF it.groupIndex = it.size THEN ReadGroup(it, rela)
                            ELSE it, rela)
       IN  [ok |-> new.ok, offset |-> new.offset, info |-> new.info, iter |-> new]
=============================================================================
