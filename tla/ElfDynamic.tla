----------------------------- MODULE ElfDynamic -----------------------------
(***************************************************************************)
(* elf_dynamic.cpp: what PT_DYNAMIC of a library says of it, read without  *)
(* its section table, and the previews of its entry points in main.cpp.    *)
(*                                                                         *)
(* The file is hostile: every offset, address and size is a number of it.  *)
(* It is given here by its structures: the entries of each PT_DYNAMIC, the *)
(* two hash tables, the relocations and symbols, found wherever the tables *)
(* are said to be, and the places of its NUL bytes. A name is its length,  *)
(* all other bytes being alike.                                            *)
(***************************************************************************)
EXTENDS Integers, Sequences, FiniteSets

CONSTANTS
    Top,            \* numbers are below Top: 2^64
    Families,       \* the files considered: a sequence of sets of them
    MaxEntries, MaxStringTable, MaxName,     \* kMaxDynamicEntries, ...
    MaxSymbols, MaxBuckets, MaxRelocations, MaxInitArray

\* Sizes in bytes of the structures of a 64-bit library.
DynSize == 16
SymSize == 24
RelaSize == 24
RelSize == 16
EntrySize == [rela |-> RelaSize, rel |-> RelSize]

\* Every number of a file may be any 64-bit number.
Numbers == 0..(Top - 1)
SegmentHeaders ==
    [type : STRING, exec : BOOLEAN, offset : Numbers, va : Numbers, filesz : Numbers, memsz : Numbers]
IsFile(f) ==
    /\ f.size \in Numbers
    /\ f.segments \in Seq(SegmentHeaders)
    /\ \A i \in DOMAIN f.segments :
        f.segments[i].type = "dynamic" => f.lists[i] \in Seq(STRING \X Numbers)
    /\ f.nuls \subseteq Nat
    /\ f.sysv \in [buckets : Numbers, chains : Numbers]
    /\ f.gnu \in [symoffset : Numbers, bloom : Numbers, buckets : Seq(Numbers), ends : SUBSET Nat]
    /\ f.relocations \in [{"rela", "rel", "jmprel"} ->
            Seq([symbol : Numbers, jump : BOOLEAN, at : Numbers]) \ {<< >>}]
    /\ f.raw \in Seq([name : Numbers, defined : BOOLEAN]) \ {<< >>}

ASSUME FilesAssumption ==
    /\ {Top, MaxEntries, MaxStringTable, MaxName, MaxSymbols, MaxBuckets, MaxRelocations, MaxInitArray}
            \subseteq Nat
    /\ \A k \in DOMAIN Families : \A f \in Families[k] : IsFile(f)

VARIABLES
    input,      \* the file: size, segments, lists, nuls, sysv, gnu, relocations, raw
    stage, at,  \* the part of parse that is next, the program header it is at
    tags,       \* DynamicTags: tag -> value
    needed,     \* ... and needed_offsets, a set
    result,     \* ParseResult
    strings,    \* string_table, if there is one
    count,      \* symbol_count, if there is one
    reads       \* bytes of strings, relocations and symbols that were read

vars == <<input, stage, at, tags, needed, result, strings, count, reads>>

Least(S) == CHOOSE x \in S : \A y \in S : x <= y
Most(S) == CHOOSE x \in S : \A y \in S : x >= y
Size == input.size
Segments == input.segments
Has(t) == t \in DOMAIN tags
Or(t, default) == IF Has(t) THEN tags[t] ELSE default
\* The structures of a table repeat.
Cyclic(s, i) == s[(i % Len(s)) + 1]

-----------------------------------------------------------------------------
\* Addresses. An option is a set of at most one value.
InFile(offset, size) == offset <= Size /\ size <= Size - offset

\* What of the file is behind an address in a segment.
Left(s, va) == Least({s.filesz - (va - s.va), s.memsz - (va - s.va),
                      Size - (s.offset + (va - s.va))})
\* Mutant: the file may be shorter than its segment.
FitsUncut(s, va, need, exec) ==
    /\ s.type = "load" /\ (exec => s.exec)
    /\ va >= s.va
    /\ s.filesz <= s.memsz /\ va - s.va < s.filesz
    /\ need <= s.filesz - (va - s.va)

Fits(s, va, need, exec) ==
    /\ s.type = "load" /\ (exec => s.exec)
    /\ va >= s.va
    /\ s.filesz <= s.memsz /\ va - s.va < s.filesz
    /\ s.offset + (va - s.va) < Top
    /\ s.offset + (va - s.va) <= Size
    /\ need <= Left(s, va)
Fitting(va, need, exec) == {i \in DOMAIN Segments : Fits(Segments[i], va, need, exec)}

SpanOf(s, va) == [offset |-> s.offset + (va - s.va), available |-> Left(s, va)]
\* The first PT_LOAD that holds all of it.
Span(va, need, exec) ==
    IF va + need >= Top \/ Fitting(va, need, exec) = {} THEN {}
    ELSE {SpanOf(Segments[Least(Fitting(va, need, exec))], va)}
Mapped(va, need) == Span(va, need, FALSE)

Bytes(span, from, size) == [from |-> span.offset + from, size |-> size]

\* read_string: from an offset of the table up to a NUL byte.
NameEnds(table, size, offset) ==
    {n \in 0..(Least({size - offset, MaxName + 1}) - 1) : table.offset + offset + n \in input.nuls}
Name(table, size, offset) ==
    IF size > table.available \/ offset >= size THEN {}
    ELSE {Least(S) : S \in {NameEnds(table, size, offset)} \ {{}}}
\* The bytes that looks at, which it indexes without a check.
NameBytes(table, size, offset) ==
    IF size > table.available \/ offset >= size THEN {}
    ELSE {Bytes(table, offset,
                Least({n + 1 : n \in NameEnds(table, size, offset)}
                      \cup {size - offset, MaxName + 1}))}

-----------------------------------------------------------------------------
Nothing ==
    [found |-> FALSE, terminated |-> FALSE, needed |-> {}, symtab |-> FALSE,
     complete |-> FALSE, source |-> "none", declared |-> 0, referenced |-> {},
     slots |-> {}, symbols |-> {}, imports |-> {}, exported |-> 0, rejected |-> 0,
     init |-> {}, fini |-> {}, initArray |-> {}, preview |-> {}, warnings |-> {}]

Init ==
    /\ \E f \in DOMAIN Families : input \in Families[f]
    /\ stage = "dynamic" /\ at = 1
    /\ tags = << >> /\ needed = {}
    /\ result = Nothing
    /\ strings = {} /\ count = {}
    /\ reads = {}

Goto(from, to) == stage = from /\ stage' = to
Warned(new) == result.warnings \cup new

\* set_once for every tag but DT_NEEDED: the first value stays.
TagsOf(entries) ==
    [t \in {entries[k][1] : k \in DOMAIN entries} \ {"needed"} |->
        entries[Least({k \in DOMAIN entries : entries[k][1] = t})][2]]
NeededOf(entries) == {entries[k][2] : k \in {k \in DOMAIN entries : entries[k][1] = "needed"}}

Readable(i) ==
    SubSeq(input.lists[i], 1,
           Least({Len(input.lists[i]), Segments[i].filesz \div DynSize, MaxEntries}))
Ends(i) == {k \in DOMAIN Readable(i) : Readable(i)[k][1] = "null"}
BeforeEnd(i) == SubSeq(Readable(i), 1, Least(Ends(i)) - 1)

\* One program header. Only the first terminated PT_DYNAMIC counts.
DynamicSegment ==
    /\ stage = "dynamic" /\ at <= Len(Segments)
    /\ at' = at + 1
    /\ LET dynamic == Segments[at].type = "dynamic"
           ends == dynamic /\ InFile(Segments[at].offset, Segments[at].filesz) /\ Ends(at) # {}
           taken == ends /\ ~result.terminated
       IN /\ result' = [result EXCEPT !.found = @ \/ dynamic, !.terminated = @ \/ ends,
                !.warnings = @ \cup IF dynamic /\ ~taken THEN {"PT_DYNAMIC"} ELSE {}]
          /\ tags' = IF taken THEN TagsOf(BeforeEnd(at)) ELSE tags
          /\ needed' = IF taken THEN NeededOf(BeforeEnd(at)) ELSE needed
    /\ UNCHANGED <<input, stage, strings, count, reads>>

Valid == result.found /\ result.terminated
DynamicDone ==
    /\ at > Len(Segments)
    /\ Goto("dynamic", IF Valid THEN "strings" ELSE "done")
    /\ UNCHANGED <<input, at, tags, needed, result, strings, count, reads>>

StringTable ==
    /\ Goto("strings", "rela")
    /\ strings' = IF /\ Has("strtab") /\ Has("strsz")
                     /\ tags["strsz"] \in 1..MaxStringTable
                  THEN Mapped(tags["strtab"], tags["strsz"]) ELSE {}
    /\ LET names == UNION {UNION {Name(t, tags["strsz"], offset) : offset \in needed} : t \in strings'}
           bad == \E t \in strings' : \E offset \in needed :
                        Name(t, tags["strsz"], offset) \subseteq {0}
       IN /\ result' = [result EXCEPT
                !.needed = names \ {0},
                !.warnings = Warned((IF bad THEN {"DT_NEEDED"} ELSE {}) \cup
                    IF strings' = {} /\ (Has("strtab") \/ Has("strsz")) THEN {"DT_STRTAB"} ELSE {})]
          /\ reads' = UNION {UNION {NameBytes(t, tags["strsz"], offset) : offset \in needed} : t \in strings'}
    /\ UNCHANGED <<input, at, tags, needed, count>>

\* parse_rela_table, parse_rel_table.
GoodLayout(form, size, entry) ==
    /\ entry = EntrySize[form]
    /\ size % EntrySize[form] = 0
    /\ size \div EntrySize[form] <= MaxRelocations
Entries(table, form, size) ==
    {Cyclic(input.relocations[table], k) : k \in 0..(size \div EntrySize[form] - 1)}
\* Mutant: a table that cannot be read takes the evidence of the others along.
ParseTableOrNone(table, form, va, size, entry) ==
    IF ~GoodLayout(form, size, entry) \/ (size > 0 /\ Mapped(va, size) = {})
    THEN /\ result' = [result EXCEPT !.referenced = {}, !.warnings = Warned({table})]
         /\ UNCHANGED reads
    ELSE LET es == Entries(table, form, size)
         IN /\ result' = [result EXCEPT
                  !.referenced = @ \cup {e.symbol : e \in es},
                  !.slots = @ \cup {e.at : e \in {f \in es : f.jump}}]
            /\ UNCHANGED reads
\* record_relocation.
ParseTable(table, form, va, size, entry) ==
    IF ~GoodLayout(form, size, entry) \/ (size > 0 /\ Mapped(va, size) = {})
    THEN /\ result' = [result EXCEPT !.warnings = Warned({table})]
         /\ UNCHANGED reads
    ELSE LET es == Entries(table, form, size)
         IN /\ result' = [result EXCEPT
                  !.referenced = @ \cup {e.symbol : e \in {f \in es : f.symbol < MaxSymbols}},
                  !.slots = @ \cup {e.at : e \in {f \in es : f.jump}}]
            /\ reads' = reads \cup {Bytes(t, 0, size) : t \in IF size > 0 THEN Mapped(va, size) ELSE {}}

WarnIf(cond, what) ==
    /\ result' = [result EXCEPT !.warnings = Warned(IF cond THEN {what} ELSE {})]
    /\ UNCHANGED reads

Rela ==
    /\ Goto("rela", "rel")
    /\ IF Has("rela") /\ Has("relasz")
       THEN ParseTable("rela", "rela", tags["rela"], tags["relasz"], Or("relaent", RelaSize))
       ELSE WarnIf(Has("rela") \/ Has("relasz"), "rela")
    /\ UNCHANGED <<input, at, tags, needed, strings, count>>
Rel ==
    /\ Goto("rel", "jmprel")
    /\ IF Has("rel") /\ Has("relsz")
       THEN ParseTable("rel", "rel", tags["rel"], tags["relsz"], Or("relent", RelSize))
       ELSE WarnIf(Has("rel") \/ Has("relsz"), "rel")
    /\ UNCHANGED <<input, at, tags, needed, strings, count>>

\* DT_RELA and DT_REL as values of DT_PLTREL. The warning for a missing
\* DT_PLTREL is left out.
Forms == [v \in {7, 17} |-> IF v = 7 THEN "rela" ELSE "rel"]
JmpRel ==
    /\ Goto("jmprel", "count")
    /\ LET kind == Or("pltrel", 7)
       IN IF Has("jmprel") /\ Has("pltrelsz") /\ kind \in DOMAIN Forms
          THEN ParseTable("jmprel", Forms[kind], tags["jmprel"], tags["pltrelsz"],
                  IF kind = 7 THEN Or("relaent", RelaSize) ELSE Or("relent", RelSize))
          ELSE WarnIf(Has("jmprel") \/ Has("pltrelsz"), "jmprel")
    /\ UNCHANGED <<input, at, tags, needed, strings, count>>

-----------------------------------------------------------------------------
\* The number of symbols, which no tag gives.
SysvCount(va) ==
    LET h == input.sysv
    IN IF /\ Mapped(va, 8) # {}
          /\ h.buckets \in 1..MaxBuckets /\ h.chains \in 1..MaxSymbols
          /\ Mapped(va, 4 * (2 + h.buckets + h.chains)) # {}
       THEN {h.chains} ELSE {}

\* DT_GNU_HASH: the last chain of the highest bucket ends at the last symbol.
GnuLast == Most({input.gnu.buckets[b] : b \in DOMAIN input.gnu.buckets} \cup {0})
GnuChainOffset == 16 + 8 * input.gnu.bloom + 4 * Len(input.gnu.buckets)
GnuChainVa(va) == va + GnuChainOffset + 4 * (GnuLast - input.gnu.symoffset)
GnuHeaderGood(va) ==
    /\ Mapped(va, 16) # {}
    /\ Len(input.gnu.buckets) \in 1..MaxBuckets
    /\ input.gnu.bloom \in 1..MaxBuckets
    /\ input.gnu.symoffset <= MaxSymbols
    /\ Mapped(va, GnuChainOffset) # {}
    /\ \A b \in DOMAIN input.gnu.buckets :
        input.gnu.buckets[b] = 0 \/ input.gnu.buckets[b] \in input.gnu.symoffset..(MaxSymbols - 1)
GnuEnd(chains) ==
    {s \in {GnuLast + k : k \in 0..(Least({chains.available \div 4, MaxSymbols - GnuLast}) - 1)} :
        s \in input.gnu.ends}
\* Mutant: the first symbol of the last chain is taken for its last.
GnuCountShort(va) == IF ~GnuHeaderGood(va) THEN {} ELSE {GnuLast + 1}
GnuCount(va) ==
    IF ~GnuHeaderGood(va) THEN {}
    ELSE IF GnuLast = 0 THEN {input.gnu.symoffset}
    ELSE IF GnuChainVa(va) >= Top THEN {}
    ELSE UNION {{Least(S) + 1 : S \in {GnuEnd(c)} \ {{}}} : c \in Mapped(GnuChainVa(va), 4)}

CountSymbols ==
    /\ Goto("count", "table")
    /\ LET sysv == IF Has("hash") THEN SysvCount(tags["hash"]) ELSE {}
           asks == sysv = {} /\ Has("gnu")
           gnu == IF asks THEN GnuCount(tags["gnu"]) ELSE {}
       IN /\ count' = sysv \cup gnu
          /\ result' = [result EXCEPT
                !.source = IF sysv # {} THEN "sysv" ELSE IF gnu # {} THEN "gnu" ELSE "none",
                !.warnings = Warned((IF Has("hash") /\ sysv = {} THEN {"DT_HASH"} ELSE {})
                                    \cup IF asks /\ gnu = {} THEN {"DT_GNU_HASH"} ELSE {})]
    /\ UNCHANGED <<input, at, tags, needed, strings, reads>>

\* All of the table or, when that cannot be, what the relocations refer to.
HasSymtab == Has("symtab") /\ Or("syment", SymSize) = SymSize /\ Mapped(tags["symtab"], SymSize) # {}
\* Mutant: the last symbol is not asked for.
TableButLast(n) == n = 0 \/ Mapped(tags["symtab"], (n - 1) * SymSize) # {}
WholeTable(n) == n * SymSize < Top /\ (n = 0 \/ Mapped(tags["symtab"], n * SymSize) # {})
SymbolTable ==
    /\ Goto("table", "symbols")
    /\ LET whole == {n \in count : HasSymtab /\ n <= MaxSymbols /\ WholeTable(n)}
           partial == whole = {} /\ HasSymtab /\ result.referenced # {}
       IN result' = [result EXCEPT
            !.symtab = HasSymtab,
            !.complete = whole # {},
            !.declared = IF whole # {} THEN Least(whole)
                         ELSE IF partial THEN Most(result.referenced) + 1 ELSE 0,
            !.source = IF partial THEN "relocations" ELSE @,
            !.warnings = Warned(
               (IF ~HasSymtab /\ (Has("symtab") \/ Has("syment")) THEN {"DT_SYMTAB"} ELSE {})
               \cup IF HasSymtab /\ count # {} /\ whole = {} THEN {"table"} ELSE {})]
    /\ UNCHANGED <<input, at, tags, needed, strings, count, reads>>

\* The symbols that are looked at, and where each one is.
Indices ==
    IF result.complete THEN 0..(result.declared - 1)
    ELSE IF result.symtab THEN result.referenced ELSE {}
SymbolAt(i) ==
    IF tags["symtab"] + i * SymSize < Top THEN Mapped(tags["symtab"] + i * SymSize, SymSize) ELSE {}
Raw(i) == Cyclic(input.raw, i)
NameOf(i) == UNION {Name(t, tags["strsz"], Raw(i).name) : t \in strings}

ReadSymbols ==
    /\ Goto("symbols", "init")
    /\ LET seen == {i \in Indices : SymbolAt(i) # {}}
           named == {i \in seen : NameOf(i) \ {0} # {}}
       IN /\ result' = [result EXCEPT
                !.symbols = named,
                !.imports = UNION {NameOf(i) : i \in {j \in named : ~Raw(j).defined}},
                !.exported = Cardinality({j \in named : Raw(j).defined}),
                !.rejected = Cardinality({i \in seen : NameOf(i) = {} /\ Raw(i).name # 0})]
          /\ reads' = reads
                \cup (UNION {{Bytes(f, 0, SymSize) : f \in SymbolAt(i)} : i \in seen})
                \cup (UNION {UNION {NameBytes(t, tags["strsz"], Raw(i).name) : t \in strings} : i \in seen})
    /\ UNCHANGED <<input, at, tags, needed, strings, count>>

Code(t) == IF Or(t, 0) # 0 THEN Span(tags[t], 4, TRUE) ELSE {}
InitArray ==
    IF /\ Has("initarray") /\ Has("initarraysz")
       /\ tags["initarraysz"] \in 1..MaxInitArray /\ tags["initarraysz"] % 8 = 0
    THEN Mapped(tags["initarray"], tags["initarraysz"]) ELSE {}
EntryPoints ==
    /\ Goto("init", "preview")
    /\ result' = [result EXCEPT
         !.init = Code("init"), !.fini = Code("fini"), !.initArray = InitArray,
         !.warnings = Warned(
            {t \in {"init", "fini"} : Or(t, 0) # 0 /\ Code(t) = {}}
            \cup IF InitArray = {} /\ (Has("initarray") \/ Has("initarraysz")) THEN {"initarray"} ELSE {})]
    /\ UNCHANGED <<input, at, tags, needed, strings, count, reads>>

\* main.cpp has a lookup of its own for the previews: va_to_file_offset knows
\* neither p_memsz nor the flags nor the size of the file, which
\* add_entry_preview asks afterwards.
Holds(s, va) ==
    s.type = "load" /\ va >= s.va /\ va - s.va < s.filesz /\ s.offset + (va - s.va) < Top
\* Mutant: the address is taken from the start of the segment's memory.
OffsetUnmoved(va) ==
    LET S == {i \in DOMAIN Segments : Holds(Segments[i], va)}
    IN IF S = {} THEN {} ELSE {va}
Offset(va) ==
    LET S == {i \in DOMAIN Segments : Holds(Segments[i], va)}
    IN IF S = {} THEN {} ELSE {Segments[Least(S)].offset + (va - Segments[Least(S)].va)}
Preview ==
    /\ Goto("preview", "done")
    /\ result' = [result EXCEPT
         !.preview = IF result.init = {} THEN {} ELSE {o \in Offset(tags["init"]) : o < Size}]
    /\ UNCHANGED <<input, at, tags, needed, strings, count, reads>>

Done == stage = "done" /\ UNCHANGED vars

Next ==
    \/ DynamicSegment \/ DynamicDone \/ StringTable \/ Rela \/ Rel \/ JmpRel
    \/ CountSymbols \/ SymbolTable \/ ReadSymbols \/ EntryPoints \/ Preview \/ Done

Spec == Init /\ [][Next]_vars

-----------------------------------------------------------------------------
\* Addresses a file may give twice are behind the next two properties' premise.
Loads == {i \in DOMAIN Segments : Segments[i].type = "load"}
Disjoint ==
    \A i, j \in Loads : i # j =>
        \/ Segments[i].va + Segments[i].filesz <= Segments[j].va
        \/ Segments[j].va + Segments[j].filesz <= Segments[i].va

\* Whatever the numbers of a file are, the parser reads strings, relocations
\* and symbols from bytes that the file has and that belong to one PT_LOAD.
ReadsInside ==
    \A r \in reads :
        /\ r.from + r.size <= Size
        /\ \E i \in Loads :
            /\ Segments[i].offset <= r.from
            /\ r.from + r.size <= Segments[i].offset + Segments[i].filesz

\* A table that is reported as complete was read completely: no symbol of it
\* is passed over when the symbols are mapped one by one, and unless segments
\* overlap they are neighbours in the file.
CompleteMeansAll ==
    stage \in {"init", "preview", "done"} /\ result.complete =>
        /\ \A i \in Indices : SymbolAt(i) # {}
        /\ Disjoint /\ result.declared > 0 =>
             \E base \in 0..Size : \A i \in 0..(result.declared - 1) :
                Bytes([offset |-> base], i * SymSize, SymSize) \in reads

\* The table that a linker writes for symbols 0 to n - 1: every symbol from
\* symoffset on is in one chain, and the buckets name the first of each.
Starts(g) == {g.buckets[b] : b \in DOMAIN g.buckets} \ {0}
Linked(g, n) ==
    /\ g.symoffset \in 1..n
    /\ Starts(g) = {s \in g.symoffset..(n - 1) : s = g.symoffset \/ s - 1 \in g.ends}
    /\ n > g.symoffset => n - 1 \in g.ends

\* The number of symbols that DT_GNU_HASH does not say is found exactly.
GnuCountExact ==
    \A n \in 1..MaxSymbols :
        stage = "table" /\ result.source = "gnu" /\ Linked(input.gnu, n) => count = {n}

\* What is said of the number of symbols is true.
CountsAreTrue == CompleteMeansAll /\ GnuCountExact

\* elf_dynamic.h line 97: malformed components are rejected independently. What
\* the relocations refer to is what each sound table refers to, and each table
\* that is not sound is warned about.
Place == [rela |-> <<"rela", "relasz">>, rel |-> <<"rel", "relsz">>, jmprel |-> <<"jmprel", "pltrelsz">>]
FormOf(t) ==
    IF t = "jmprel" THEN {Forms[v] : v \in {Or("pltrel", 7)} \cap DOMAIN Forms} ELSE {t}
EntryTag == [rela |-> "relaent", rel |-> "relent"]
Sound(t, form) ==
    /\ \A k \in 1..2 : Has(Place[t][k])
    /\ Or(EntryTag[form], EntrySize[form]) = EntrySize[form]
    /\ tags[Place[t][2]] % EntrySize[form] = 0
    /\ tags[Place[t][2]] <= MaxRelocations * EntrySize[form]
    /\ tags[Place[t][2]] > 0 => Mapped(tags[Place[t][1]], tags[Place[t][2]]) # {}
SoundIn(t) == {form \in FormOf(t) : Sound(t, form)}
Given(t) == \E k \in 1..2 : Has(Place[t][k])
RejectedAlone ==
    stage = "count" =>
        /\ result.referenced =
             {s \in 0..(MaxSymbols - 1) : \E t \in DOMAIN Place : \E form \in SoundIn(t) :
                \E e \in Entries(t, form, tags[Place[t][2]]) : e.symbol = s}
        /\ DOMAIN Place \cap result.warnings = {t \in DOMAIN Place : Given(t) /\ SoundIn(t) = {}}

\* The two lookups agree: the preview of DT_INIT shows the code that the parser
\* has found for it, unless segments overlap.
PreviewIsInit ==
    stage = "done" /\ Disjoint => result.preview = {f.offset : f \in result.init}

\* Addresses lead to the bytes of the segment they belong to, in both lookups.
AddressesHold == ReadsInside /\ PreviewIsInit
=============================================================================
