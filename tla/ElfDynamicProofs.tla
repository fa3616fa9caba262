-------------------------- MODULE ElfDynamicProofs --------------------------
(***************************************************************************)
(* What elf_dynamic.cpp makes of a library whose numbers are arbitrary.    *)
(*                                                                         *)
(* An address leads to a span: a piece of one PT_LOAD that the file has.   *)
(* Everything the parser reads is a part of a span it has asked for, with  *)
(* the size it has asked for. Where segments are disjoint, an address has  *)
(* one segment only, so two lookups that both succeed give the same bytes. *)
(***************************************************************************)
EXTENDS ElfDynamic, WellFoundedInduction, TLAPS

-----------------------------------------------------------------------------
(* The least and the greatest of a set of numbers.                         *)
LEMMA LeastIs ==
  ASSUME NEW S, S \subseteq Nat, S # {}
  PROVE  Least(S) \in S /\ \A y \in S : Least(S) <= y
<1> DEFINE R == {ss \in Nat \X Nat : ss[1] < ss[2]}
<1>1. IsWellFoundedOn(R, Nat) BY NatLessThanWellFounded DEF OpToRel
<1>2. \A x, y \in Nat : x < y => <<x, y>> \in R OBVIOUS
<1> HIDE DEF R
<1>3. PICK x \in S : \A y \in S : ~(<<y, x>> \in R) BY <1>1, WFMin
<1>4. \A y \in S : ~(y < x) BY <1>2, <1>3
<1>5. x \in S /\ \A y \in S : x <= y BY <1>3, <1>4
<1> QED BY <1>5 DEF Least

LEMMA MostIs ==
  ASSUME NEW S, S \subseteq Nat, S # {}, NEW bound \in Nat, \A y \in S : y <= bound
  PROVE  Most(S) \in S /\ \A y \in S : Most(S) >= y
<1> DEFINE Above == {m \in Nat : \A y \in S : y <= m}
           top == Least(Above)
<1>1. Above \subseteq Nat /\ Above # {} OBVIOUS
<1> HIDE DEF Above
<1>2. top \in Above /\ \A m \in Above : top <= m BY <1>1, LeastIs
<1> HIDE DEF top
<1>3. top \in Nat /\ \A y \in S : y <= top BY <1>2 DEF Above
<1>4. ASSUME top \notin S PROVE FALSE
  <2>1. \A y \in S : y < top BY <1>3, <1>4
  <2>2. PICK y \in S : TRUE OBVIOUS
  <2>3. y < top /\ y \in Nat BY <2>1, <2>2
  <2>4. top > 0 BY <1>3, <2>3
  <2>5. top - 1 \in Above BY <1>3, <2>1, <2>4 DEF Above
  <2> QED BY <1>2, <1>3, <2>5
<1>5. top \in S /\ \A y \in S : top >= y BY <1>3, <1>4
<1> QED BY <1>5 DEF Most

LEMMA LeastOfThree ==
  ASSUME NEW a \in Nat, NEW b \in Nat, NEW c \in Nat
  PROVE  /\ Least({a, b, c}) \in Nat
         /\ Least({a, b, c}) <= a /\ Least({a, b, c}) <= b /\ Least({a, b, c}) <= c
         /\ Least({a, b, c}) \in {a, b, c}
<1>1. {a, b, c} \subseteq Nat /\ {a, b, c} # {} OBVIOUS
<1> QED BY <1>1, LeastIs

LEMMA LeastOfTwo ==
  ASSUME NEW a \in Nat, NEW b \in Nat
  PROVE  /\ Least({a, b}) \in {a, b} /\ Least({a, b}) <= a /\ Least({a, b}) <= b
<1>1. {a, b} \subseteq Nat /\ {a, b} # {} OBVIOUS
<1> QED BY <1>1, LeastIs

-----------------------------------------------------------------------------
(* The file, and the numbers that the parser takes out of it.              *)
Fields ==
  {"found", "terminated", "needed", "symtab", "complete", "source", "declared", "referenced",
   "slots", "symbols", "imports", "exported", "rejected", "init", "fini", "initArray",
   "preview", "warnings"}
Stages ==
  {"dynamic", "strings", "rela", "rel", "jmprel", "count", "table", "symbols", "init", "preview", "done"}

Types ==
  /\ IsFile(input) /\ stage \in Stages
  /\ at \in Nat \ {0}
  /\ \A t \in DOMAIN tags : tags[t] \in Numbers
  /\ needed \subseteq Numbers
  /\ count \subseteq Nat
  /\ DOMAIN result = Fields
  /\ result.referenced \subseteq 0 .. (MaxSymbols - 1)

LEMMA FileIsSegments ==
  ASSUME IsFile(input)
  PROVE  /\ Size \in Numbers /\ Segments \in Seq(SegmentHeaders)
         /\ \A i \in DOMAIN Segments : Segments[i] \in SegmentHeaders
         /\ DOMAIN Segments \subseteq Nat
         /\ Numbers \subseteq Nat /\ Top \in Nat
<1>1. Top \in Nat BY FilesAssumption
<1>2. Numbers \subseteq Nat BY <1>1 DEF Numbers
<1> QED BY <1>1, <1>2 DEF IsFile, Size, Segments

(* What Fits says, without the least of three.                             *)
FitsPlainly(s, va, need, exec) ==
  /\ s.type = "load" /\ (exec => s.exec)
  /\ va >= s.va /\ s.filesz <= s.memsz /\ va - s.va < s.filesz
  /\ s.offset + (va - s.va) < Top /\ s.offset + (va - s.va) <= Size
  /\ need <= s.filesz - (va - s.va) /\ need <= Size - (s.offset + (va - s.va))

LEMMA LeftIs ==
  ASSUME NEW s \in SegmentHeaders, NEW va \in Nat, Size \in Nat, Numbers \subseteq Nat,
         va >= s.va, s.filesz <= s.memsz, va - s.va < s.filesz, s.offset + (va - s.va) <= Size
  PROVE  /\ Left(s, va) \in Nat
         /\ Left(s, va) <= s.filesz - (va - s.va)
         /\ Left(s, va) <= Size - (s.offset + (va - s.va))
         /\ \A n \in Nat : n <= Left(s, va) <=>
              n <= s.filesz - (va - s.va) /\ n <= Size - (s.offset + (va - s.va))
<1> DEFINE size == Size filesz == s.filesz memsz == s.memsz offset == s.offset start == s.va
           a == filesz - (va - start) b == memsz - (va - start) c == size - (offset + (va - start))
<1>1. size \in Nat /\ filesz \in Nat /\ memsz \in Nat /\ offset \in Nat /\ start \in Nat
  BY DEF SegmentHeaders
<1>2. va >= start /\ filesz <= memsz /\ va - start < filesz /\ offset + (va - start) <= size
  OBVIOUS
<1>3. Left(s, va) = Least({a, b, c}) BY DEF Left
<1> HIDE DEF size, filesz, memsz, offset, start
<1>4. a \in Nat /\ b \in Nat /\ c \in Nat /\ a <= b BY <1>1, <1>2
<1>5. a = s.filesz - (va - s.va) /\ c = Size - (s.offset + (va - s.va))
  BY DEF size, filesz, offset, start
<1> HIDE DEF a, b, c
<1> DEFINE l == Least({a, b, c})
<1>6. l \in Nat /\ l <= a /\ l <= b /\ l <= c /\ l \in {a, b, c} BY <1>4, LeastOfThree
<1> HIDE DEF l
<1>7. \A n \in Nat : n <= l <=> n <= a /\ n <= c BY <1>4, <1>6
<1> QED BY <1>3, <1>5, <1>6, <1>7 DEF l

LEMMA FitsMeans ==
  ASSUME NEW s \in SegmentHeaders, NEW va \in Nat, NEW need \in Nat, NEW exec,
         Size \in Nat, Numbers \subseteq Nat
  PROVE  Fits(s, va, need, exec) <=> FitsPlainly(s, va, need, exec)
BY LeftIs DEF Fits, FitsPlainly

-----------------------------------------------------------------------------
(* A span is a piece of one PT_LOAD, and the file has it.                  *)
Within(from, size) ==
  /\ from + size <= Size
  /\ \E i \in Loads : Segments[i].offset <= from /\ from + size <= Segments[i].offset + Segments[i].filesz

Backed(span) == span.offset \in Nat /\ span.available \in Nat /\ Within(span.offset, span.available)

LEMMA SpanIsBacked ==
  ASSUME IsFile(input), NEW va \in Nat, NEW need \in Nat, NEW exec, NEW span \in Span(va, need, exec)
  PROVE  Backed(span) /\ need <= span.available
<1> DEFINE F == Fitting(va, need, exec) i == Least(F) s == Segments[i]
<1>1. F # {} /\ span = SpanOf(s, va) BY DEF Span
<1>2. F \subseteq Nat BY FileIsSegments DEF Fitting
<1>3. i \in F BY <1>1, <1>2, LeastIs
<1>4. i \in DOMAIN Segments /\ Fits(s, va, need, exec) BY <1>3 DEF Fitting
<1>5. s \in SegmentHeaders /\ Size \in Nat /\ Numbers \subseteq Nat BY <1>4, FileIsSegments
<1> HIDE DEF i, s, F
<1>6. s.type = "load" /\ va >= s.va /\ s.filesz <= s.memsz /\ va - s.va < s.filesz
      /\ s.offset + (va - s.va) <= Size /\ need <= Left(s, va)
  BY <1>4 DEF Fits
<1> DEFINE filesz == s.filesz offset == s.offset start == s.va size == Size left == Left(s, va)
<1>7. filesz \in Nat /\ offset \in Nat /\ start \in Nat /\ size \in Nat BY <1>5 DEF SegmentHeaders
<1>8. left \in Nat /\ left <= filesz - (va - start) /\ left <= size - (offset + (va - start))
  BY <1>5, <1>6, LeftIs
<1>9. span.offset = offset + (va - start) /\ span.available = left BY <1>1 DEF SpanOf
<1>10. va >= start BY <1>6
<1>11. i \in Loads BY <1>4, <1>6 DEF Loads, s
<1> HIDE DEF filesz, offset, start, size, left
<1>12. /\ offset + (va - start) \in Nat /\ offset <= offset + (va - start)
       /\ (offset + (va - start)) + left <= size
       /\ (offset + (va - start)) + left <= offset + filesz
  BY <1>7, <1>8, <1>10
<1>13. Within(span.offset, span.available)
  BY <1>9, <1>11, <1>12 DEF Within, offset, size, filesz, s
<1>14. need <= span.available BY <1>6, <1>9 DEF left
<1> QED BY <1>8, <1>9, <1>12, <1>13, <1>14 DEF Backed

LEMMA MappedIsBacked ==
  ASSUME IsFile(input), NEW va \in Nat, NEW need \in Nat, NEW span \in Mapped(va, need)
  PROVE  Backed(span) /\ need <= span.available
BY SpanIsBacked DEF Mapped

(* What is read of a span, at a place in it, is in the file.               *)
LEMMA PartIsWithin ==
  ASSUME IsFile(input), NEW span, Backed(span), NEW from \in Nat, NEW size \in Nat,
         from + size <= span.available
  PROVE  LET r == Bytes(span, from, size) IN Within(r.from, r.size)
<1> DEFINE offset == span.offset available == span.available total == Size
<1>1. offset \in Nat /\ available \in Nat /\ Within(offset, available) BY DEF Backed
<1>2. total \in Nat BY FileIsSegments
<1>3. PICK i \in Loads :
        Segments[i].offset <= offset /\ offset + available <= Segments[i].offset + Segments[i].filesz
  BY <1>1 DEF Within
<1>4. offset + available <= total BY <1>1 DEF Within
<1> DEFINE start == Segments[i].offset length == Segments[i].filesz
<1>5. start \in Nat /\ length \in Nat BY FileIsSegments DEF Loads, SegmentHeaders
<1>6. start <= offset /\ offset + available <= start + length BY <1>3
<1>7. from + size <= available OBVIOUS
<1> HIDE DEF offset, available, total, start, length
<1>8. /\ (offset + from) + size <= total
      /\ start <= offset + from /\ (offset + from) + size <= start + length
  BY <1>1, <1>2, <1>4, <1>5, <1>6, <1>7
<1>9. Within(offset + from, size) BY <1>8 DEF Within, start, length, total
<1> QED BY <1>9 DEF Bytes, offset

(* The bytes of a name are bytes of the string table.                      *)
LEMMA NamesAreWithin ==
  ASSUME IsFile(input), NEW table, Backed(table), NEW size \in Nat, NEW offset \in Nat,
         NEW r \in NameBytes(table, size, offset)
  PROVE  Within(r.from, r.size)
<1> DEFINE S == {n + 1 : n \in NameEnds(table, size, offset)} \cup {size - offset, MaxName + 1}
           length == Least(S)
<1> DEFINE available == table.available
<1>1. size <= available /\ offset < size /\ r = Bytes(table, offset, length)
  <2>1. NameBytes(table, size, offset) = IF size > available \/ offset >= size
                                         THEN {} ELSE {Bytes(table, offset, length)}
    BY DEF NameBytes
  <2>2. available \in Nat BY DEF Backed
  <2> HIDE DEF length, available
  <2> QED BY <2>1, <2>2
<1>2. MaxName \in Nat BY FilesAssumption
<1>3. size - offset \in Nat /\ MaxName + 1 \in Nat BY <1>1, <1>2
<1>4. Least({size - offset, MaxName + 1}) \in Nat BY <1>3, LeastOfTwo
<1>5. NameEnds(table, size, offset) \subseteq Nat BY <1>4 DEF NameEnds
<1>6. S \subseteq Nat /\ S # {} /\ size - offset \in S BY <1>3, <1>5
<1> HIDE DEF S
<1>7. length \in Nat /\ length <= size - offset BY <1>6, LeastIs
<1> HIDE DEF length
<1>8. available \in Nat BY DEF Backed
<1>9. size <= available BY <1>1
<1> HIDE DEF available
<1>10. offset + length <= available BY <1>1, <1>7, <1>8, <1>9
<1> QED BY <1>1, <1>7, <1>10, PartIsWithin DEF available

-----------------------------------------------------------------------------
(* What the parts of parse take from the file has the types it should have.*)
LEMMA SubSeqIs ==
  ASSUME NEW S, NEW s \in Seq(S), NEW n \in Int, n <= Len(s)
  PROVE  /\ SubSeq(s, 1, n) \in Seq(S)
         /\ \A k \in DOMAIN SubSeq(s, 1, n) : k \in Nat /\ SubSeq(s, 1, n)[k] \in S
<1>1. CASE n < 1
  <2>1. SubSeq(s, 1, n) = << >> BY <1>1
  <2> QED BY <2>1
<1>2. CASE n >= 1
  <2>1. /\ SubSeq(s, 1, n) \in Seq(S) BY <1>2
  <2> QED BY <2>1
<1> QED BY <1>1, <1>2

LEMMA EntriesAreNumbers ==
  ASSUME IsFile(input), NEW i \in DOMAIN Segments, Segments[i].type = "dynamic", Ends(i) # {}
  PROVE  /\ \A k \in DOMAIN BeforeEnd(i) : k \in Nat /\ BeforeEnd(i)[k] \in STRING \X Numbers
<1> DEFINE list == input.lists[i] n == Least({Len(list), Segments[i].filesz \div DynSize, MaxEntries})
<1>1. list \in Seq(STRING \X Numbers) BY DEF IsFile, Segments
<1>2. Segments[i].filesz \in Nat BY FileIsSegments DEF SegmentHeaders
<1>3. Segments[i].filesz \div DynSize \in Nat BY <1>2 DEF DynSize
<1>4. Len(list) \in Nat /\ MaxEntries \in Nat BY <1>1, FilesAssumption
<1>5. n \in Nat /\ n <= Len(list) BY <1>3, <1>4, LeastOfThree
<1>6. Readable(i) = SubSeq(list, 1, n) BY DEF Readable
<1> HIDE DEF list, n
<1> DEFINE readable == Readable(i) m == Least(Ends(i)) - 1
<1>7. readable \in Seq(STRING \X Numbers) BY <1>1, <1>5, <1>6, SubSeqIs
<1>8. Ends(i) \subseteq DOMAIN readable BY DEF Ends
<1>9. DOMAIN readable = 1 .. Len(readable) /\ Len(readable) \in Nat BY <1>7
<1>10. Ends(i) \subseteq Nat BY <1>8, <1>9
<1>11. m \in Int /\ m <= Len(readable) BY <1>8, <1>9, <1>10, LeastIs
<1>12. BeforeEnd(i) = SubSeq(readable, 1, m) BY DEF BeforeEnd
<1> HIDE DEF readable, m
<1> QED BY <1>7, <1>11, <1>12, SubSeqIs

LEMMA TagsAreNumbers ==
  ASSUME NEW entries, \A k \in DOMAIN entries : k \in Nat /\ entries[k] \in STRING \X Numbers
  PROVE  /\ \A t \in DOMAIN TagsOf(entries) : TagsOf(entries)[t] \in Numbers
         /\ NeededOf(entries) \subseteq Numbers
<1>1. ASSUME NEW t \in DOMAIN TagsOf(entries) PROVE TagsOf(entries)[t] \in Numbers
  <2> DEFINE S == {k \in DOMAIN entries : entries[k][1] = t}
  <2>1. t \in {entries[k][1] : k \in DOMAIN entries} BY DEF TagsOf
  <2>2. S \subseteq Nat /\ S # {} BY <2>1
  <2>3. Least(S) \in S BY <2>2, LeastIs
  <2>4. entries[Least(S)] \in STRING \X Numbers BY <2>3
  <2>5. TagsOf(entries)[t] = entries[Least(S)][2] BY <1>1 DEF TagsOf
  <2> HIDE DEF S
  <2> QED BY <2>4, <2>5
<1>2. NeededOf(entries) \subseteq Numbers BY DEF NeededOf
<1> QED BY <1>1, <1>2

Tables == {"rela", "rel", "jmprel"}

LEMMA CyclicIs ==
  ASSUME NEW S, NEW s \in Seq(S), s # << >>, NEW i \in Nat
  PROVE  Cyclic(s, i) \in S
<1> DEFINE length == Len(s) j == (i % length) + 1
<1>1. length \in Nat /\ length > 0 /\ DOMAIN s = 1 .. length OBVIOUS
<1> HIDE DEF length
<1>2. i % length \in Nat /\ i % length < length BY <1>1
<1>3. j \in 1 .. length BY <1>1, <1>2
<1> HIDE DEF j
<1>4. s[j] \in S BY <1>1, <1>3
<1> QED BY <1>4 DEF Cyclic, j, length

LEMMA EntriesAreSymbols ==
  ASSUME IsFile(input), NEW table \in Tables, NEW form, NEW size \in Nat
  PROVE  \A e \in Entries(table, form, size) : e.symbol \in Numbers /\ e.symbol \in Nat
<1> DEFINE s == input.relocations[table]
<1>1. s \in Seq([symbol : Numbers, jump : BOOLEAN, at : Numbers]) /\ s # << >>
  BY DEF IsFile, Tables
<1>2. Numbers \subseteq Nat BY FileIsSegments
<1> HIDE DEF s
<1> SUFFICES ASSUME NEW k \in 0 .. (size \div EntrySize[form] - 1)
             PROVE  Cyclic(s, k).symbol \in Numbers
  BY <1>2 DEF Entries, s
<1>3. k \in Nat OBVIOUS
<1>4. Cyclic(s, k) \in [symbol : Numbers, jump : BOOLEAN, at : Numbers] BY <1>1, <1>3, CyclicIs
<1> QED BY <1>4

LEMMA RawIsSymbol ==
  ASSUME IsFile(input), NEW i \in Nat
  PROVE  Raw(i).name \in Nat
<1> DEFINE s == input.raw
<1>1. s \in Seq([name : Numbers, defined : BOOLEAN]) /\ s # << >> BY DEF IsFile
<1> HIDE DEF s
<1>2. Cyclic(s, i) \in [name : Numbers, defined : BOOLEAN] BY <1>1, CyclicIs
<1>3. Cyclic(s, i).name \in Nat BY <1>2, FileIsSegments
<1> QED BY <1>3 DEF Raw, s

(* The highest bucket of a GNU hash table that is in bounds.               *)
LEMMA GnuLastIs ==
  ASSUME IsFile(input), NEW va, GnuHeaderGood(va)
  PROVE  /\ GnuLast \in Nat
         /\ GnuLast = 0 \/ GnuLast \in Starts(input.gnu)
         /\ \A s \in Starts(input.gnu) : s \in Nat /\ s <= GnuLast
         /\ input.gnu.symoffset \in Nat /\ input.gnu.bloom \in Nat /\ Len(input.gnu.buckets) \in Nat
<1> DEFINE g == input.gnu S == {g.buckets[b] : b \in DOMAIN g.buckets} \cup {0}
<1>1. /\ g.symoffset \in Nat /\ g.bloom \in Nat /\ g.buckets \in Seq(Numbers)
      /\ Numbers \subseteq Nat /\ MaxSymbols \in Nat
  BY FileIsSegments, FilesAssumption DEF IsFile
<1>2. S \subseteq Nat /\ S # {}
  <2>1. \A b \in DOMAIN g.buckets : g.buckets[b] \in Nat
    <3> DEFINE buckets == g.buckets
    <3>1. buckets \in Seq(Numbers) BY <1>1
    <3> HIDE DEF buckets
    <3>2. \A b \in DOMAIN buckets : buckets[b] \in Numbers BY <3>1
    <3>3. Numbers \subseteq Nat BY <1>1
    <3> QED BY <3>2, <3>3 DEF buckets
  <2> QED BY <2>1
<1>3. \A b \in DOMAIN g.buckets : g.buckets[b] = 0 \/ g.buckets[b] \in g.symoffset .. (MaxSymbols - 1)
  BY DEF GnuHeaderGood
<1>4. \A s \in S : s <= MaxSymbols BY <1>1, <1>3
<1>5. Most(S) \in S /\ \A y \in S : Most(S) >= y BY <1>1, <1>2, <1>4, MostIs
<1>6. GnuLast = Most(S) BY DEF GnuLast
<1>7. Starts(g) = S \ {0} BY DEF Starts
<1> HIDE DEF S
<1> DEFINE last == Most(S)
<1>8. last \in Nat /\ last \in S /\ \A y \in S : last >= y /\ y \in Nat BY <1>2, <1>5
<1> HIDE DEF last
<1>9. \A s \in Starts(g) : s \in Nat /\ s <= last BY <1>7, <1>8
<1>10. last = 0 \/ last \in Starts(g) BY <1>7, <1>8
<1> QED BY <1>1, <1>6, <1>8, <1>9, <1>10 DEF last

LEMMA CountsAreNumbers ==
  ASSUME IsFile(input), NEW va
  PROVE  SysvCount(va) \subseteq Nat /\ GnuCount(va) \subseteq Nat
<1>1. SysvCount(va) \subseteq Nat BY FileIsSegments DEF SysvCount, IsFile
<1>2. ASSUME GnuHeaderGood(va) PROVE GnuCount(va) \subseteq Nat
  <2>1. GnuLast \in Nat /\ input.gnu.symoffset \in Nat BY <1>2, GnuLastIs
  <2>2. \A c : GnuEnd(c) \subseteq Nat BY <2>1 DEF GnuEnd, IsFile
  <2>3. \A c : \A S \in {GnuEnd(c)} \ {{}} : Least(S) + 1 \in Nat BY <2>2, LeastIs
  <2> HIDE DEF GnuEnd
  <2>4. UNION {{Least(S) + 1 : S \in {GnuEnd(c)} \ {{}}} : c \in Mapped(GnuChainVa(va), 4)} \subseteq Nat
    BY <2>3
  <2> QED BY <1>2, <2>1, <2>4 DEF GnuCount
<1>3. ASSUME ~GnuHeaderGood(va) PROVE GnuCount(va) = {} BY <1>3 DEF GnuCount
<1> QED BY <1>1, <1>2, <1>3

-----------------------------------------------------------------------------
(* A relocation table adds symbols, slots and warnings, and nothing else,  *)
(* and it is read where it is mapped.                                      *)
TableKeeps ==
  /\ DOMAIN result' = Fields
  /\ \A f \in Fields \ {"referenced", "slots", "warnings"} : result'[f] = result[f]
  /\ result'.referenced \subseteq 0 .. (MaxSymbols - 1)
  /\ \A r \in reads' : r \in reads \/ Within(r.from, r.size)

LEMMA ParseTableKeeps ==
  ASSUME Types, NEW table \in Tables, NEW form, NEW va \in Nat, NEW size \in Nat,
         NEW entry, ParseTable(table, form, va, size, entry)
  PROVE  TableKeeps
<1> DEFINE bad == ~GoodLayout(form, size, entry) \/ (size > 0 /\ Mapped(va, size) = {})
           es == Entries(table, form, size)
           bytes == {Bytes(t, 0, size) : t \in IF size > 0 THEN Mapped(va, size) ELSE {}}
<1>1. CASE bad
  <2>1. result' = [result EXCEPT !.warnings = Warned({table})] /\ reads' = reads
    BY <1>1 DEF ParseTable
  <2> QED BY <2>1 DEF TableKeeps, Types, Fields
<1>2. CASE ~bad
  <2>1. /\ result' = [result EXCEPT
              !.referenced = @ \cup {e.symbol : e \in {f \in es : f.symbol < MaxSymbols}},
              !.slots = @ \cup {e.at : e \in {f \in es : f.jump}}]
        /\ reads' = reads \cup bytes
    BY <1>2 DEF ParseTable
  <2>2. \A e \in es : e.symbol \in Nat BY EntriesAreSymbols DEF Types
  <2>3. ASSUME NEW r \in bytes PROVE Within(r.from, r.size)
    <3>1. PICK t \in Mapped(va, size) : r = Bytes(t, 0, size) BY <2>3
    <3>2. Backed(t) /\ size <= t.available BY MappedIsBacked DEF Types
    <3>3. 0 + size <= t.available BY <3>2
    <3>4. 0 \in Nat OBVIOUS
    <3>5. LET p == Bytes(t, 0, size) IN Within(p.from, p.size)
      BY <3>2, <3>3, <3>4, PartIsWithin DEF Types
    <3> QED BY <3>1, <3>5
  <2> HIDE DEF es, bytes
  <2> DEFINE more == {e.symbol : e \in {f \in es : f.symbol < MaxSymbols}}
             slots == {e.at : e \in {f \in es : f.jump}}
  <2>4. more \subseteq 0 .. (MaxSymbols - 1) BY <2>2, FilesAssumption
  <2>5. result' = [result EXCEPT !.referenced = @ \cup more, !.slots = @ \cup slots]
    BY <2>1
  <2> HIDE DEF more, slots
  <2>6. result'.referenced = result.referenced \cup more BY <2>5 DEF Types, Fields
  <2>7. /\ DOMAIN result' = Fields
        /\ \A f \in Fields \ {"referenced", "slots", "warnings"} : result'[f] = result[f]
    BY <2>5 DEF Types, Fields
  <2> QED BY <2>1, <2>3, <2>4, <2>6, <2>7, Zenon DEF TableKeeps, Types
<1> QED BY <1>1, <1>2

LEMMA WarnIfKeeps ==
  ASSUME Types, NEW cond, NEW what, WarnIf(cond, what) PROVE TableKeeps
BY DEF WarnIf, TableKeeps, Types, Fields

LEMMA TablesKeep ==
  ASSUME Types, Rela \/ Rel \/ JmpRel PROVE TableKeeps
<1>1. \A t \in DOMAIN tags : tags[t] \in Nat BY FileIsSegments DEF Types
<1>2. CASE Rela
  <2>1. CASE Has("rela") /\ Has("relasz")
    BY <1>1, <1>2, <2>1, ParseTableKeeps DEF Rela, Has, Tables
  <2>2. CASE ~(Has("rela") /\ Has("relasz")) BY <1>2, <2>2, WarnIfKeeps DEF Rela
  <2> QED BY <2>1, <2>2
<1>3. CASE Rel
  <2>1. CASE Has("rel") /\ Has("relsz")
    BY <1>1, <1>3, <2>1, ParseTableKeeps DEF Rel, Has, Tables
  <2>2. CASE ~(Has("rel") /\ Has("relsz")) BY <1>3, <2>2, WarnIfKeeps DEF Rel
  <2> QED BY <2>1, <2>2
<1>4. CASE JmpRel
  <2> DEFINE kind == Or("pltrel", 7)
             entry == IF kind = 7 THEN Or("relaent", RelaSize) ELSE Or("relent", RelSize)
  <2>1. CASE Has("jmprel") /\ Has("pltrelsz") /\ kind \in DOMAIN Forms
    <3>1. ParseTable("jmprel", Forms[kind], tags["jmprel"], tags["pltrelsz"], entry)
      BY <1>4, <2>1 DEF JmpRel
    <3> HIDE DEF kind, entry
    <3> QED BY <1>1, <2>1, <3>1, ParseTableKeeps DEF Has, Tables
  <2>2. CASE ~(Has("jmprel") /\ Has("pltrelsz") /\ kind \in DOMAIN Forms)
    <3>1. WarnIf(Has("jmprel") \/ Has("pltrelsz"), "jmprel") BY <1>4, <2>2 DEF JmpRel
    <3> QED BY <3>1, WarnIfKeeps
  <2> QED BY <2>1, <2>2
<1> QED BY <1>2, <1>3, <1>4

-----------------------------------------------------------------------------
(* The types hold throughout.                                              *)
LEMMA TypesAtFirst == Init => Types
<1> SUFFICES ASSUME Init PROVE Types OBVIOUS
<1>1. IsFile(input) BY FilesAssumption DEF Init
<1>2. DOMAIN tags = {} BY DEF Init
<1>3. DOMAIN result = Fields /\ result.referenced = {} BY DEF Init, Nothing, Fields
<1> QED BY <1>1, <1>2, <1>3 DEF Init, Types, Stages

LEMMA TypesStep ==
  ASSUME Types, [Next]_vars PROVE Types'
<1>1. CASE DynamicSegment
  <2> DEFINE dynamic == Segments[at].type = "dynamic"
             ends == dynamic /\ InFile(Segments[at].offset, Segments[at].filesz) /\ Ends(at) # {}
             taken == ends /\ ~result.terminated
  <2>1. /\ result' = [result EXCEPT !.found = @ \/ dynamic, !.terminated = @ \/ ends,
                !.warnings = @ \cup IF dynamic /\ ~taken THEN {"PT_DYNAMIC"} ELSE {}]
        /\ tags' = IF taken THEN TagsOf(BeforeEnd(at)) ELSE tags
        /\ needed' = IF taken THEN NeededOf(BeforeEnd(at)) ELSE needed
        /\ at' = at + 1 /\ UNCHANGED <<input, stage, count>>
    BY <1>1 DEF DynamicSegment
  <2>2. at \in DOMAIN Segments
    BY <1>1, FileIsSegments DEF DynamicSegment, Types
  <2>3. ASSUME taken
        PROVE  /\ \A t \in DOMAIN TagsOf(BeforeEnd(at)) : TagsOf(BeforeEnd(at))[t] \in Numbers
               /\ NeededOf(BeforeEnd(at)) \subseteq Numbers
    BY <2>2, <2>3, EntriesAreNumbers, TagsAreNumbers DEF Types
  <2> HIDE DEF dynamic, ends, taken
  <2>4. DOMAIN result' = Fields /\ result'.referenced = result.referenced
    BY <2>1 DEF Types, Fields
  <2>5. at' \in Nat \ {0} BY <2>1 DEF Types
  <2>6. \A t \in DOMAIN tags' : tags'[t] \in Numbers BY <2>1, <2>3 DEF Types
  <2>7. needed' \subseteq Numbers BY <2>1, <2>3 DEF Types
  <2> QED BY <2>1, <2>4, <2>5, <2>6, <2>7 DEF Types
<1>2. CASE DynamicDone BY <1>2 DEF DynamicDone, Goto, Types, Stages
<1>3. CASE StringTable
  <2>1. /\ UNCHANGED <<input, at, tags, needed, count>> /\ stage' = "rela"
    BY <1>3 DEF StringTable, Goto
  <2>2. \E names, warnings : result' = [result EXCEPT !.needed = names, !.warnings = warnings]
    BY <1>3, Zenon DEF StringTable
  <2>3. DOMAIN result' = Fields /\ result'.referenced = result.referenced
    BY <2>2 DEF Types, Fields
  <2> QED BY <2>1, <2>3 DEF Types, Stages
<1>4. CASE Rela \/ Rel \/ JmpRel
  <2>1. TableKeeps BY <1>4, TablesKeep
  <2>2. UNCHANGED <<input, at, tags, needed, count>> /\ stage' \in Stages
    BY <1>4 DEF Rela, Rel, JmpRel, Goto, Stages
  <2> QED BY <2>1, <2>2 DEF Types, TableKeeps
<1>5. CASE CountSymbols
  <2> DEFINE sysv == IF Has("hash") THEN SysvCount(tags["hash"]) ELSE {}
             asks == sysv = {} /\ Has("gnu")
             gnu == IF asks THEN GnuCount(tags["gnu"]) ELSE {}
  <2>1. /\ count' = sysv \cup gnu /\ stage' = "table"
        /\ \E source, warnings : result' = [result EXCEPT !.source = source, !.warnings = warnings]
        /\ UNCHANGED <<input, at, tags, needed>>
    BY <1>5, Zenon DEF CountSymbols, Goto
  <2>2. sysv \subseteq Nat /\ gnu \subseteq Nat BY CountsAreNumbers DEF Types
  <2> HIDE DEF sysv, gnu
  <2>3. DOMAIN result' = Fields /\ result'.referenced = result.referenced
    BY <2>1 DEF Types, Fields
  <2> QED BY <2>1, <2>2, <2>3 DEF Types, Stages
<1>6. CASE SymbolTable
  <2>1. /\ stage' = "symbols" /\ UNCHANGED <<input, at, tags, needed, count>>
        /\ \E symtab, complete, declared, source, warnings :
             result' = [result EXCEPT !.symtab = symtab, !.complete = complete, !.declared = declared,
                                      !.source = source, !.warnings = warnings]
    BY <1>6, Zenon DEF SymbolTable, Goto
  <2>2. DOMAIN result' = Fields /\ result'.referenced = result.referenced
    BY <2>1 DEF Types, Fields
  <2> QED BY <2>1, <2>2 DEF Types, Stages
<1>7. CASE ReadSymbols
  <2>1. /\ stage' = "init" /\ UNCHANGED <<input, at, tags, needed, count>>
        /\ \E symbols, imports, exported, rejected :
             result' = [result EXCEPT !.symbols = symbols, !.imports = imports,
                                      !.exported = exported, !.rejected = rejected]
    BY <1>7, Zenon DEF ReadSymbols, Goto
  <2>2. DOMAIN result' = Fields /\ result'.referenced = result.referenced
    BY <2>1 DEF Types, Fields
  <2> QED BY <2>1, <2>2 DEF Types, Stages
<1>8. CASE EntryPoints
  <2>1. /\ stage' = "preview" /\ UNCHANGED <<input, at, tags, needed, count>>
        /\ \E init, fini, array, warnings :
             result' = [result EXCEPT !.init = init, !.fini = fini, !.initArray = array,
                                      !.warnings = warnings]
    BY <1>8, Zenon DEF EntryPoints, Goto
  <2>2. DOMAIN result' = Fields /\ result'.referenced = result.referenced
    BY <2>1 DEF Types, Fields
  <2> QED BY <2>1, <2>2 DEF Types, Stages
<1>9. CASE Preview
  <2>1. /\ stage' = "done" /\ UNCHANGED <<input, at, tags, needed, count>>
        /\ \E preview : result' = [result EXCEPT !.preview = preview]
    BY <1>9 DEF Preview, Goto
  <2>2. DOMAIN result' = Fields /\ result'.referenced = result.referenced
    BY <2>1 DEF Types, Fields
  <2> QED BY <2>1, <2>2 DEF Types, Stages
<1>10. CASE Done \/ UNCHANGED vars BY <1>10 DEF Done, vars, Types
<1> QED BY <1>1, <1>2, <1>3, <1>4, <1>5, <1>6, <1>7, <1>8, <1>9, <1>10 DEF Next

LEMMA TypesHold == Spec => []Types
<1>1. Types /\ [Next]_vars => Types' BY TypesStep
<1> QED BY <1>1, TypesAtFirst, PTL DEF Spec

-----------------------------------------------------------------------------
(* Addresses lead to the same places while the tags stay.                  *)
LEMMA SameAddresses ==
  ASSUME UNCHANGED <<input, tags>>
  PROVE  /\ \A va, need : Mapped(va, need)' = Mapped(va, need)
         /\ HasSymtab' = HasSymtab
         /\ \A n : WholeTable(n)' = WholeTable(n)
         /\ \A i : SymbolAt(i)' = SymbolAt(i)
         /\ Code("init")' = Code("init")
<1>1. \A va, need, exec : Fitting(va, need, exec)' = Fitting(va, need, exec)
  BY DEF Fitting, Fits, Left, Segments, Size
<1>2. \A va, need, exec : Span(va, need, exec)' = Span(va, need, exec)
  <2>1. \A s, va : Left(s, va)' = Left(s, va) BY DEF Left, Size
  <2>2. \A s, va : SpanOf(s, va)' = SpanOf(s, va) BY Zenon, <2>1 DEF SpanOf
  <2>3. Segments' = Segments BY DEF Segments
  <2> QED BY Zenon, <1>1, <2>2, <2>3 DEF Span
<1>3. \A va, need : Mapped(va, need)' = Mapped(va, need) BY Zenon, <1>2 DEF Mapped
<1>4. HasSymtab' = HasSymtab BY <1>3 DEF HasSymtab, Has, Or
<1>5. \A n : WholeTable(n)' = WholeTable(n) BY <1>3 DEF WholeTable
<1>6. \A i : SymbolAt(i)' = SymbolAt(i) BY <1>3 DEF SymbolAt
<1>7. Code("init")' = Code("init") BY <1>2 DEF Code, Or, Has
<1> QED BY <1>3, <1>4, <1>5, <1>6, <1>7

-----------------------------------------------------------------------------
(* What is said of the symbol table stays true: it is there, and it is     *)
(* mapped as a whole when it is complete.                                  *)
Early == {"dynamic", "strings", "rela", "rel", "jmprel", "count", "table"}
SymtabInv ==
  /\ stage \in Early => ~result.symtab /\ ~result.complete
  /\ result.symtab => HasSymtab
  /\ result.complete =>
       HasSymtab /\ \E n \in Nat : n = result.declared /\ WholeTable(n)

(* The fields of the result that an action leaves alone.                   *)
Keeps(F) == \A f \in F : result'[f] = result[f]

LEMMA FieldsKept ==
  ASSUME Types, Next
  PROVE  /\ ~SymbolTable => Keeps({"symtab", "complete", "declared"})
         /\ ~EntryPoints => Keeps({"init"})
         /\ ~Preview => Keeps({"preview"})
<1> USE DEF Keeps
<1>1. CASE DynamicSegment
  <2>1. \E found, terminated, warnings : result' =
          [result EXCEPT !.found = found, !.terminated = terminated, !.warnings = warnings]
    BY Zenon, <1>1 DEF DynamicSegment
  <2> QED BY <2>1 DEF Types, Fields
<1>2. CASE DynamicDone BY <1>2 DEF DynamicDone
<1>3. CASE StringTable
  <2>1. \E names, warnings : result' = [result EXCEPT !.needed = names, !.warnings = warnings]
    BY Zenon, <1>3 DEF StringTable
  <2> QED BY <2>1 DEF Types, Fields
<1>4. CASE Rela \/ Rel \/ JmpRel BY <1>4, TablesKeep DEF TableKeeps, Fields
<1>5. CASE CountSymbols
  <2>1. \E source, warnings : result' = [result EXCEPT !.source = source, !.warnings = warnings]
    BY Zenon, <1>5 DEF CountSymbols
  <2> QED BY <2>1 DEF Types, Fields
<1>6. CASE SymbolTable
  <2>1. \E symtab, complete, declared, source, warnings :
          result' = [result EXCEPT !.symtab = symtab, !.complete = complete, !.declared = declared,
                                   !.source = source, !.warnings = warnings]
    BY Zenon, <1>6 DEF SymbolTable
  <2> QED BY <1>6, <2>1 DEF Types, Fields
<1>7. CASE ReadSymbols
  <2>1. \E symbols, imports, exported, rejected :
          result' = [result EXCEPT !.symbols = symbols, !.imports = imports,
                                   !.exported = exported, !.rejected = rejected]
    BY Zenon, <1>7 DEF ReadSymbols
  <2> QED BY <2>1 DEF Types, Fields
<1>8. CASE EntryPoints
  <2>1. \E init, fini, array, warnings :
          result' = [result EXCEPT !.init = init, !.fini = fini, !.initArray = array,
                                   !.warnings = warnings]
    BY Zenon, <1>8 DEF EntryPoints
  <2> QED BY <1>8, <2>1 DEF Types, Fields
<1>9. CASE Preview
  <2>1. \E preview : result' = [result EXCEPT !.preview = preview] BY Zenon, <1>9 DEF Preview
  <2> QED BY <1>9, <2>1 DEF Types, Fields
<1>10. CASE Done BY <1>10 DEF Done, vars
<1> QED BY <1>1, <1>2, <1>3, <1>4, <1>5, <1>6, <1>7, <1>8, <1>9, <1>10 DEF Next

(* Only a program header changes the tags, and only the first stage has any. *)
LEMMA TagsAreSettled ==
  ASSUME Next
  PROVE  /\ input' = input
         /\ stage # "dynamic" => tags' = tags
         /\ DynamicSegment => stage = "dynamic" /\ stage' = "dynamic"
BY DEF Next, DynamicSegment, DynamicDone, StringTable, Rela, Rel, JmpRel, CountSymbols,
       SymbolTable, ReadSymbols, EntryPoints, Preview, Done, Goto, vars

LEMMA SymtabStep ==
  ASSUME Types, SymtabInv, [Next]_vars PROVE SymtabInv'
<1>1. CASE SymbolTable
  <2> DEFINE whole == {n \in count : HasSymtab /\ n <= MaxSymbols /\ WholeTable(n)}
             partial == whole = {} /\ HasSymtab /\ result.referenced # {}
             declared == IF whole # {} THEN Least(whole)
                         ELSE IF partial THEN Most(result.referenced) + 1 ELSE 0
  <2>1. \E source, warnings :
          result' = [result EXCEPT !.symtab = HasSymtab, !.complete = whole # {},
                       !.declared = declared, !.source = source, !.warnings = warnings]
    BY Zenon, <1>1 DEF SymbolTable
  <2>2. stage' = "symbols" /\ UNCHANGED <<input, tags>> BY <1>1 DEF SymbolTable, Goto
  <2>3. whole # {} => /\ HasSymtab /\ declared \in Nat /\ WholeTable(declared)
    <3>1. whole \subseteq Nat BY DEF Types
    <3>2. whole # {} => Least(whole) \in whole BY <3>1, LeastIs
    <3> QED BY <3>1, <3>2
  <2> HIDE DEF whole, declared
  <2>4. result'.symtab = HasSymtab /\ result'.complete = (whole # {}) /\ result'.declared = declared
    BY <2>1 DEF Types, Fields
  <2>5. HasSymtab' = HasSymtab /\ \A n : WholeTable(n)' = WholeTable(n) BY <2>2, SameAddresses
  <2> QED BY <2>2, <2>3, <2>4, <2>5 DEF SymtabInv, Early
<1>2. CASE Next /\ ~SymbolTable
  <2>1. Keeps({"symtab", "complete", "declared"}) BY <1>2, FieldsKept
  <2>2. /\ result'.symtab = result.symtab /\ result'.complete = result.complete
        /\ result'.declared = result.declared
    BY <2>1 DEF Keeps
  <2>3. stage' \in Early => stage \in Early
    BY <1>2 DEF Next, Early, DynamicSegment, DynamicDone, StringTable, Rela, Rel, JmpRel,
       CountSymbols, ReadSymbols, EntryPoints, Preview, Done, Goto, vars
  <2>4. CASE stage = "dynamic" BY <2>2, <2>3, <2>4 DEF SymtabInv, Early
  <2>5. CASE stage # "dynamic"
    <3>1. UNCHANGED <<input, tags>> BY <1>2, <2>5, TagsAreSettled
    <3>2. HasSymtab' = HasSymtab /\ \A n : WholeTable(n)' = WholeTable(n) BY <3>1, SameAddresses
    <3> QED BY <2>2, <2>3, <3>2 DEF SymtabInv
  <2> QED BY <2>4, <2>5
<1>3. CASE UNCHANGED vars
  <2>1. UNCHANGED <<input, tags, result, stage>> BY <1>3 DEF vars
  <2>2. HasSymtab' = HasSymtab /\ \A n : WholeTable(n)' = WholeTable(n) BY <2>1, SameAddresses
  <2> QED BY <2>1, <2>2 DEF SymtabInv
<1> QED BY <1>1, <1>2, <1>3

-----------------------------------------------------------------------------
(* The string table is a span, and everything that was read is in the file. *)
ReadsInv ==
  /\ stage = "dynamic" => strings = {}
  /\ strings # {} => Has("strsz")
  /\ \A t \in strings : Backed(t)
  /\ \A r \in reads : Within(r.from, r.size)

LEMMA SameFile ==
  ASSUME input' = input
  PROVE  /\ \A from, size : Within(from, size)' = Within(from, size)
         /\ \A t : Backed(t)' = Backed(t)
<1>1. \A from, size : Within(from, size)' = Within(from, size)
  BY DEF Within, Loads, Segments, Size
<1> QED BY Zenon, <1>1 DEF Backed

LEMMA IndicesAreNumbers ==
  ASSUME Types, SymtabInv, NEW i \in Indices
  PROVE  i \in Nat /\ Has("symtab") /\ tags["symtab"] \in Nat
<1>1. CASE result.complete
  <2>1. Indices = 0 .. (result.declared - 1) BY <1>1 DEF Indices
  <2>2. PICK n \in Nat : n = result.declared BY <1>1 DEF SymtabInv
  <2>3. i \in 0 .. (n - 1) BY <2>1, <2>2
  <2>4. HasSymtab BY <1>1 DEF SymtabInv
  <2> QED BY <2>3, <2>4, FileIsSegments DEF HasSymtab, Has, Types
<1>2. CASE ~result.complete
  <2>1. result.symtab /\ i \in result.referenced BY <1>2 DEF Indices
  <2>2. HasSymtab BY <2>1 DEF SymtabInv
  <2>3. i \in 0 .. (MaxSymbols - 1) BY <2>1 DEF Types
  <2> QED BY <2>2, <2>3, FileIsSegments DEF HasSymtab, Has, Types
<1> QED BY <1>1, <1>2

LEMMA ReadsStep ==
  ASSUME Types, SymtabInv, ReadsInv, [Next]_vars PROVE ReadsInv'
<1>1. input' = input BY TagsAreSettled DEF vars
<1>2. (\A r \in reads' : Within(r.from, r.size)) /\ (\A t \in strings' : Backed(t))
      => (\A r \in reads' : Within(r.from, r.size)') /\ (\A t \in strings' : Backed(t)')
  BY <1>1, SameFile
<1>3. \A t \in DOMAIN tags : tags[t] \in Nat BY FileIsSegments DEF Types
<1>4. CASE StringTable
  <2>1. /\ stage' = "rela" /\ tags' = tags
        /\ strings' = IF Has("strtab") /\ Has("strsz") /\ tags["strsz"] \in 1 .. MaxStringTable
                      THEN Mapped(tags["strtab"], tags["strsz"]) ELSE {}
        /\ reads' = UNION {UNION {NameBytes(t, tags["strsz"], offset) : offset \in needed} : t \in strings'}
    BY <1>4 DEF StringTable, Goto
  <2>2. ASSUME NEW t \in strings'
        PROVE  Backed(t) /\ Has("strsz") /\ tags["strsz"] \in Nat
    <3>1. Has("strtab") /\ Has("strsz") /\ t \in Mapped(tags["strtab"], tags["strsz"]) BY <2>1, <2>2
    <3>2. tags["strtab"] \in Nat /\ tags["strsz"] \in Nat BY <1>3, <3>1 DEF Has
    <3> QED BY <3>1, <3>2, MappedIsBacked DEF Types
  <2>3. ASSUME NEW r \in reads' PROVE Within(r.from, r.size)
    <3>1. PICK t \in strings', offset \in needed : r \in NameBytes(t, tags["strsz"], offset)
      BY <2>1, <2>3
    <3>2. offset \in Nat BY FileIsSegments DEF Types
    <3> QED BY <2>2, <3>1, <3>2, NamesAreWithin DEF Types
  <2>4. Has("strsz")' = Has("strsz") BY <2>1 DEF Has
  <2> QED BY <1>2, <2>1, <2>2, <2>3, <2>4 DEF ReadsInv
<1>5. CASE Rela \/ Rel \/ JmpRel
  <2>1. \A r \in reads' : r \in reads \/ Within(r.from, r.size) BY <1>5, TablesKeep DEF TableKeeps
  <2>2. stage' # "dynamic" /\ UNCHANGED <<strings, tags>> BY <1>5 DEF Rela, Rel, JmpRel, Goto
  <2>3. Has("strsz")' = Has("strsz") BY <2>2 DEF Has
  <2> QED BY <1>2, <2>1, <2>2, <2>3 DEF ReadsInv
<1>6. CASE ReadSymbols
  <2> DEFINE seen == {i \in Indices : SymbolAt(i) # {}}
             symbols == UNION {{Bytes(f, 0, SymSize) : f \in SymbolAt(i)} : i \in seen}
             names == UNION {UNION {NameBytes(t, tags["strsz"], Raw(i).name) : t \in strings} : i \in seen}
  <2>1. stage' = "init" /\ UNCHANGED <<strings, tags>> BY <1>6 DEF ReadSymbols, Goto
  <2>2. reads' = reads \cup symbols \cup names BY Zenon, <1>6 DEF ReadSymbols
  <2>3. ASSUME NEW i \in Indices PROVE i \in Nat /\ Has("symtab") /\ tags["symtab"] \in Nat BY IndicesAreNumbers
  <2>4. ASSUME NEW r \in symbols PROVE Within(r.from, r.size)
    <3>1. PICK i \in seen : \E f \in SymbolAt(i) : r = Bytes(f, 0, SymSize) BY <2>4
    <3>2. PICK f \in SymbolAt(i) : r = Bytes(f, 0, SymSize) BY <3>1
    <3> DEFINE start == tags["symtab"]
    <3>3. i \in Nat /\ start \in Nat BY <2>3
    <3>4. f \in Mapped(start + i * SymSize, SymSize) BY DEF SymbolAt
    <3> HIDE DEF start
    <3>5. start + i * SymSize \in Nat /\ SymSize \in Nat BY <3>3 DEF SymSize
    <3>6. Backed(f) /\ SymSize <= f.available BY <3>4, <3>5, MappedIsBacked DEF Types
    <3>7. 0 + SymSize <= f.available /\ 0 \in Nat BY <3>6 DEF SymSize
    <3>8. LET p == Bytes(f, 0, SymSize) IN Within(p.from, p.size)
      BY <3>5, <3>6, <3>7, PartIsWithin DEF Types
    <3> QED BY <3>2, <3>8
  <2>5. ASSUME NEW r \in names PROVE Within(r.from, r.size)
    <3>1. PICK i \in seen, t \in strings : r \in NameBytes(t, tags["strsz"], Raw(i).name) BY <2>5
    <3>2. Raw(i).name \in Nat BY <2>3, RawIsSymbol DEF Types
    <3>3. Backed(t) /\ tags["strsz"] \in Nat BY <1>3 DEF ReadsInv, Has
    <3> QED BY <3>1, <3>2, <3>3, NamesAreWithin DEF Types
  <2> HIDE DEF symbols, names
  <2>6. Has("strsz")' = Has("strsz") BY <2>1 DEF Has
  <2> QED BY <1>2, <2>1, <2>2, <2>4, <2>5, <2>6 DEF ReadsInv
<1>7. CASE DynamicSegment
  <2>1. UNCHANGED <<strings, reads, stage>> /\ stage = "dynamic" BY <1>7, TagsAreSettled DEF DynamicSegment
  <2> QED BY <1>2, <2>1 DEF ReadsInv
<1>8. CASE DynamicDone \/ CountSymbols \/ SymbolTable \/ EntryPoints \/ Preview \/ Done \/ UNCHANGED vars
  <2>1. UNCHANGED <<strings, reads, tags>> /\ (stage' = "dynamic" => stage = "dynamic")
    BY <1>8 DEF DynamicDone, CountSymbols, SymbolTable, EntryPoints, Preview, Done, Goto, vars
  <2>2. Has("strsz")' = Has("strsz") BY <2>1 DEF Has
  <2> QED BY <1>2, <2>1, <2>2 DEF ReadsInv
<1> QED BY <1>4, <1>5, <1>6, <1>7, <1>8 DEF Next

(* Whatever the numbers of a library are, what the parser reads of strings, *)
(* relocations and symbols is in the file and in one PT_LOAD.              *)
THEOREM NothingOutsideIsRead == Spec => []ReadsInside
<1> DEFINE Inv == Types /\ SymtabInv /\ ReadsInv
<1>1. Init => Inv
  <2> SUFFICES ASSUME Init PROVE SymtabInv /\ ReadsInv BY TypesAtFirst
  <2>1. result.symtab = FALSE /\ result.complete = FALSE BY DEF Init, Nothing
  <2> QED BY <2>1 DEF Init, SymtabInv, ReadsInv
<1>2. Inv /\ [Next]_vars => Inv' BY TypesStep, SymtabStep, ReadsStep
<1>3. Inv => ReadsInside BY DEF ReadsInv, ReadsInside, Within
<1> QED BY <1>1, <1>2, <1>3, PTL DEF Spec

-----------------------------------------------------------------------------
(* Where segments are disjoint, an address is in one of them.              *)
LEMMA OneSegmentHolds ==
  ASSUME IsFile(input), Disjoint, NEW i \in Loads, NEW j \in Loads, NEW va \in Nat,
         va >= Segments[i].va, va - Segments[i].va < Segments[i].filesz,
         va >= Segments[j].va, va - Segments[j].va < Segments[j].filesz
  PROVE  i = j
<1> DEFINE a == Segments[i].va b == Segments[j].va m == Segments[i].filesz n == Segments[j].filesz
<1>1. a \in Nat /\ b \in Nat /\ m \in Nat /\ n \in Nat BY FileIsSegments DEF Loads, SegmentHeaders
<1>2. i # j => a + m <= b \/ b + n <= a BY DEF Disjoint
<1>3. va >= a /\ va - a < m /\ va >= b /\ va - b < n OBVIOUS
<1> HIDE DEF a, b, m, n
<1> QED BY <1>1, <1>2, <1>3

(* A span is in a segment that also main.cpp's lookup accepts, and it      *)
(* starts where that lookup says.                                          *)
LEMMA SpanIsHeld ==
  ASSUME IsFile(input), NEW va \in Nat, NEW need \in Nat, NEW exec, NEW span \in Span(va, need, exec)
  PROVE  \E i \in Loads :
           /\ FitsPlainly(Segments[i], va, need, exec) /\ Holds(Segments[i], va)
           /\ i = Least(Fitting(va, need, exec))
           /\ span = SpanOf(Segments[i], va) /\ span.offset = Segments[i].offset + (va - Segments[i].va)
<1> DEFINE F == Fitting(va, need, exec) i == Least(F)
<1>1. F # {} /\ span = SpanOf(Segments[i], va) BY DEF Span
<1>2. F \subseteq Nat BY FileIsSegments DEF Fitting
<1>3. i \in F BY <1>1, <1>2, LeastIs
<1>4. i \in DOMAIN Segments /\ Fits(Segments[i], va, need, exec) BY <1>3 DEF Fitting
<1> HIDE DEF F, i
<1>5. Segments[i] \in SegmentHeaders /\ Size \in Nat /\ Numbers \subseteq Nat BY <1>4, FileIsSegments
<1>6. FitsPlainly(Segments[i], va, need, exec) BY <1>4, <1>5, FitsMeans
<1>7. Holds(Segments[i], va) /\ i \in Loads BY <1>4, <1>6 DEF FitsPlainly, Holds, Loads
<1> QED BY <1>1, <1>6, <1>7 DEF SpanOf, i, F

LEMMA PreviewAgrees ==
  ASSUME IsFile(input), Disjoint, NEW va \in Nat, Span(va, 4, TRUE) # {}
  PROVE  {o \in Offset(va) : o < Size} = {f.offset : f \in Span(va, 4, TRUE)}
<1>1. PICK f \in Span(va, 4, TRUE) : TRUE OBVIOUS
<1>2. PICK i \in Loads :
        /\ FitsPlainly(Segments[i], va, 4, TRUE) /\ Holds(Segments[i], va)
        /\ f.offset = Segments[i].offset + (va - Segments[i].va)
  <2>1. PICK need \in Nat, exec \in BOOLEAN : need = 4 /\ exec = TRUE OBVIOUS
  <2>2. f \in Span(va, need, exec) BY <1>1, <2>1
  <2>3. \E i \in Loads :
           /\ FitsPlainly(Segments[i], va, need, exec) /\ Holds(Segments[i], va)
           /\ i = Least(Fitting(va, need, exec))
           /\ f = SpanOf(Segments[i], va) /\ f.offset = Segments[i].offset + (va - Segments[i].va)
    BY <2>2, SpanIsHeld
  <2> QED BY <2>1, <2>3
<1>3. Span(va, 4, TRUE) = {f} BY <1>1 DEF Span
<1> DEFINE S == {j \in DOMAIN Segments : Holds(Segments[j], va)}
<1>4. i \in S BY <1>2 DEF Loads
<1>5. ASSUME NEW j \in S PROVE j = i BY <1>2, OneSegmentHolds DEF Holds, Loads
<1>6. S = {i} BY <1>4, <1>5
<1>7. i \in Nat BY FileIsSegments DEF Loads
<1>8. {i} \subseteq Nat /\ {i} # {} BY <1>7
<1>9. Least({i}) = i BY <1>8, LeastIs
<1>10. Offset(va) = {f.offset}
  <2>1. Offset(va) = IF S = {} THEN {} ELSE {Segments[Least(S)].offset + (va - Segments[Least(S)].va)}
    BY DEF Offset
  <2> HIDE DEF S
  <2> QED BY <1>2, <1>6, <1>9, <2>1
<1>11. f.offset < Size
  <2> DEFINE offset == f.offset size == Size
  <2>1. 4 <= size - offset BY <1>2 DEF FitsPlainly
  <2>2. size \in Nat /\ offset \in Nat
    <3>1. Backed(f) BY SpanIsBacked
    <3> QED BY <3>1, FileIsSegments DEF Backed
  <2> HIDE DEF offset, size
  <2>3. offset < size BY <2>1, <2>2
  <2> QED BY <2>3 DEF offset, size
<1> QED BY <1>3, <1>10, <1>11

(* What the result says of DT_INIT, and what main.cpp shows of it.         *)
EntryInv ==
  /\ stage \notin {"preview", "done"} => result.init = {} /\ result.preview = {}
  /\ stage = "preview" => result.init = Code("init") /\ result.preview = {}
  /\ stage = "done" =>
       \/ result.init = {} /\ result.preview = {}
       \/ /\ result.init = Code("init") /\ result.init # {}
          /\ result.preview = {o \in Offset(tags["init"]) : o < Size}

LEMMA EntryStep ==
  ASSUME Types, EntryInv, [Next]_vars PROVE EntryInv'
<1>1. input' = input BY TagsAreSettled DEF vars
<1>2. ASSUME tags' = tags
      PROVE  /\ Code("init")' = Code("init")
             /\ {o \in Offset(tags["init"]) : o < Size}' = {o \in Offset(tags["init"]) : o < Size}
  <2>1. Code("init")' = Code("init") BY <1>1, <1>2, SameAddresses
  <2>2. \A va : Offset(va)' = Offset(va) BY <1>1 DEF Offset, Segments
  <2>3. Offset(tags["init"])' = Offset(tags["init"]) BY <1>2, <2>2
  <2>4. Size' = Size BY <1>1 DEF Size
  <2> QED BY <2>1, <2>3, <2>4
<1>3. CASE EntryPoints
  <2>1. stage = "init" /\ stage' = "preview" /\ tags' = tags
        /\ \E fini, array, warnings :
             result' = [result EXCEPT !.init = Code("init"), !.fini = fini, !.initArray = array,
                                      !.warnings = warnings]
    BY Zenon, <1>3 DEF EntryPoints, Goto
  <2>2. result'.init = Code("init") /\ result'.preview = result.preview
    BY <2>1 DEF Types, Fields
  <2> QED BY <1>2, <2>1, <2>2 DEF EntryInv
<1>4. CASE Preview
  <2> DEFINE shown == {o \in Offset(tags["init"]) : o < Size}
  <2>1. stage = "preview" /\ stage' = "done" /\ tags' = tags BY <1>4 DEF Preview, Goto
  <2>2. result' = [result EXCEPT !.preview = IF result.init = {} THEN {} ELSE shown]
    BY Zenon, <1>4 DEF Preview
  <2>3. shown' = shown BY <1>2, <2>1
  <2> HIDE DEF shown
  <2>4. result'.init = result.init /\ result'.preview = IF result.init = {} THEN {} ELSE shown
    BY <2>2 DEF Types, Fields
  <2>5. result.init = Code("init") BY <2>1 DEF EntryInv
  <2>6. Code("init")' = Code("init") BY <1>2, <2>1
  <2> QED BY <2>1, <2>3, <2>4, <2>5, <2>6 DEF EntryInv, shown
<1>5. CASE Next /\ ~EntryPoints /\ ~Preview /\ ~Done
  <2>1. result'.init = result.init /\ result'.preview = result.preview BY <1>5, FieldsKept DEF Keeps
  <2>2. /\ stage \notin {"preview", "done"} /\ stage' # "preview"
    BY <1>5 DEF Next, DynamicSegment, DynamicDone, StringTable, Rela, Rel, JmpRel, CountSymbols,
       SymbolTable, ReadSymbols, Goto
  <2> QED BY <2>1, <2>2 DEF EntryInv
<1>6. CASE Done \/ UNCHANGED vars
  <2>1. UNCHANGED <<stage, tags, result>> BY <1>6 DEF Done, vars
  <2> QED BY <1>2, <2>1 DEF EntryInv
<1> QED BY <1>3, <1>4, <1>5, <1>6

(* Addresses lead to the bytes of the segment they belong to: whatever the *)
(* parser reads is in the file and in one PT_LOAD, and the preview that    *)
(* main.cpp shows of DT_INIT is the code the parser found for it.          *)
THEOREM AddressesAreRight == Spec => []AddressesHold
<1>1. Init => EntryInv
  <2> SUFFICES ASSUME Init PROVE EntryInv OBVIOUS
  <2>1. result.init = {} /\ result.preview = {} BY DEF Init, Nothing
  <2> QED BY <2>1 DEF Init, EntryInv
<1>2. Types /\ EntryInv /\ [Next]_vars => EntryInv' BY EntryStep
<1>3. Types /\ EntryInv => PreviewIsInit
  <2> SUFFICES ASSUME Types, EntryInv, stage = "done", Disjoint
               PROVE  result.preview = {f.offset : f \in result.init}
    BY DEF PreviewIsInit
  <2>1. CASE result.init = {} BY <2>1 DEF EntryInv
  <2>2. CASE result.init # {}
    <3>1. /\ result.init = Code("init")
          /\ result.preview = {o \in Offset(tags["init"]) : o < Size}
      BY <2>2 DEF EntryInv
    <3>2. Or("init", 0) # 0 /\ Code("init") = Span(tags["init"], 4, TRUE) BY <2>2, <3>1 DEF Code
    <3>3. Has("init") BY <3>2 DEF Or
    <3>4. tags["init"] \in Nat BY <3>3, FileIsSegments DEF Has, Types
    <3> QED BY <2>2, <3>1, <3>2, <3>4, PreviewAgrees DEF Types
  <2> QED BY <2>1, <2>2
<1> QED BY <1>1, <1>2, <1>3, TypesHold, NothingOutsideIsRead, PTL DEF Spec, AddressesHold

-----------------------------------------------------------------------------
(* A segment that holds a table holds each entry of it.                    *)
LEMMA EntryFits ==
  ASSUME NEW s \in SegmentHeaders, Size \in Nat, Size < Top, Numbers \subseteq Nat, Top \in Nat,
         NEW start \in Nat, NEW n \in Nat, NEW i \in Nat, i < n,
         FitsPlainly(s, start, n * SymSize, FALSE), start + n * SymSize < Top
  PROVE  /\ FitsPlainly(s, start + i * SymSize, SymSize, FALSE)
         /\ start + i * SymSize \in Nat /\ start + i * SymSize + SymSize < Top
         /\ start + i * SymSize < Top
         /\ s.offset + ((start + i * SymSize) - s.va) = (s.offset + (start - s.va)) + i * SymSize
         /\ s.offset + (start - s.va) \in 0 .. Size
<1> USE DEF SymSize
<1> DEFINE offset == s.offset va == s.va filesz == s.filesz memsz == s.memsz size == Size
<1>1. offset \in Nat /\ va \in Nat /\ filesz \in Nat /\ memsz \in Nat /\ size \in Nat
  BY DEF SegmentHeaders
<1>2. /\ s.type = "load" /\ start >= va /\ filesz <= memsz /\ start - va < filesz
      /\ offset + (start - va) <= size
      /\ n * 24 <= filesz - (start - va) /\ n * 24 <= size - (offset + (start - va))
      /\ offset + (start - va) < Top
  BY DEF FitsPlainly
<1>3. size < Top OBVIOUS
<1>4. start + n * 24 < Top OBVIOUS
<1> HIDE DEF offset, va, filesz, memsz, size
<1>5. i * 24 + 24 <= n * 24 /\ i * 24 \in Nat /\ n * 24 \in Nat OBVIOUS
<1> DEFINE a == i * 24 b == n * 24
<1>6. a \in Nat /\ b \in Nat /\ a + 24 <= b BY <1>5
<1>7. /\ b <= filesz - (start - va) /\ b <= size - (offset + (start - va)) /\ start + b < Top
  BY <1>2, <1>4
<1> HIDE DEF a, b
<1>8. /\ start + a \in Nat /\ (start + a) + 24 < Top /\ start + a < Top
      /\ start + a >= va /\ (start + a) - va < filesz
      /\ offset + ((start + a) - va) <= size /\ offset + ((start + a) - va) < Top
      /\ 24 <= filesz - ((start + a) - va) /\ 24 <= size - (offset + ((start + a) - va))
      /\ offset + ((start + a) - va) = (offset + (start - va)) + a
      /\ offset + (start - va) \in 0 .. size
  BY <1>1, <1>2, <1>3, <1>6, <1>7
<1>9. FitsPlainly(s, start + a, 24, FALSE)
  BY <1>2, <1>8 DEF FitsPlainly, offset, va, filesz, memsz, size
<1> QED BY <1>8, <1>9 DEF a, offset, va, size

LEMMA TableHoldsItsSymbols ==
  ASSUME Types, HasSymtab, NEW n \in Nat, n > 0, WholeTable(n)
  PROVE  /\ \A i \in 0 .. (n - 1) : SymbolAt(i) # {}
         /\ Disjoint => \E base \in 0 .. Size : \A i \in 0 .. (n - 1) :
              \A f \in SymbolAt(i) : f.offset = base + i * SymSize
<1> DEFINE start == tags["symtab"] total == n * SymSize
<1>1. Has("symtab") /\ start \in Nat
  <2>1. Has("symtab") BY DEF HasSymtab
  <2> QED BY <2>1, FileIsSegments DEF Has, Types
<1>2. Mapped(start, total) # {} BY DEF WholeTable
<1>3. total \in Nat BY DEF SymSize
<1>4. PICK span \in Span(start, total, FALSE) : TRUE BY <1>2 DEF Mapped
<1>5. PICK m \in Loads : FitsPlainly(Segments[m], start, total, FALSE) /\ Holds(Segments[m], start)
  <2>1. PICK exec \in BOOLEAN : exec = FALSE OBVIOUS
  <2>2. PICK va \in Nat, need \in Nat : va = start /\ need = total BY <1>1, <1>3
  <2>3. span \in Span(va, need, exec) BY <1>4, <2>1, <2>2
  <2> HIDE DEF start, total
  <2>4. \E i \in Loads :
           /\ FitsPlainly(Segments[i], va, need, exec) /\ Holds(Segments[i], va)
           /\ i = Least(Fitting(va, need, exec))
           /\ span = SpanOf(Segments[i], va) /\ span.offset = Segments[i].offset + (va - Segments[i].va)
    <3>1. IsFile(input) BY DEF Types
    <3> QED BY <2>3, <3>1, SpanIsHeld
  <2> QED BY <2>1, <2>2, <2>4
<1>6. /\ Segments[m] \in SegmentHeaders /\ Size \in Nat /\ Size < Top /\ Numbers \subseteq Nat
      /\ Top \in Nat /\ m \in DOMAIN Segments
  <2>1. Size \in Numbers BY FileIsSegments DEF Types
  <2>2. Top \in Nat BY FilesAssumption
  <2>3. Size < Top BY <2>1, <2>2 DEF Numbers
  <2> QED BY <2>3, FileIsSegments DEF Loads, Types
<1>7. start + total < Top
  <2>1. ~(start + total >= Top) BY <1>4 DEF Span
  <2> HIDE DEF start, total
  <2> QED BY <1>1, <1>3, <1>6, <2>1
<1> DEFINE base == Segments[m].offset + (start - Segments[m].va)
<1>8. ASSUME NEW i \in 0 .. (n - 1)
      PROVE  /\ SymbolAt(i) # {} /\ base \in 0 .. Size
             /\ Disjoint => \A f \in SymbolAt(i) : f.offset = base + i * SymSize
  <2> DEFINE va == start + i * SymSize
  <2>1. i \in Nat /\ i < n OBVIOUS
  <2>2. /\ FitsPlainly(Segments[m], va, SymSize, FALSE) /\ va \in Nat /\ va + SymSize < Top /\ va < Top
        /\ Segments[m].offset + (va - Segments[m].va) = base + i * SymSize /\ base \in 0 .. Size
    <3>1. PICK first \in Nat : first = start BY <1>1
    <3>2. FitsPlainly(Segments[m], first, n * SymSize, FALSE) /\ first + n * SymSize < Top
      BY <1>5, <1>7, <3>1
    <3> HIDE DEF start
    <3>3. /\ FitsPlainly(Segments[m], first + i * SymSize, SymSize, FALSE)
          /\ first + i * SymSize \in Nat /\ first + i * SymSize + SymSize < Top
          /\ first + i * SymSize < Top
          /\ Segments[m].offset + ((first + i * SymSize) - Segments[m].va)
               = (Segments[m].offset + (first - Segments[m].va)) + i * SymSize
          /\ Segments[m].offset + (first - Segments[m].va) \in 0 .. Size
      BY <1>6, <2>1, <3>2, EntryFits
    <3> QED BY <3>1, <3>3
  <2>3. SymSize \in Nat BY DEF SymSize
  <2>4. SymbolAt(i) = Span(va, SymSize, FALSE)
    BY <2>2 DEF SymbolAt, Mapped
  <2> HIDE DEF va, base, start
  <2>5. Fits(Segments[m], va, SymSize, FALSE) BY <1>6, <2>2, <2>3, FitsMeans
  <2>6. m \in Fitting(va, SymSize, FALSE) BY <1>6, <2>5 DEF Fitting
  <2>7. ~(va + SymSize >= Top) BY <1>6, <2>2, <2>3
  <2>8. Span(va, SymSize, FALSE) # {} BY <2>6, <2>7 DEF Span
  <2>9. ASSUME Disjoint, NEW f \in SymbolAt(i) PROVE f.offset = base + i * SymSize
    <3>1. PICK exec \in BOOLEAN : exec = FALSE OBVIOUS
    <3>2. f \in Span(va, SymSize, exec) BY <2>4, <2>9, <3>1
    <3>3. \E k \in Loads :
             /\ FitsPlainly(Segments[k], va, SymSize, exec) /\ Holds(Segments[k], va)
             /\ k = Least(Fitting(va, SymSize, exec))
             /\ f = SpanOf(Segments[k], va) /\ f.offset = Segments[k].offset + (va - Segments[k].va)
      BY <2>2, <2>3, <3>2, SpanIsHeld DEF Types
    <3>4. PICK k \in Loads : Holds(Segments[k], va) /\ f.offset = Segments[k].offset + (va - Segments[k].va)
      BY <3>3
    <3>5. va >= Segments[m].va /\ va - Segments[m].va < Segments[m].filesz
      BY <2>2 DEF FitsPlainly
    <3>6. va >= Segments[k].va /\ va - Segments[k].va < Segments[k].filesz
      BY <3>4 DEF Holds
    <3>7. k = m BY <2>2, <2>9, <3>5, <3>6, OneSegmentHolds DEF Types
    <3> QED BY <2>2, <3>4, <3>7
  <2> QED BY <2>2, <2>4, <2>8, <2>9
<1> HIDE DEF base
<1>9. 0 \in 0 .. (n - 1) OBVIOUS
<1>10. base \in 0 .. Size BY <1>8, <1>9
<1> QED BY <1>8, <1>10

(* A complete table has been read, entry by entry.                         *)
CompleteInv ==
  stage \in {"init", "preview", "done"} /\ result.complete =>
    \A i \in 0 .. (result.declared - 1) :
      SymbolAt(i) # {} /\ \A f \in SymbolAt(i) : Bytes(f, 0, SymSize) \in reads

LEMMA CompleteStep ==
  ASSUME Types, SymtabInv, CompleteInv, [Next]_vars PROVE CompleteInv'
<1>1. CASE ReadSymbols
  <2> DEFINE seen == {i \in Indices : SymbolAt(i) # {}}
             symbols == UNION {{Bytes(f, 0, SymSize) : f \in SymbolAt(i)} : i \in seen}
             names == UNION {UNION {NameBytes(t, tags["strsz"], Raw(i).name) : t \in strings} : i \in seen}
  <2>1. reads' = reads \cup symbols \cup names BY Zenon, <1>1 DEF ReadSymbols
  <2>2. UNCHANGED <<input, tags>> BY <1>1 DEF ReadSymbols
  <2>3. stage = "symbols" BY <1>1 DEF ReadSymbols, Goto
  <2>4. ReadSymbols => ~SymbolTable BY DEF ReadSymbols, SymbolTable, Goto
  <2>5. result'.complete = result.complete /\ result'.declared = result.declared
    BY <1>1, <2>4, FieldsKept DEF Keeps, Next
  <2>6. ASSUME result.complete, NEW i \in 0 .. (result.declared - 1)
        PROVE  SymbolAt(i) # {} /\ \A f \in SymbolAt(i) : Bytes(f, 0, SymSize) \in reads'
    <3>1. PICK n \in Nat : n = result.declared /\ WholeTable(n) BY <2>6 DEF SymtabInv
    <3>2. HasSymtab BY <2>6 DEF SymtabInv
    <3>3. i \in 0 .. (n - 1) BY <3>1
    <3>4. n > 0 BY <3>3
    <3>5. SymbolAt(i) # {} BY <3>1, <3>2, <3>3, <3>4, TableHoldsItsSymbols
    <3>6. Indices = 0 .. (result.declared - 1) BY <2>6 DEF Indices
    <3>7. i \in seen BY <3>5, <3>6
    <3>8. \A f \in SymbolAt(i) : Bytes(f, 0, SymSize) \in symbols BY <3>7
    <3> HIDE DEF symbols, names
    <3> QED BY <2>1, <3>5, <3>8
  <2>7. \A i : SymbolAt(i)' = SymbolAt(i) BY <2>2, SameAddresses
  <2> HIDE DEF symbols, names, seen
  <2> QED BY <2>5, <2>6, <2>7 DEF CompleteInv
<1>2. CASE Next /\ ~ReadSymbols /\ stage' \in {"init", "preview", "done"} /\ result'.complete
  <2>1. ~DynamicSegment /\ ~SymbolTable
    BY <1>2, TagsAreSettled DEF SymbolTable, Goto
  <2>2. result'.complete = result.complete /\ result'.declared = result.declared
    BY <1>2, <2>1, FieldsKept DEF Keeps
  <2>3. stage # "dynamic" BY <1>2, <2>2 DEF SymtabInv, Early
  <2>4. stage \in {"init", "preview", "done"} /\ reads' = reads
    BY <1>2, <2>1, <2>3 DEF Next, DynamicDone, StringTable, Rela, Rel, JmpRel, CountSymbols,
       EntryPoints, Preview, Done, Goto, vars
  <2>5. UNCHANGED <<input, tags>> BY <1>2, <2>3, TagsAreSettled
  <2>6. \A i : SymbolAt(i)' = SymbolAt(i) BY <2>5, SameAddresses
  <2> QED BY <1>2, <2>2, <2>4, <2>6 DEF CompleteInv
<1>3. CASE UNCHANGED vars
  <2>1. UNCHANGED <<stage, input, tags, result, reads>> BY <1>3 DEF vars
  <2>2. \A i : SymbolAt(i)' = SymbolAt(i) BY <2>1, SameAddresses
  <2> QED BY <2>1, <2>2 DEF CompleteInv
<1>4. CASE Next /\ ~(stage' \in {"init", "preview", "done"} /\ result'.complete) BY <1>4 DEF CompleteInv
<1> QED BY <1>1, <1>2, <1>3, <1>4

LEMMA CompleteIsTrue ==
  ASSUME Types, SymtabInv, CompleteInv PROVE CompleteMeansAll
<1> SUFFICES ASSUME stage \in {"init", "preview", "done"}, result.complete
             PROVE  /\ \A i \in Indices : SymbolAt(i) # {}
                    /\ Disjoint /\ result.declared > 0 =>
                         \E base \in 0..Size : \A i \in 0..(result.declared - 1) :
                            Bytes([offset |-> base], i * SymSize, SymSize) \in reads
  BY DEF CompleteMeansAll
<1>1. Indices = 0 .. (result.declared - 1) BY DEF Indices
<1>2. PICK n \in Nat : n = result.declared /\ WholeTable(n) BY DEF SymtabInv
<1>3. HasSymtab BY DEF SymtabInv
<1>4. \A i \in 0 .. (n - 1) :
        SymbolAt(i) # {} /\ \A f \in SymbolAt(i) : Bytes(f, 0, SymSize) \in reads
  BY <1>2 DEF CompleteInv
<1>5. ASSUME Disjoint, n > 0
      PROVE  \E base \in 0..Size : \A i \in 0..(n - 1) :
               Bytes([offset |-> base], i * SymSize, SymSize) \in reads
  <2>1. PICK base \in 0 .. Size : \A i \in 0 .. (n - 1) : \A f \in SymbolAt(i) :
          f.offset = base + i * SymSize
    BY <1>2, <1>3, <1>5, TableHoldsItsSymbols
  <2>2. ASSUME NEW i \in 0 .. (n - 1)
        PROVE  Bytes([offset |-> base], i * SymSize, SymSize) \in reads
    <3>1. PICK f \in SymbolAt(i) : Bytes(f, 0, SymSize) \in reads BY <1>4
    <3>2. f.offset = base + i * SymSize BY <2>1
    <3>3. base + i * SymSize + 0 = base + i * SymSize
      <4>1. base \in Nat /\ i * SymSize \in Nat BY FileIsSegments DEF SymSize, Types
      <4> QED BY <4>1
    <3>4. Bytes(f, 0, SymSize) = [from |-> base + i * SymSize, size |-> SymSize]
      BY <3>2, <3>3 DEF Bytes
    <3>5. Bytes([offset |-> base], i * SymSize, SymSize) = [from |-> base + i * SymSize, size |-> SymSize]
      BY DEF Bytes
    <3> QED BY <3>1, <3>4, <3>5
  <2> QED BY <2>2
<1> QED BY <1>1, <1>2, <1>4, <1>5

-----------------------------------------------------------------------------
(* The chain of the highest bucket ends with the last symbol: no symbol    *)
(* before that one ends it, as the next would then start a bucket.         *)
LEMMA LastChainEnds ==
  ASSUME IsFile(input), NEW va, GnuHeaderGood(va), GnuLast # 0,
         NEW n \in Nat, Linked(input.gnu, n), NEW c, c.available \in Nat, GnuEnd(c) # {}
  PROVE  Least(GnuEnd(c)) + 1 = n
<1> DEFINE g == input.gnu last == GnuLast
           room == Least({c.available \div 4, MaxSymbols - last})
<1>1. last \in Nat /\ last \in Starts(g) /\ g.symoffset \in Nat
      /\ \A s \in Starts(g) : s \in Nat /\ s <= last
  BY GnuLastIs
<1>2. Starts(g) = {s \in g.symoffset .. (n - 1) : s = g.symoffset \/ s - 1 \in g.ends}
  BY DEF Linked
<1>3. last \in g.symoffset .. (n - 1) BY <1>1, <1>2
<1>4. g.symoffset < n /\ last < n BY <1>1, <1>3
<1>5. n - 1 \in g.ends BY <1>4 DEF Linked
<1>6. \A s \in Nat : last < s /\ s < n => s - 1 \notin g.ends
  <2> SUFFICES ASSUME NEW s \in Nat, last < s, s < n, s - 1 \in g.ends PROVE FALSE OBVIOUS
  <2> DEFINE low == g.symoffset
  <2>1. low \in Nat /\ low <= last BY <1>1, <1>3
  <2> HIDE DEF low, last
  <2>2. s \in low .. (n - 1) BY <1>1, <2>1
  <2>3. s \in Starts(g) BY <1>2, <2>2 DEF low
  <2>4. s <= last BY <1>1, <2>3
  <2> QED BY <1>1, <2>4
<1> DEFINE E == GnuEnd(c)
<1>7. E = {s \in {last + k : k \in 0 .. (room - 1)} : s \in g.ends} BY DEF GnuEnd
<1>8. room \in Int
  <2>1. last \in g.symoffset .. (MaxSymbols - 1) /\ MaxSymbols \in Nat
    BY <1>1, FilesAssumption DEF GnuHeaderGood, Starts
  <2> DEFINE bytes == c.available
  <2>2. bytes \in Nat OBVIOUS
  <2> HIDE DEF last, g, bytes
  <2>3. bytes \div 4 \in Nat /\ MaxSymbols - last \in Nat BY <1>1, <2>1, <2>2
  <2>4. Least({bytes \div 4, MaxSymbols - last}) \in Nat BY <2>3, LeastOfTwo
  <2> QED BY <2>4 DEF bytes
<1> HIDE DEF last, room, g
<1>9. PICK e \in E : TRUE OBVIOUS
<1>10. PICK k \in 0 .. (room - 1) : e = last + k BY <1>7, <1>9
<1>11. \A s \in E : s \in Nat /\ s >= n - 1
  <2> SUFFICES ASSUME NEW s \in E, ~(s \in Nat /\ s >= n - 1) PROVE FALSE OBVIOUS
  <2>1. PICK j \in 0 .. (room - 1) : s = last + j BY <1>7
  <2>2. s \in Nat /\ last <= s /\ s \in g.ends BY <1>1, <1>7, <2>1
  <2>3. s + 1 \in Nat /\ last < s + 1 /\ s + 1 < n /\ (s + 1) - 1 = s BY <1>1, <2>2
  <2> QED BY <1>6, <2>2, <2>3
<1>12. n - 1 \in E
  <2> DEFINE j == n - 1 - last
  <2>1. e \in Nat /\ e >= n - 1 BY <1>9, <1>11
  <2>2. j \in 0 .. (room - 1) BY <1>1, <1>4, <1>8, <1>10, <2>1
  <2>3. last + j = n - 1 BY <1>1
  <2> HIDE DEF j
  <2> QED BY <1>5, <1>7, <2>2, <2>3
<1>13. E \subseteq Nat /\ E # {} BY <1>11, <1>12
<1> HIDE DEF E
<1>14. Least(E) \in E /\ Least(E) <= n - 1 BY <1>12, <1>13, LeastIs
<1> DEFINE least == Least(E)
<1>15. least \in Nat /\ least >= n - 1 /\ least <= n - 1 BY <1>11, <1>14
<1> HIDE DEF least
<1>16. least + 1 = n BY <1>15
<1> QED BY <1>16 DEF least, E

LEMMA GnuChainIsNumber ==
  ASSUME IsFile(input), NEW va \in Nat, GnuHeaderGood(va), GnuLast # 0
  PROVE  GnuChainVa(va) \in Nat
<1> DEFINE low == input.gnu.symoffset bloom == input.gnu.bloom size == Len(input.gnu.buckets)
           last == GnuLast
<1>1. low \in Nat /\ bloom \in Nat /\ size \in Nat /\ last \in Nat /\ last \in Starts(input.gnu)
  BY GnuLastIs
<1>2. last \in low .. (MaxSymbols - 1) /\ MaxSymbols \in Nat
  BY <1>1, FilesAssumption DEF GnuHeaderGood, Starts
<1>3. GnuChainVa(va) = va + (16 + 8 * bloom + 4 * size) + 4 * (last - low)
  BY DEF GnuChainVa, GnuChainOffset
<1> HIDE DEF low, bloom, size, last
<1>4. last - low \in Nat BY <1>1, <1>2
<1>5. va + (16 + 8 * bloom + 4 * size) + 4 * (last - low) \in Nat BY <1>1, <1>4
<1> QED BY <1>3, <1>5

LEMMA GnuCountIsExact ==
  ASSUME IsFile(input), NEW va \in Nat, NEW n \in Nat, Linked(input.gnu, n), GnuCount(va) # {}
  PROVE  GnuCount(va) = {n}
<1>1. GnuHeaderGood(va) BY DEF GnuCount
<1>2. CASE GnuLast = 0
  <2>1. GnuCount(va) = {input.gnu.symoffset} BY <1>1, <1>2 DEF GnuCount
  <2>2. Starts(input.gnu) = {}
    <3>1. \A s \in Starts(input.gnu) : s \in Nat /\ s <= 0 BY <1>1, <1>2, GnuLastIs
    <3>2. 0 \notin Starts(input.gnu) BY DEF Starts
    <3> QED BY <3>1, <3>2
  <2> DEFINE low == input.gnu.symoffset
  <2>3. low \in Nat BY <1>1, GnuLastIs
  <2>4. low \in 1 .. n /\ Starts(input.gnu) =
          {s \in low .. (n - 1) : s = low \/ s - 1 \in input.gnu.ends}
    BY DEF Linked
  <2> HIDE DEF low
  <2>5. low \notin low .. (n - 1) BY <2>2, <2>4
  <2>6. low = n BY <2>3, <2>4, <2>5
  <2> QED BY <2>1, <2>6 DEF low
<1>3. CASE GnuLast # 0
  <2> DEFINE Found(c) == {Least(S) + 1 : S \in {GnuEnd(c)} \ {{}}}
  <2>1. GnuCount(va) = UNION {Found(c) : c \in Mapped(GnuChainVa(va), 4)}
    BY <1>1, <1>3 DEF GnuCount
  <2>2. ASSUME NEW c \in Mapped(GnuChainVa(va), 4) PROVE Found(c) \subseteq {n}
    <3>1. PICK chain \in Nat, four \in Nat : chain = GnuChainVa(va) /\ four = 4 BY <1>1, <1>3, GnuChainIsNumber
    <3>2. c.available \in Nat BY <3>1, MappedIsBacked DEF Backed
    <3>3. GnuEnd(c) # {} => Least(GnuEnd(c)) + 1 = n BY <1>1, <1>3, <3>2, LastChainEnds
    <3> QED BY <3>3
  <2> HIDE DEF Found
  <2>3. GnuCount(va) \subseteq {n} BY <2>1, <2>2
  <2> QED BY <2>3
<1> QED BY <1>2, <1>3

LEMMA GnuCountStep ==
  ASSUME Types, GnuCountExact, [Next]_vars PROVE GnuCountExact'
<1>1. input' = input BY TagsAreSettled DEF vars
<1>2. \A n : Linked(input.gnu, n)' = Linked(input.gnu, n) BY <1>1 DEF Linked, Starts
<1>3. CASE CountSymbols
  <2> DEFINE sysv == IF Has("hash") THEN SysvCount(tags["hash"]) ELSE {}
             asks == sysv = {} /\ Has("gnu")
             gnu == IF asks THEN GnuCount(tags["gnu"]) ELSE {}
             source == IF sysv # {} THEN "sysv" ELSE IF gnu # {} THEN "gnu" ELSE "none"
  <2>1. count' = sysv \cup gnu
        /\ \E warnings : result' = [result EXCEPT !.source = source, !.warnings = warnings]
    BY Zenon, <1>3 DEF CountSymbols
  <2>2. ASSUME gnu # {}, NEW n \in Nat, Linked(input.gnu, n) PROVE gnu = {n}
    <3>1. gnu = GnuCount(tags["gnu"]) /\ Has("gnu") BY <2>2
    <3>2. tags["gnu"] \in Nat BY <3>1, FileIsSegments DEF Types, Has
    <3> QED BY <2>2, <3>1, <3>2, GnuCountIsExact DEF Types
  <2> HIDE DEF sysv, gnu
  <2>3. result'.source = source BY <2>1 DEF Types, Fields
  <2>4. result'.source = "gnu" => sysv = {} /\ gnu # {} BY <2>3
  <2> HIDE DEF source
  <2>5. ASSUME NEW n \in 1 .. MaxSymbols, result'.source = "gnu", Linked(input.gnu, n)'
        PROVE  count' = {n}
    <3>1. n \in Nat BY FilesAssumption
    <3>2. Linked(input.gnu, n) BY <1>2, <2>5
    <3> QED BY <2>1, <2>2, <2>4, <2>5, <3>1, <3>2
  <2> QED BY <2>5 DEF GnuCountExact
<1>4. CASE Next /\ ~CountSymbols /\ ~Done
  <2>1. stage' # "table"
    BY <1>4, TagsAreSettled DEF Next, DynamicDone, StringTable, Rela, Rel, JmpRel, SymbolTable,
       ReadSymbols, EntryPoints, Preview, Goto
  <2> QED BY <2>1 DEF GnuCountExact
<1>5. CASE Done \/ UNCHANGED vars
  <2>1. UNCHANGED <<stage, result, count>> BY <1>5 DEF Done, vars
  <2> QED BY <1>2, <2>1 DEF GnuCountExact
<1> QED BY <1>3, <1>4, <1>5

(* What is said of the number of symbols is true: a table reported as      *)
(* complete was read completely, and the count that DT_GNU_HASH does not   *)
(* give is found exactly.                                                  *)
THEOREM CountsTellTheTruth == Spec => []CountsAreTrue
<1> DEFINE Inv == Types /\ SymtabInv /\ CompleteInv /\ GnuCountExact
<1>1. Init => Inv
  <2> SUFFICES ASSUME Init PROVE SymtabInv /\ CompleteInv /\ GnuCountExact BY TypesAtFirst
  <2>1. result.symtab = FALSE /\ result.complete = FALSE BY DEF Init, Nothing
  <2> QED BY <2>1 DEF Init, SymtabInv, CompleteInv, GnuCountExact
<1>2. Inv /\ [Next]_vars => Inv' BY TypesStep, SymtabStep, CompleteStep, GnuCountStep
<1>3. Inv => CountsAreTrue BY CompleteIsTrue DEF CountsAreTrue
<1> QED BY <1>1, <1>2, <1>3, PTL DEF Spec

-----------------------------------------------------------------------------
(* What one relocation table adds to the result: what it refers to, if it  *)
(* is sound, and a warning, if it is given and not sound.                  *)
Evidence(t) ==
  {s \in 0 .. (MaxSymbols - 1) : \E form \in SoundIn(t) :
     \E e \in Entries(t, form, tags[Place[t][2]]) : e.symbol = s}
Broken(t) == Given(t) /\ SoundIn(t) = {}
Adds(t) ==
  /\ result'.referenced = result.referenced \cup Evidence(t)
  /\ Tables \cap result'.warnings = (Tables \cap result.warnings) \cup {x \in {t} : Broken(x)}

LEMMA LayoutIsSound ==
  ASSUME Types, NEW t \in Tables, NEW form \in {"rela", "rel"}, Has(Place[t][1]), Has(Place[t][2])
  PROVE  LET size == tags[Place[t][2]]
             entry == Or(EntryTag[form], EntrySize[form])
         IN Sound(t, form) <=>
              GoodLayout(form, size, entry) /\ ~(size > 0 /\ Mapped(tags[Place[t][1]], size) = {})
<1> DEFINE size == tags[Place[t][2]] entry == Or(EntryTag[form], EntrySize[form]) unit == EntrySize[form]
<1>1. size \in Nat BY FileIsSegments DEF Has, Types
<1>2. unit = 24 \/ unit = 16 BY DEF EntrySize, RelaSize, RelSize
<1>3. MaxRelocations \in Nat BY FilesAssumption
<1> HIDE DEF size, unit, entry
<1>4. size % unit = 0 => (size \div unit <= MaxRelocations <=> size <= MaxRelocations * unit)
  <2>1. CASE unit = 24
    <3>1. size % 24 = 0 => (size \div 24 <= MaxRelocations <=> size <= MaxRelocations * 24) BY <1>1, <1>3
    <3> QED BY <2>1, <3>1
  <2>2. CASE unit = 16
    <3>1. size % 16 = 0 => (size \div 16 <= MaxRelocations <=> size <= MaxRelocations * 16) BY <1>1, <1>3
    <3> QED BY <2>2, <3>1
  <2> QED BY <1>2, <2>1, <2>2
<1>5. \A k \in 1 .. 2 : Has(Place[t][k])
  <2>1. 1 .. 2 = {1, 2} OBVIOUS
  <2> QED BY <2>1
<1>6. Sound(t, form) <=>
        /\ entry = unit /\ size % unit = 0 /\ size <= MaxRelocations * unit
        /\ size > 0 => Mapped(tags[Place[t][1]], size) # {}
  BY <1>5 DEF Sound, size, entry, unit
<1>7. GoodLayout(form, size, entry) <=>
        entry = unit /\ size % unit = 0 /\ size \div unit <= MaxRelocations
  BY DEF GoodLayout, unit
<1> QED BY <1>4, <1>6, <1>7 DEF size, entry

LEMMA ParsedTable ==
  ASSUME Types, NEW t \in Tables, NEW form \in {"rela", "rel"}, Has(Place[t][1]), Has(Place[t][2]),
         FormOf(t) = {form},
         ParseTable(t, form, tags[Place[t][1]], tags[Place[t][2]], Or(EntryTag[form], EntrySize[form]))
  PROVE  Adds(t)
<1> DEFINE va == tags[Place[t][1]] size == tags[Place[t][2]]
           entry == Or(EntryTag[form], EntrySize[form]) es == Entries(t, form, size)
           bad == ~GoodLayout(form, size, entry) \/ (size > 0 /\ Mapped(va, size) = {})
<1>1. Sound(t, form) <=> ~bad BY LayoutIsSound
<1>2. SoundIn(t) = IF bad THEN {} ELSE {form} BY <1>1 DEF SoundIn
<1>3. Given(t)
  <2>1. 1 \in 1 .. 2 OBVIOUS
  <2> QED BY <2>1 DEF Given
<1>4. CASE bad
  <2>1. result' = [result EXCEPT !.warnings = Warned({t})] BY <1>4 DEF ParseTable
  <2>2. result'.referenced = result.referenced /\ result'.warnings = result.warnings \cup {t}
    BY <2>1 DEF Types, Fields, Warned
  <2>3. SoundIn(t) = {} BY <1>2, <1>4
  <2>4. Evidence(t) = {} /\ Broken(t) BY <1>3, <2>3 DEF Evidence, Broken
  <2> QED BY <2>2, <2>4 DEF Adds
<1>5. CASE ~bad
  <2> DEFINE more == {e.symbol : e \in {f \in es : f.symbol < MaxSymbols}}
             slots == {e.at : e \in {f \in es : f.jump}}
  <2>1. result' = [result EXCEPT !.referenced = @ \cup more, !.slots = @ \cup slots]
    BY <1>5 DEF ParseTable
  <2>2. SoundIn(t) = {form} BY <1>2, <1>5
  <2>3. Evidence(t) = {s \in 0 .. (MaxSymbols - 1) : \E e \in es : e.symbol = s}
    BY <2>2 DEF Evidence
  <2>4. \A e \in es : e.symbol \in Nat
    <3>1. size \in Nat BY FileIsSegments DEF Has, Types
    <3> QED BY <3>1, EntriesAreSymbols DEF Types
  <2>5. ~Broken(t) BY <2>2 DEF Broken
  <2> HIDE DEF es
  <2>6. more = Evidence(t) BY <2>3, <2>4, FilesAssumption
  <2> HIDE DEF more, slots
  <2>7. result'.referenced = result.referenced \cup more /\ result'.warnings = result.warnings
    BY <2>1 DEF Types, Fields
  <2> QED BY <2>5, <2>6, <2>7 DEF Adds
<1> QED BY <1>4, <1>5

LEMMA WarnedTable ==
  ASSUME Types, NEW t \in Tables, SoundIn(t) = {}, WarnIf(Given(t), t) PROVE Adds(t)
<1>1. result'.referenced = result.referenced
      /\ result'.warnings = result.warnings \cup (IF Given(t) THEN {t} ELSE {})
  BY DEF WarnIf, Warned, Types, Fields
<1>2. Evidence(t) = {} BY DEF Evidence
<1>3. Broken(t) <=> Given(t) BY DEF Broken
<1> QED BY <1>1, <1>2, <1>3 DEF Adds

LEMMA NotBothGiven ==
  ASSUME NEW t \in Tables, ~(Has(Place[t][1]) /\ Has(Place[t][2])) PROVE SoundIn(t) = {}
<1>1. 1 \in 1 .. 2 /\ 2 \in 1 .. 2 OBVIOUS
<1> QED BY <1>1 DEF SoundIn, Sound

LEMMA GivenIs ==
  ASSUME NEW t \in Tables PROVE Given(t) = (Has(Place[t][1]) \/ Has(Place[t][2]))
<1>1. 1 .. 2 = {1, 2} OBVIOUS
<1> QED BY <1>1 DEF Given

LEMMA EachTableAdds ==
  ASSUME Types
  PROVE  (Rela => Adds("rela")) /\ (Rel => Adds("rel")) /\ (JmpRel => Adds("jmprel"))
<1>1. ASSUME Rela PROVE Adds("rela")
  <2>1. /\ Place["rela"][1] = "rela" /\ Place["rela"][2] = "relasz" /\ FormOf("rela") = {"rela"}
        /\ EntryTag["rela"] = "relaent" /\ EntrySize["rela"] = RelaSize /\ "rela" \in Tables
    BY DEF Place, FormOf, EntryTag, EntrySize, Tables
  <2>2. CASE Has("rela") /\ Has("relasz")
    <3>1. ParseTable("rela", "rela", tags["rela"], tags["relasz"], Or("relaent", RelaSize))
      BY <1>1, <2>2 DEF Rela
    <3> QED BY <2>1, <2>2, <3>1, ParsedTable
  <2>3. CASE ~(Has("rela") /\ Has("relasz"))
    <3>1. WarnIf(Has("rela") \/ Has("relasz"), "rela") BY <1>1, <2>3 DEF Rela
    <3>2. WarnIf(Given("rela"), "rela") BY <2>1, <3>1, GivenIs DEF WarnIf
    <3> QED BY <2>1, <2>3, <3>2, NotBothGiven, WarnedTable
  <2> QED BY <2>2, <2>3
<1>2. ASSUME Rel PROVE Adds("rel")
  <2>1. /\ Place["rel"][1] = "rel" /\ Place["rel"][2] = "relsz" /\ FormOf("rel") = {"rel"}
        /\ EntryTag["rel"] = "relent" /\ EntrySize["rel"] = RelSize /\ "rel" \in Tables
    BY DEF Place, FormOf, EntryTag, EntrySize, Tables
  <2>2. CASE Has("rel") /\ Has("relsz")
    <3>1. ParseTable("rel", "rel", tags["rel"], tags["relsz"], Or("relent", RelSize))
      BY <1>2, <2>2 DEF Rel
    <3> QED BY <2>1, <2>2, <3>1, ParsedTable
  <2>3. CASE ~(Has("rel") /\ Has("relsz"))
    <3>1. WarnIf(Has("rel") \/ Has("relsz"), "rel") BY <1>2, <2>3 DEF Rel
    <3>2. WarnIf(Given("rel"), "rel") BY <2>1, <3>1, GivenIs DEF WarnIf
    <3> QED BY <2>1, <2>3, <3>2, NotBothGiven, WarnedTable
  <2> QED BY <2>2, <2>3
<1>3. ASSUME JmpRel PROVE Adds("jmprel")
  <2> DEFINE kind == Or("pltrel", 7)
             entry == IF kind = 7 THEN Or("relaent", RelaSize) ELSE Or("relent", RelSize)
  <2>1. /\ Place["jmprel"][1] = "jmprel" /\ Place["jmprel"][2] = "pltrelsz" /\ "jmprel" \in Tables
        /\ FormOf("jmprel") = {Forms[v] : v \in {kind} \cap DOMAIN Forms}
    BY DEF Place, FormOf, Tables
  <2> HIDE DEF kind
  <2>2. CASE Has("jmprel") /\ Has("pltrelsz") /\ kind \in DOMAIN Forms
    <3> DEFINE form == Forms[kind]
    <3>1. ParseTable("jmprel", form, tags["jmprel"], tags["pltrelsz"], entry)
      BY <1>3, <2>2 DEF JmpRel, kind
    <3>2. (kind = 7 /\ form = "rela") \/ (kind = 17 /\ form = "rel")
      <4>1. DOMAIN Forms = {7, 17} BY DEF Forms
      <4>2. Forms[7] = "rela" /\ Forms[17] = "rel" BY DEF Forms
      <4>3. kind = 7 \/ kind = 17 BY <2>2, <4>1
      <4>4. kind = 7 => form = "rela" BY <4>2
      <4>5. kind = 17 => form = "rel" BY <4>2
      <4> HIDE DEF form
      <4> QED BY <4>3, <4>4, <4>5
    <3>3. FormOf("jmprel") = {form} BY <2>1, <2>2
    <3> HIDE DEF form
    <3>4. entry = Or(EntryTag[form], EntrySize[form]) BY <3>2 DEF EntryTag, EntrySize
    <3>5. form \in {"rela", "rel"} BY <3>2
    <3> HIDE DEF entry
    <3> QED BY <2>1, <2>2, <3>1, <3>3, <3>4, <3>5, ParsedTable
  <2>3. CASE ~(Has("jmprel") /\ Has("pltrelsz") /\ kind \in DOMAIN Forms)
    <3>1. WarnIf(Has("jmprel") \/ Has("pltrelsz"), "jmprel") BY <1>3, <2>3 DEF JmpRel, kind
    <3>2. WarnIf(Given("jmprel"), "jmprel") BY <2>1, <3>1, GivenIs DEF WarnIf
    <3>3. SoundIn("jmprel") = {}
      <4>1. CASE kind \in DOMAIN Forms BY <2>1, <2>3, <4>1, NotBothGiven
      <4>2. CASE kind \notin DOMAIN Forms BY <2>1, <4>2 DEF SoundIn
      <4> QED BY <4>1, <4>2
    <3> QED BY <2>1, <3>2, <3>3, WarnedTable
  <2> QED BY <2>2, <2>3
<1> QED BY <1>1, <1>2, <1>3

(* After the tables of T: the result is what these have added.             *)
Parsed(T) ==
  /\ result.referenced = UNION {Evidence(t) : t \in T}
  /\ Tables \cap result.warnings = {t \in T : Broken(t)}

RejectInv ==
  /\ stage \in {"dynamic", "strings", "rela"} => Parsed({})
  /\ stage = "rel" => Parsed({"rela"})
  /\ stage = "jmprel" => Parsed({"rela", "rel"})
  /\ stage = "count" => Parsed(Tables)

LEMMA SameTables ==
  ASSUME UNCHANGED <<input, tags>>
  PROVE  \A t : Evidence(t)' = Evidence(t) /\ (Broken(t)' <=> Broken(t))
<1>1. \A va, need : Mapped(va, need)' = Mapped(va, need) BY SameAddresses
<1>2. \A t, form : Sound(t, form)' <=> Sound(t, form) BY <1>1 DEF Sound, Has, Or
<1>3. \A t : FormOf(t)' = FormOf(t) BY DEF FormOf, Or, Has
<1>4. \A t : SoundIn(t)' = SoundIn(t) BY <1>2, <1>3 DEF SoundIn
<1>5. \A t, form, size : Entries(t, form, size)' = Entries(t, form, size) BY DEF Entries
<1>6. \A t : Evidence(t)' = Evidence(t) BY <1>4, <1>5 DEF Evidence
<1>7. \A t : Given(t)' <=> Given(t) BY DEF Given, Has
<1>8. \A t : Broken(t)' <=> Broken(t) BY <1>4, <1>7 DEF Broken
<1> QED BY <1>6, <1>8

LEMMA TableByTable ==
  ASSUME UNCHANGED <<input, tags>>, NEW T, NEW t \in Tables, Adds(t), Parsed(T)
  PROVE  Parsed(T \cup {t})'
<1>1. result'.referenced = UNION {Evidence(x) : x \in T \cup {t}} BY DEF Adds, Parsed
<1>2. Tables \cap result'.warnings = {x \in T \cup {t} : Broken(x)} BY DEF Adds, Parsed
<1>3. UNION {Evidence(x) : x \in T \cup {t}}' = UNION {Evidence(x) : x \in T \cup {t}}
  BY SameTables
<1>4. {x \in T \cup {t} : Broken(x)}' = {x \in T \cup {t} : Broken(x)} BY SameTables
<1> QED BY <1>1, <1>2, <1>3, <1>4 DEF Parsed

LEMMA RejectStep ==
  ASSUME Types, RejectInv, [Next]_vars PROVE RejectInv'
<1>1. CASE Rela
  <2>1. Adds("rela") /\ stage = "rela" /\ stage' = "rel" /\ UNCHANGED <<input, tags>>
    BY <1>1, EachTableAdds DEF Rela, Goto
  <2>2. Parsed({} \cup {"rela"})' BY <2>1, TableByTable DEF RejectInv, Tables
  <2>3. {} \cup {"rela"} = {"rela"} OBVIOUS
  <2> QED BY <2>1, <2>2, <2>3 DEF RejectInv
<1>2. CASE Rel
  <2>1. Adds("rel") /\ stage = "rel" /\ stage' = "jmprel" /\ UNCHANGED <<input, tags>>
    BY <1>2, EachTableAdds DEF Rel, Goto
  <2>2. Parsed({"rela"} \cup {"rel"})' BY <2>1, TableByTable DEF RejectInv, Tables
  <2>3. {"rela"} \cup {"rel"} = {"rela", "rel"} OBVIOUS
  <2> QED BY <2>1, <2>2, <2>3 DEF RejectInv
<1>3. CASE JmpRel
  <2>1. Adds("jmprel") /\ stage = "jmprel" /\ stage' = "count" /\ UNCHANGED <<input, tags>>
    BY <1>3, EachTableAdds DEF JmpRel, Goto
  <2>2. Parsed({"rela", "rel"} \cup {"jmprel"})' BY <2>1, TableByTable DEF RejectInv, Tables
  <2>3. {"rela", "rel"} \cup {"jmprel"} = Tables BY DEF Tables
  <2> QED BY <2>1, <2>2, <2>3 DEF RejectInv
<1>4. CASE DynamicSegment
  <2>1. \E found, terminated, new : new \subseteq {"PT_DYNAMIC"} /\ result' =
          [result EXCEPT !.found = found, !.terminated = terminated, !.warnings = @ \cup new]
    <3> DEFINE dynamic == Segments[at].type = "dynamic"
               ends == dynamic /\ InFile(Segments[at].offset, Segments[at].filesz) /\ Ends(at) # {}
               taken == ends /\ ~result.terminated
               new == IF dynamic /\ ~taken THEN {"PT_DYNAMIC"} ELSE {}
    <3>1. result' = [result EXCEPT !.found = @ \/ dynamic, !.terminated = @ \/ ends,
                       !.warnings = @ \cup new]
      BY Zenon, <1>4 DEF DynamicSegment
    <3>2. new \subseteq {"PT_DYNAMIC"} OBVIOUS
    <3> HIDE DEF dynamic, ends, new
    <3> QED BY Zenon, <3>1, <3>2
  <2>2. result'.referenced = result.referenced
        /\ Tables \cap result'.warnings = Tables \cap result.warnings
    BY <2>1 DEF Types, Fields, Tables
  <2>3. stage = "dynamic" /\ stage' = "dynamic" BY <1>4 DEF DynamicSegment
  <2> QED BY <2>2, <2>3 DEF RejectInv, Parsed
<1>5. CASE StringTable
  <2>1. \E names, new : new \subseteq {"DT_NEEDED", "DT_STRTAB"} /\ result' =
          [result EXCEPT !.needed = names, !.warnings = result.warnings \cup new]
    <3> DEFINE names == UNION {UNION {Name(t, tags["strsz"], offset) : offset \in needed} : t \in strings'}
               bad == \E t \in strings' : \E offset \in needed :
                        Name(t, tags["strsz"], offset) \subseteq {0}
               new == (IF bad THEN {"DT_NEEDED"} ELSE {}) \cup
                        IF strings' = {} /\ (Has("strtab") \/ Has("strsz")) THEN {"DT_STRTAB"} ELSE {}
    <3>1. result' = [result EXCEPT !.needed = names \ {0}, !.warnings = result.warnings \cup new]
      BY Zenon, <1>5 DEF StringTable, Warned
    <3>2. new \subseteq {"DT_NEEDED", "DT_STRTAB"} OBVIOUS
    <3> HIDE DEF names, new
    <3> QED BY Zenon, <3>1, <3>2
  <2>2. result'.referenced = result.referenced
        /\ Tables \cap result'.warnings = Tables \cap result.warnings
    BY <2>1 DEF Types, Fields, Tables
  <2>3. stage = "strings" /\ stage' = "rela" BY <1>5 DEF StringTable, Goto
  <2> QED BY <2>2, <2>3 DEF RejectInv, Parsed
<1>6. CASE DynamicDone
  <2>1. result' = result /\ stage = "dynamic" /\ stage' \in {"strings", "done"}
    BY <1>6 DEF DynamicDone, Goto
  <2> QED BY <2>1 DEF RejectInv, Parsed
<1>7. CASE CountSymbols \/ SymbolTable \/ ReadSymbols \/ EntryPoints \/ Preview
  <2>1. stage' \in {"table", "symbols", "init", "preview", "done"}
    BY <1>7 DEF CountSymbols, SymbolTable, ReadSymbols, EntryPoints, Preview, Goto
  <2> QED BY <2>1 DEF RejectInv
<1>8. CASE Done \/ UNCHANGED vars
  <2>1. UNCHANGED <<input, tags, stage, result>> BY <1>8 DEF Done, vars
  <2>2. \A T : {Evidence(t) : t \in T}' = {Evidence(t) : t \in T} BY <2>1, SameTables
  <2>3. \A T : {t \in T : Broken(t)}' = {t \in T : Broken(t)} BY <2>1, SameTables
  <2>4. \A T : Parsed(T)' <=> Parsed(T) BY <2>1, <2>2, <2>3 DEF Parsed
  <2> QED BY <2>1, <2>4 DEF RejectInv
<1> QED BY <1>1, <1>2, <1>3, <1>4, <1>5, <1>6, <1>7, <1>8 DEF Next

(* Malformed tables are rejected one by one: what the relocations refer to *)
(* is what each sound table refers to, and each other table is warned of.  *)
THEOREM TablesAreJudgedAlone == Spec => []RejectedAlone
<1>1. Init => RejectInv
  <2> SUFFICES ASSUME Init PROVE RejectInv OBVIOUS
  <2>1. result.referenced = {} /\ result.warnings = {} /\ stage = "dynamic" BY DEF Init, Nothing
  <2> QED BY <2>1 DEF RejectInv, Parsed
<1>2. Types /\ RejectInv /\ [Next]_vars => RejectInv' BY RejectStep
<1>3. RejectInv => RejectedAlone
  <2> SUFFICES ASSUME RejectInv, stage = "count" PROVE RejectedAlone BY DEF RejectedAlone
  <2>1. Parsed(Tables) BY DEF RejectInv
  <2>2. DOMAIN Place = Tables BY DEF Place, Tables
  <2>3. UNION {Evidence(t) : t \in Tables} =
          {s \in 0..(MaxSymbols - 1) : \E t \in Tables : \E form \in SoundIn(t) :
             \E e \in Entries(t, form, tags[Place[t][2]]) : e.symbol = s}
    BY DEF Evidence
  <2>4. {t \in Tables : Broken(t)} = {t \in Tables : Given(t) /\ SoundIn(t) = {}} BY DEF Broken
  <2> QED BY <2>1, <2>2, <2>3, <2>4 DEF RejectedAlone, Parsed
<1> QED BY <1>1, <1>2, <1>3, TypesHold, PTL DEF Spec
=============================================================================
