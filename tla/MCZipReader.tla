----------------------------- MODULE MCZipReader -----------------------------
(***************************************************************************)
(* A catalogue of small archives for ZipReader: sound ones, and each of    *)
(* the ways in which one number of a sound one may be wrong. Numbers are   *)
(* scaled down; the sizes of the records are those of the format.          *)
(***************************************************************************)
EXTENDS ZipReader, SequencesExt

AllSizes == 0 .. Word - 1
FourBlocks == {"state", "cdir", "offsets", "buffer"}

Header_(t) == [kind |-> "header", type |-> t]
Bits(w) == [kind |-> "field", width |-> w]
Lit(w, v) == [kind |-> "literal", width |-> w, value |-> v]
Len_(w, n) == [kind |-> "length", width |-> w, count |-> n]
Dist(w, n) == [kind |-> "distance", width |-> w, back |-> n]
Matched == [kind |-> "match"]
End(w) == [kind |-> "end", width |-> w]
Raw(v) == [kind |-> "raw", value |-> v]
Stored(good, values) ==
  <<Header_(0), [kind |-> "align"], Bits(8), Bits(8), Bits(8), Bits(8), [kind |-> "stored", good |-> good]>>
  \o [i \in DOMAIN values |-> Raw(values[i])]
Codes_(n, good) ==
  <<Header_(2), Bits(5), Bits(5), Bits(4), Bits(12), [kind |-> "table", good |-> TRUE],
    [kind |-> "lengths", width |-> 3, count |-> 1, again |-> FALSE],
    [kind |-> "lengths", width |-> 2, count |-> n, again |-> TRUE], Bits(7),
    [kind |-> "tables", sizes |-> 4, good |-> good]>>

(* Streams, with the number of their bytes                                 *)
Fixed == <<Header_(1), Lit(8, 1), Lit(9, 2), Len_(7, 3), Bits(1), Dist(5, 2), Matched, Lit(8, 3), End(7)>>
Dynamic == Codes_(3, TRUE) \o <<Lit(13, 1), Lit(1, 2), Lit(2, 2), Len_(4, 2), Dist(1, 1), Matched, End(15)>>
           \o Stored(TRUE, <<3>>)
Short == <<Header_(1), Lit(8, 7), End(7)>>
BadStreams ==
  {<<Header_(3)>>, Stored(FALSE, <<>>), Codes_(4, TRUE), Codes_(3, FALSE),
   <<Header_(2), Bits(14), Bits(12), [kind |-> "table", good |-> FALSE]>>,
   <<Header_(2), Bits(14), Bits(12), [kind |-> "table", good |-> TRUE],
     [kind |-> "lengths", width |-> 3, count |-> 3, again |-> TRUE]>>,
   <<Header_(1), Lit(8, 1), Len_(7, 3), Dist(5, 2), Matched>>}
Size(stream) == Bytes(Meaning(stream, 100).pos)

(* An entry: what its record says, and its data                            *)
Deflated(stream) ==
  LET out == Meaning(stream, 100).out
  IN  [method |-> 8, size |-> Size(stream), crc |-> out,
       data |-> [stream |-> stream, plain |-> <<>>]]
Kept(values) ==
  [method |-> 0, size |-> Len(values), crc |-> values,
   data |-> [stream |-> <<Header_(3)>>, plain |-> values]]
Described(entry, ofs) ==
  [name |-> 1, extra |-> 0, comment |-> 0, comp |-> entry.size, uncomp |-> Len(entry.crc),
   ofs |-> ofs, crc |-> entry.crc, method |-> entry.method, stored_at_0 |-> entry.method = 0,
   disk |-> 0, masked |-> FALSE, encrypted |-> FALSE, directory |-> FALSE, fields |-> <<>>,
   big |-> [comp |-> entry.size, uncomp |-> Len(entry.crc), ofs |-> ofs]]

Laid(entries, prefix, comment) ==
  LET n == Len(entries)
      Start(i) == FoldLeft(LAMBDA m, e : m + LocalSize + 1 + e.size, 0, SubSeq(entries, 1, i - 1))
      Place(i) == prefix + Start(n + 1) + (RecordSize + 1) * (i - 1)
      eocd == Place(n + 1)
  IN  [size |-> eocd + EndSize + comment,
       ends |-> eocd :> [total |-> n, here |-> n, disk |-> 0, cdisk |-> 0,
                         csize |-> (RecordSize + 1) * n, ofs |-> Start(n + 1)],
       locators |-> <<>>, ends64 |-> <<>>,
       headers |-> [ofs \in {Place(i) : i \in 1 .. n} |->
                      LET i == CHOOSE k \in 1 .. n : Place(k) = ofs IN Described(entries[i], Start(i))],
       locals |-> [ofs \in {prefix + Start(i) : i \in 1 .. n} |-> [name |-> 1, extra |-> 0]],
       data |-> [ofs \in {prefix + Start(i) + LocalSize + 1 : i \in 1 .. n} |->
                   entries[CHOOSE i \in 1 .. n : prefix + Start(i) + LocalSize + 1 = ofs].data]]

Eocd(a) == CHOOSE ofs \in DOMAIN a.ends : TRUE
LastRecord(a) == Greatest(DOMAIN a.headers)
EndSays(a, end) == [a EXCEPT !.ends[Eocd(a)] = end @@ @]
RecordSays(a, head) == [a EXCEPT !.headers[LastRecord(a)] = head @@ @]

(* With the records of ZIP64 before the end, and where the locator points. *)
With64(a, ofs) ==
  LET e == Eocd(a)
  IN  [size |-> a.size + 76, ends |-> (e + 76) :> a.ends[e],
       locators |-> (e + 56) :> [ofs |-> ofs, disks |-> 1],
       ends64 |-> e :> (a.ends[e] @@ [record |-> 44]),
       headers |-> a.headers, locals |-> a.locals, data |-> a.data]
Says64(a, end) == [a EXCEPT !.ends64[CHOOSE e \in DOMAIN a.ends64 : TRUE] = end @@ @]

Plain == Laid(<<Kept(<<5, 6>>), Deflated(Fixed)>>, 0, 0)
Large == Laid(<<Deflated(Dynamic), Deflated(Short)>>, 7, 0)
Plain64 == With64(Plain, Eocd(Plain))
Single == Laid(<<Deflated(Fixed)>>, 0, 0)
Longer(a, field, n) ==
  LET e == Eocd(a)
      longer == [a EXCEPT !.size = @ + n, !.ends = (e + n) :> a.ends[e],
                          !.headers[LastRecord(a)] = field @@ @]
  IN  EndSays(longer, [csize |-> a.ends[e].csize + n])
Sizes64 == [comp |-> U32, uncomp |-> U32]
Zip64(n) == [zip64 |-> TRUE, size |-> n]
Other(n) == [zip64 |-> FALSE, size |-> n]

Catalogue ==
  {Plain, Large, Plain64, With64(Large, Eocd(Large)), Laid(<<>>, 0, 3), Laid(<<Deflated(Fixed)>>, 0, 70),
   [Laid(<<>>, 0, 0) EXCEPT !.size = 21],
   \* comments: one with what looks like an end, one that is too long
   [Laid(<<Kept(<<5>>)>>, 0, 90) EXCEPT !.ends = @ @@ (120 :> NoEnd)],
   \* more than the budget: a directory, an index
   Laid(<<Kept(<<1>>), Kept(<<2>>), Kept(<<3>>)>>, 0, 0), Longer(Plain, [comment |-> 15], 15),
   Laid(<<Deflated(Short)>>, 0, 200), Laid(<<Deflated(Short)>>, 0, 260)}
  \cup {Laid(<<Deflated(s)>>, 0, 0) : s \in BadStreams}
  \cup {EndSays(Plain, c) : c \in
          {[total |-> 3, here |-> 3], [here |-> 1], [disk |-> 1], [cdisk |-> 1, disk |-> 1], [csize |-> 93],
           [csize |-> 95], [csize |-> 4000], [ofs |-> 4000], [ofs |-> 30], [total |-> 1, here |-> 1],
           [total |-> 3, here |-> 3, csize |-> 138, ofs |-> 33]}}
  \cup {Says64(Plain64, c) : c \in
          {[record |-> 43], [total |-> 5000, here |-> 5000], [csize |-> 5000], [total |-> 3, here |-> 3],
           [ofs |-> Word - 60], [ofs |-> 200]}}
  \cup {With64(Plain, ofs) : ofs \in {0, 9000}}
  \cup {[Plain64 EXCEPT !.ends64 = <<>>, !.locators = [l \in DOMAIN @ |-> [ofs |-> 7, disks |-> 1]]],
        [Plain64 EXCEPT !.locators = [l \in DOMAIN @ |-> [ofs |-> 0, disks |-> 2]]],
        [With64(Large, Eocd(Large)) EXCEPT !.ends64 = [x \in {3} |-> Large.ends[Eocd(Large)] @@ [record |-> 44]],
                          !.locators = [l \in DOMAIN @ |-> [ofs |-> 3, disks |-> 1]]]}
  \cup {RecordSays(Plain, c) : c \in
          {[comp |-> 5], [comp |-> 4000], [comp |-> 0], [comp |-> 0, uncomp |-> 0], [comp |-> 9], [uncomp |-> 5],
           [uncomp |-> 8], [uncomp |-> 0], [crc |-> <<1, 2>>], [name |-> 2], [name |-> 200], [comment |-> 1],
           [masked |-> TRUE], [encrypted |-> TRUE], [method |-> 12], [directory |-> TRUE], [disk |-> U16],
           [disk |-> 1], [disk |-> 2], [ofs |-> 20], [ofs |-> 0], Sizes64, [method |-> 0],
           [method |-> 0, stored_at_0 |-> TRUE], Sizes64 @@ [extra |-> 30]}}
  \cup {Longer(Single, Sizes64 @@ [extra |-> 24, fields |-> fields], 24) : fields \in
          {<<Zip64(20)>>, <<Other(0), Zip64(16)>>, <<Other(20)>>, <<Other(19)>>, <<Other(4), Zip64(12)>>,
           <<Other(0), Zip64(17)>>, <<Other(21)>>}}
  \cup {[Plain EXCEPT !.locals = [ofs \in {Greatest(DOMAIN Plain.locals)} |-> [name |-> 1, extra |-> 0]]],
        [Plain EXCEPT !.locals = [ofs \in DOMAIN Plain.locals |-> [name |-> 200, extra |-> 0]]]}
=============================================================================
