------------------------------ MODULE ZipReader ------------------------------
(***************************************************************************)
(* miniz.c as main.cpp uses it: an archive is opened, from a file or from  *)
(* memory, its directory is read and indexed, entries are looked up and    *)
(* extracted, and the reader is closed by ZipReaderScope. Every read may   *)
(* fail, and every block comes from the bounded allocator of main.cpp.     *)
(*                                                                         *)
(* An archive is what can be found at which offset of it: ends of central  *)
(* directory with their ZIP64 companions, records of the directory, local  *)
(* headers and data. The CRC of some data is that data. Left out: sorting  *)
(* and names (main.cpp asks for neither), patches and masked entries that  *)
(* main.cpp has skipped, a close that fails.                               *)
(***************************************************************************)
EXTENDS AllocBudget, Inflate, FiniteSets

CONSTANTS
  Archives,        \* to choose from
  Kinds,           \* of opening: "file", "cfile" (opened by main.cpp) and "memory"
  IoSizes,         \* MZ_ZIP_MAX_IO_BUF_SIZE
  U16, U32,        \* the greatest numbers of 16 and 32 bits; Word is one more than that of 64
  Window,          \* the bytes locate_header_sig looks at at once
  StateSize,       \* of mz_zip_internal_state
  MaxFaults        \* bound: reads that fail and blocks that malloc does not give

(* The fields of 16 bits, of 32 and of 64.                                 *)
IsRecord(h) ==
  /\ {h.name, h.extra, h.comment} \subseteq 0 .. U16
  /\ {h.comp, h.uncomp, h.ofs} \subseteq 0 .. U32
  /\ {h.big.comp, h.big.uncomp, h.big.ofs} \subseteq 0 .. Word - 1
(* An archive is shorter than a signed 64-bit file offset can tell.        *)
IsArchive(a) ==
  /\ a.size \in 0 .. Word \div 2 - 1
  /\ DOMAIN a.ends \subseteq Nat
  /\ \A p \in DOMAIN a.ends : {a.ends[p].ofs, a.ends[p].csize, a.ends[p].total} \subseteq Nat
  /\ \A p \in DOMAIN a.ends64 :
       {a.ends64[p].ofs, a.ends64[p].csize, a.ends64[p].total} \subseteq Nat
  /\ \A p \in DOMAIN a.headers : IsRecord(a.headers[p])
  /\ \A p \in DOMAIN a.locals : {a.locals[p].name, a.locals[p].extra} \subseteq 0 .. U16
  /\ \A p \in DOMAIN a.data : IsStream(a.data[p].stream)

ASSUME ReaderAssumption ==
  /\ Blocks = {"state", "cdir", "offsets", "buffer"}
  /\ Counts = 0 .. Word - 1 /\ Sizes = 0 .. Word - 1
  /\ U16 \in Nat /\ U32 \in 0 .. Word - 1 /\ IoSizes \subseteq Nat \ {0}
  /\ \A a \in Archives : IsArchive(a)

VARIABLES
  archive, kind, io_size, wide,   \* chosen once
  at,          \* where the code is
  zip,         \* [size, start, total, zip64, ext, error] of mz_zip_archive and its state
  dir,         \* locals of read_central_dir: [eocd, end, cdir_ofs, cdir_size, p]
  index,       \* m_central_dir_offsets as far as it is filled
  job,         \* an extraction: [i, ofs, remaining, clean, returned]
  file_open, faults
setting == <<archive, kind, io_size, wide>>
reader_vars == <<setting, at, zip, dir, index, job, file_open, faults, vars, inflate_vars>>

EndSize == 22       \* MZ_ZIP_END_OF_CENTRAL_DIR_HEADER_SIZE
LocatorSize == 20   \* MZ_ZIP64_END_OF_CENTRAL_DIR_LOCATOR_SIZE
End64Size == 56     \* MZ_ZIP64_END_OF_CENTRAL_DIR_HEADER_SIZE
RecordSize == 46    \* MZ_ZIP_CENTRAL_DIR_HEADER_SIZE
LocalSize == 30     \* MZ_ZIP_LOCAL_DIR_HEADER_SIZE

Sum(m, n) == (m + n) % Word
Abs(ofs) == Sum(ofs, zip.start)
Greatest(S) == CHOOSE m \in S : \A n \in S : n <= m
First(S) == CHOOSE m \in S : \A n \in S : m <= n

(* The data that begin at a place; other bytes are no stream.              *)
DataAt(ofs) ==
  IF Abs(ofs) \in DOMAIN archive.data THEN archive.data[Abs(ofs)]
  ELSE [stream |-> <<[kind |-> "header", type |-> 3]>>, plain |-> <<>>]

(* mz_zip_mem_read_func and mz_zip_file_read_func: all of n bytes are there. *)
Readable(ofs, n) ==
  IF kind = "memory" THEN n = 0 \/ ofs + n <= zip.size
  ELSE Abs(ofs) < Word \div 2 /\ (n = 0 \/ Abs(ofs) + n <= archive.size)
(* A read, and whether it gives all of them.                               *)
Read(ofs, n, got) ==
  \/ got = Readable(ofs, n) /\ UNCHANGED faults
  \/ ~got /\ Readable(ofs, n) /\ kind # "memory" /\ faults < MaxFaults /\ faults' = faults + 1

Set(error) == [zip EXCEPT !.error = error]
Goto(from, to) == at = from /\ at' = to

(* An allocation, and whether it is granted.                               *)
Get(b, items, size, got) ==
  \/ got /\ AllocOf(b, items, size) /\ UNCHANGED faults
  \/ ~got /\ RefuseOf(items, size) /\ UNCHANGED faults
  \/ /\ ~got /\ faults < MaxFaults /\ faults' = faults + 1
     /\ NoMemoryOf(items, size, current_bytes)

-----------------------------------------------------------------------------
NoEnd == [total |-> 0, here |-> 0, disk |-> 0, cdisk |-> 0, csize |-> 0, ofs |-> 0]
ReaderInit ==
  /\ archive \in Archives /\ kind \in Kinds /\ io_size \in IoSizes /\ wide \in BOOLEAN
  /\ at = "closed"
  /\ zip = [size |-> 0, start |-> 0, total |-> 0, zip64 |-> FALSE, ext |-> FALSE, error |-> "NO_ERROR"]
  /\ dir = [eocd |-> 0, end |-> NoEnd, p |-> 0]
  /\ index = <<>>
  /\ job = [i |-> 0, ofs |-> 0, remaining |-> 0, clean |-> FALSE, returned |-> FALSE]
  /\ file_open = FALSE /\ faults = 0
  /\ inflator = tinfl_init(<<>>, 0, wide)
  /\ input = [avail |-> 0, taken |-> 0, more |-> FALSE] /\ status = "DONE"
  /\ Init

(* mz_zip_reader_init_file_v2, init_cfile and init_mem up to the state; only *)
(* the first of them closes what it cannot use.                            *)
Open ==
  /\ at = "closed"
  /\ IF archive.size < EndSize
     THEN at' = "failed" /\ zip' = Set("NOT_AN_ARCHIVE") /\ file_open' = (kind = "cfile")
     ELSE at' = "init" /\ zip' = [zip EXCEPT !.size = archive.size] /\ file_open' = (kind # "memory")
  /\ UNCHANGED <<setting, dir, index, job, faults, vars, inflate_vars>>

(* mz_zip_reader_init_internal                                             *)
InitInternal ==
  /\ at = "init"
  /\ \E got \in BOOLEAN :
       /\ Get("state", 1, StateSize, got)
       /\ at' = IF got THEN "locate" ELSE "failed"
       /\ zip' = IF got THEN zip ELSE Set("ALLOC_FAILED")
       /\ file_open' = (file_open /\ (got \/ kind # "file"))
  /\ UNCHANGED <<setting, dir, index, job, inflate_vars>>

-----------------------------------------------------------------------------
(* mz_zip_reader_read_central_dir: where it fails, the reader is closed.   *)
Reject(error) == at' = "end_directory" /\ zip' = Set(error) /\ UNCHANGED <<dir, index>>

(* mz_zip_reader_locate_header_sig: windows from the end of the archive    *)
(* back to the first signature with a whole record after it. The position  *)
(* of a window before the first byte is negative, but computed without a   *)
(* sign, and nothing can be read there.                                    *)
Ends(from) == {s \in DOMAIN archive.ends : s >= from /\ s + 4 <= from + Window
                                           /\ s + EndSize <= zip.size}
GaveUp(from) == from = 0 \/ zip.size - from >= U16 + EndSize
Windows ==
  LET from(i) == Most(zip.size - Window, 0) - i * (Window - 3)
      stops == {i \in 0 .. zip.size : from(i) < 0 \/ Ends(from(i)) # {} \/ GaveUp(from(i))}
  IN  from(First(stops))
Locate ==
  /\ at = "locate"
  /\ \E got \in BOOLEAN :
       /\ Read(0, zip.size, got)
       /\ IF got /\ Windows >= 0 /\ Ends(Windows) # {}
          THEN /\ at' = "end_record"
               /\ dir' = [dir EXCEPT !.eocd = Greatest(Ends(Windows))]
               /\ UNCHANGED <<zip, index>>
          ELSE Reject("FAILED_FINDING_CENTRAL_DIR")
  /\ UNCHANGED <<setting, job, file_open, vars, inflate_vars>>

ReadEnd ==
  /\ at = "end_record"
  /\ \E got \in BOOLEAN :
       /\ Read(dir.eocd, EndSize, got)
       /\ IF got THEN /\ at' = "locator"
                      /\ dir' = [dir EXCEPT !.end = archive.ends[dir.eocd]]
                      /\ UNCHANGED <<zip, index>>
          ELSE Reject("FILE_READ_FAILED")
  /\ UNCHANGED <<setting, job, file_open, vars, inflate_vars>>

(* A locator that cannot be read is as good as none.                       *)
LocatorOfs == dir.eocd - LocatorSize
ReadLocator ==
  /\ at = "locator"
  /\ IF dir.eocd < LocatorSize + End64Size
     THEN Goto("locator", "check_end") /\ UNCHANGED <<zip, faults>>
     ELSE \E got \in BOOLEAN :
       /\ Read(LocatorOfs, LocatorSize, got)
       /\ IF got /\ LocatorOfs \in DOMAIN archive.locators
          THEN at' = "near" /\ zip' = [zip EXCEPT !.zip64 = TRUE]
          ELSE at' = "check_end" /\ UNCHANGED zip
  /\ UNCHANGED <<setting, dir, index, job, file_open, vars, inflate_vars>>

(* mz_zip_reader_eocd64_valid, first before the locator and then where it  *)
(* points.                                                                 *)
ReadEnd64(ofs, otherwise) ==
  \E got \in BOOLEAN :
    /\ Read(ofs, End64Size, got)
    /\ IF got /\ ofs \in DOMAIN archive.ends64
       THEN /\ at' = "check_64"
            /\ dir' = [dir EXCEPT !.end = archive.ends64[ofs]]
            /\ UNCHANGED <<zip, index>>
       ELSE otherwise
ReadNear ==
  /\ at = "near"
  /\ ReadEnd64(LocatorOfs - End64Size, at' = "there" /\ UNCHANGED <<zip, dir, index>>)
  /\ UNCHANGED <<setting, job, file_open, vars, inflate_vars>>
ReadThere ==
  LET ofs == archive.locators[LocatorOfs].ofs
  IN  /\ at = "there"
      /\ IF ofs > zip.size - End64Size THEN Reject("NOT_AN_ARCHIVE") /\ UNCHANGED faults
         ELSE ReadEnd64(ofs, Reject("NOT_AN_ARCHIVE"))
      /\ UNCHANGED <<setting, job, file_open, vars, inflate_vars>>

(* The first check of a list that fails.                                   *)
Failing(checks) == {i \in DOMAIN checks : checks[i][1]}
ErrorOf(checks) == checks[First(Failing(checks))][2]

Check64 ==
  LET e == dir.end
      checks == <<<<e.record < End64Size - 12, "INVALID_HEADER">>,
                  <<archive.locators[LocatorOfs].disks # 1, "UNSUPPORTED_MULTIDISK">>,
                  <<e.total > U32 \/ e.here > U32, "TOO_MANY_FILES">>,
                  <<e.csize > U32, "UNSUPPORTED_CDIR_SIZE">>>>
  IN  /\ at = "check_64"
      /\ IF Failing(checks) # {} THEN Reject(ErrorOf(checks))
         ELSE at' = "check_end" /\ UNCHANGED <<zip, dir, index>>
      /\ UNCHANGED <<setting, job, file_open, faults, vars, inflate_vars>>

(* Behind the directory, but for the records of ZIP64, the archive ends.   *)
Between == IF zip.zip64 THEN End64Size + LocatorSize ELSE 0
EndChecks(e) ==
  <<<<e.total # e.here, "UNSUPPORTED_MULTIDISK">>,
    <<{e.disk, e.cdisk} \notin {{0}, {1}}, "UNSUPPORTED_MULTIDISK">>,
    <<e.csize < e.total * RecordSize, "INVALID_HEADER">>,
    <<Sum(e.ofs, e.csize) > zip.size, "INVALID_HEADER">>,
    <<dir.eocd < Sum(e.ofs, e.csize), "INVALID_HEADER">>,
    <<dir.eocd - Sum(e.ofs, e.csize) < Between, "INVALID_HEADER">>>>
CheckEnd ==
  LET e == dir.end
      checks == EndChecks(e)
      before == IF kind = "memory" THEN 0 ELSE dir.eocd - Sum(e.ofs, e.csize) - Between
  IN  /\ at = "check_end"
      /\ IF Failing(checks) # {} THEN Reject(ErrorOf(checks))
         ELSE /\ at' = IF e.total = 0 THEN "open" ELSE "directory"
              /\ zip' = [zip EXCEPT !.start = before, !.size = @ - before, !.total = e.total]
              /\ UNCHANGED <<dir, index>>
      /\ UNCHANGED <<setting, job, file_open, faults, vars, inflate_vars>>

-----------------------------------------------------------------------------
(* read_central_dir: the blocks of the directory, their contents, the index *)
Block(b, items, size, from, to) ==
  /\ at = from
  /\ \E got \in BOOLEAN :
       /\ Get(b, items, size, got)
       /\ IF got THEN at' = to /\ UNCHANGED <<zip, dir, index>> ELSE Reject("ALLOC_FAILED")
  /\ UNCHANGED <<setting, job, file_open, inflate_vars>>
GetDirectory == Block("cdir", 1, dir.end.csize, "directory", "offsets")
GetOffsets == Block("offsets", 4, zip.total, "offsets", "read_directory")

ReadDirectory ==
  /\ at = "read_directory"
  /\ \E got \in BOOLEAN :
       /\ Read(dir.end.ofs, dir.end.csize, got)
       /\ IF got THEN at' = "records" /\ UNCHANGED <<zip, dir, index>>
          ELSE Reject("FILE_READ_FAILED")
  /\ UNCHANGED <<setting, job, file_open, vars, inflate_vars>>

(* The extra fields of a record up to the one with the sizes of ZIP64: what *)
(* is met first, it, the end, or bytes that are no field.                  *)
ExtraField(h) ==
  LET fields == h.fields
      left[i \in 1 .. Len(fields) + 1] == IF i = 1 THEN h.extra ELSE left[i - 1] - 4 - fields[i - 1].size
      bad(i) == left[i] < 4 \/ left[i] < 4 + fields[i].size
      stops == {i \in 1 .. Len(fields) : bad(i) \/ fields[i].zip64}
  IN  IF stops = {} THEN IF left[Len(fields) + 1] = 0 THEN "none" ELSE "bad"
      ELSE IF bad(First(stops)) THEN "bad" ELSE "zip64"
Extended(h) == h.extra # 0 /\ U32 \in {h.comp, h.uncomp, h.ofs}

HeaderSize(h) == RecordSize + h.name + h.extra + h.comment
AnyLength(h, left) ==                                              \* mutant
  <<<<h.comp # U32 /\ h.ofs + LocalSize + h.comp > zip.size, "INVALID_HEADER">>>>
RecordChecks(h, left) ==
  <<<<h.comp # U32 /\ h.uncomp # U32 /\ (   (h.stored_at_0 /\ h.uncomp # h.comp)
                                         \/ (h.uncomp # 0 /\ h.comp = 0)), "INVALID_HEADER">>,
    <<h.disk = U16 \/ h.disk \notin {dir.end.disk, 1}, "UNSUPPORTED_MULTIDISK">>,
    <<h.comp # U32 /\ h.ofs + LocalSize + h.comp > zip.size, "INVALID_HEADER">>,
    <<h.masked, "UNSUPPORTED_ENCRYPTION">>,
    <<HeaderSize(h) > left, "INVALID_HEADER">>>>

(* Extra fields beyond the directory are looked for at another place; such *)
(* a record fails in the end whatever is there.                            *)
Look(h) == IF zip.ext \/ ~Extended(h) THEN "none" ELSE ExtraField(h)
Beyond(h, left) ==
  ~zip.ext /\ Extended(h) /\ RecordSize + h.name + h.extra > left

CheckRecord ==
  LET place == Abs(dir.end.ofs + dir.p)
      left == dir.end.csize - dir.p
      h == archive.headers[place]
  IN  /\ at = "records"
      /\ IF left < RecordSize \/ place \notin DOMAIN archive.headers \/ Look(h) = "bad"
         THEN Reject("INVALID_HEADER")
         ELSE IF Beyond(h, left)
         THEN \E error \in {"ALLOC_FAILED", "FILE_READ_FAILED", "INVALID_HEADER",
                            "UNSUPPORTED_MULTIDISK", "UNSUPPORTED_ENCRYPTION"} : Reject(error)
         ELSE IF Failing(RecordChecks(h, left)) # {} THEN Reject(ErrorOf(RecordChecks(h, left)))
         ELSE /\ at' = IF Len(index) + 1 = zip.total THEN "open" ELSE "records"
              /\ zip' = [zip EXCEPT !.zip64 = @ \/ Look(h) = "zip64", !.ext = @ \/ Look(h) = "zip64"]
              /\ dir' = [dir EXCEPT !.p = @ + HeaderSize(h)]
              /\ index' = Append(index, dir.p)
      /\ UNCHANGED <<setting, job, file_open, faults, vars, inflate_vars>>

-----------------------------------------------------------------------------
(* mz_zip_reader_end_internal, and the end of ZipReaderScope               *)
FreeIf(b) == IF b \in Live THEN FreeOf(b) ELSE UNCHANGED vars
Ending == at \in {"end_directory", "end_offsets", "end_state", "failed"}
EndDirectory ==
  /\ Goto("end_directory", "end_offsets") /\ FreeIf("cdir")
  /\ UNCHANGED <<setting, zip, dir, index, job, file_open, faults, inflate_vars>>
EndOffsets ==
  /\ Goto("end_offsets", "end_state") /\ FreeIf("offsets")
  /\ UNCHANGED <<setting, zip, dir, index, job, file_open, faults, inflate_vars>>
EndState ==
  /\ Goto("end_state", "failed") /\ FreeIf("state")
  /\ file_open' = (file_open /\ kind # "file")
  /\ UNCHANGED <<setting, zip, dir, index, job, faults, inflate_vars>>
ScopeEnds ==
  /\ Goto("failed", "over") /\ file_open' = FALSE
  /\ UNCHANGED <<setting, zip, dir, index, job, faults, vars, inflate_vars>>

(* main.cpp has seen enough.                                               *)
Close ==
  /\ Goto("open", "end_directory")
  /\ UNCHANGED <<setting, zip, dir, index, job, file_open, faults, vars, inflate_vars>>

-----------------------------------------------------------------------------
(* mz_zip_get_cdh: the record an index leads to.                           *)
Record(i) == archive.headers[Abs(dir.end.ofs + index[i])]

(* mz_zip_file_stat_internal: sizes that do not fit are in the extra field, *)
(* in this order and without gaps.                                         *)
Big(h) == {field \in {"comp", "uncomp", "ofs"} : h[field] = U32}
Zip64Size(h) == h.fields[First({i \in DOMAIN h.fields : h.fields[i].zip64})].size
StatOk(h) ==
  Extended(h) => \/ ExtraField(h) = "none"
                 \/ ExtraField(h) = "zip64" /\ 8 * Cardinality(Big(h)) <= Zip64Size(h)
Field(h, field) ==
  IF h[field] = U32 /\ Extended(h) /\ ExtraField(h) = "zip64" THEN h.big[field] ELSE h[field]
Supported(h) == h.method \in {0, 8} /\ ~h.encrypted
(* mz_zip_reader_is_file_supported and the rest leave an error behind, also *)
(* when there is an answer.                                                *)
StatError(h) ==
  IF ~StatOk(h) THEN "INVALID_HEADER"
  ELSE IF h.method \notin {0, 8} THEN "UNSUPPORTED_METHOD"
  ELSE IF h.encrypted THEN "UNSUPPORTED_ENCRYPTION" ELSE zip.error

(* main.cpp asks for an entry's sizes and extracts it, unless it is one of  *)
(* those it passes over.                                                   *)
Wants(h) == StatOk(h) /\ Supported(h) /\ ~h.directory /\ Field(h, "uncomp") > 0
Stat ==
  /\ at = "open"
  /\ \E i \in DOMAIN index :
       LET h == Record(i)
       IN  /\ at' = IF Wants(h) THEN "extract" ELSE "open"
           /\ zip' = Set(StatError(h))
           /\ job' = [i |-> i, ofs |-> Field(h, "ofs"), remaining |-> Field(h, "comp"),
                      clean |-> TRUE, returned |-> FALSE]
  /\ UNCHANGED <<setting, dir, index, file_open, faults, vars, inflate_vars>>

(* mz_zip_reader_extract_to_mem_no_alloc1, into a buffer of the size that   *)
(* was said.                                                               *)
Entry == Record(job.i)
Returns(result, error) ==
  /\ at' = "open" /\ job' = [job EXCEPT !.returned = result, !.clean = @ /\ faults' = faults]
  /\ zip' = Set(error)
Fails(error) == Returns(FALSE, error)

BeginExtraction ==
  /\ at = "extract"
  /\ IF job.remaining = 0 THEN Returns(TRUE, zip.error)
     ELSE at' = "local" /\ UNCHANGED <<zip, job>>
  /\ UNCHANGED <<setting, dir, index, file_open, faults, vars, inflate_vars>>

DataOfs == Sum(job.ofs, LocalSize + archive.locals[Abs(job.ofs)].name + archive.locals[Abs(job.ofs)].extra)
Feed(n, more) ==
  /\ input' = [avail |-> n, taken |-> 0, more |-> more]
  /\ status' = "running"
ReadLocal ==
  /\ at = "local"
  /\ \E got \in BOOLEAN :
       /\ Read(job.ofs, LocalSize, got)
       /\ IF ~got THEN Fails("FILE_READ_FAILED") /\ UNCHANGED inflate_vars
          ELSE IF Abs(job.ofs) \notin DOMAIN archive.locals \/ Sum(DataOfs, job.remaining) > zip.size
          THEN Fails("INVALID_HEADER") /\ UNCHANGED inflate_vars
          ELSE /\ at' = IF Entry.method = 0 THEN "stored"
                        ELSE IF kind = "memory" THEN "inflate" ELSE "buffer"
               /\ inflator' = tinfl_init(DataAt(DataOfs).stream, Field(Entry, "uncomp"), wide)
               /\ job' = [job EXCEPT !.ofs = DataOfs, !.remaining = IF kind = "memory" THEN 0 ELSE @]
               /\ Feed(IF kind = "memory" THEN job.remaining ELSE 0, FALSE)
               /\ UNCHANGED zip
  /\ UNCHANGED <<setting, dir, index, file_open, vars>>

ReadStored ==
  /\ at = "stored"
  /\ LET n == Field(Entry, "uncomp")
     IN  \E got \in BOOLEAN :
           /\ Read(job.ofs, n, got)
           /\ IF ~got THEN Fails("FILE_READ_FAILED")
              ELSE IF DataAt(job.ofs).plain # Entry.crc \/ Len(Entry.crc) # n
              THEN Fails("CRC_CHECK_FAILED") ELSE Returns(TRUE, zip.error)
  /\ UNCHANGED <<setting, dir, index, file_open, vars, inflate_vars>>

ReadBufSize == Least(Field(Entry, "comp"), io_size)
GetBuffer ==
  /\ at = "buffer"
  /\ \E got \in BOOLEAN :
       /\ Get("buffer", 1, ReadBufSize, got)
       /\ IF got THEN at' = "fill" /\ UNCHANGED <<zip, job>>
          ELSE /\ at' = "open" /\ zip' = Set("ALLOC_FAILED")
               /\ job' = [job EXCEPT !.clean = FALSE]
  /\ UNCHANGED <<setting, dir, index, file_open, inflate_vars>>

LosesBuffer ==                                                     \* mutant
  /\ at = "fill"
  /\ LET n == Least(ReadBufSize, job.remaining)
     IN  \E got \in BOOLEAN :
           /\ Read(job.ofs, n, got)
           /\ IF got
              THEN /\ at' = "inflate"
                   /\ job' = [job EXCEPT !.ofs = @ + n, !.remaining = @ - n]
                   /\ Feed(n, job.remaining > n)
                   /\ UNCHANGED <<zip, inflator>>
              ELSE Fails("DECOMPRESSION_FAILED") /\ UNCHANGED inflate_vars
  /\ UNCHANGED <<setting, dir, index, file_open, vars>>
Fill ==
  /\ at = "fill"
  /\ LET n == Least(ReadBufSize, job.remaining)
     IN  \E got \in BOOLEAN :
           /\ Read(job.ofs, n, got)
           /\ IF got
              THEN /\ at' = "inflate"
                   /\ job' = [job EXCEPT !.ofs = @ + n, !.remaining = @ - n]
                   /\ Feed(n, job.remaining > n)
                   /\ UNCHANGED <<zip, inflator>>
              ELSE /\ at' = "release" /\ zip' = Set("DECOMPRESSION_FAILED")
                   /\ job' = [job EXCEPT !.clean = FALSE]
                   /\ UNCHANGED inflate_vars
  /\ UNCHANGED <<setting, dir, index, file_open, vars>>

Decompress ==
  /\ at = "inflate" /\ Inflate
  /\ UNCHANGED <<setting, at, zip, dir, index, job, file_open, faults, vars>>

(* Again with what is left of the piece, or with the next one.             *)
Continue ==
  /\ at = "inflate" /\ status = "NEEDS_MORE_INPUT"
  /\ IF input.avail = 0 /\ kind # "memory"
     THEN at' = "fill" /\ UNCHANGED inflate_vars
     ELSE Feed(input.avail, job.remaining > 0) /\ UNCHANGED <<at, inflator>>
  /\ UNCHANGED <<setting, zip, dir, index, job, file_open, faults, vars>>

AnySize ==                                                         \* mutant
  /\ at = "inflate" /\ status \notin {"running", "NEEDS_MORE_INPUT"}
  /\ at' = "release"
  /\ job' = [job EXCEPT !.returned = status = "DONE" /\ inflator.out = Entry.crc]
  /\ UNCHANGED <<setting, zip, dir, index, file_open, faults, vars, inflate_vars>>
CheckResult ==
  /\ at = "inflate" /\ status \notin {"running", "NEEDS_MORE_INPUT"}
  /\ at' = "release"
  /\ job' = [job EXCEPT !.returned = status = "DONE" /\ Len(inflator.out) = Field(Entry, "uncomp")
                                                     /\ inflator.out = Entry.crc]
  /\ zip' = IF status # "DONE" THEN zip
            ELSE IF Len(inflator.out) # Field(Entry, "uncomp") THEN Set("UNEXPECTED_DECOMPRESSED_SIZE")
            ELSE IF inflator.out # Entry.crc THEN Set("CRC_CHECK_FAILED") ELSE zip
  /\ UNCHANGED <<setting, dir, index, file_open, faults, vars, inflate_vars>>

Release ==
  /\ Goto("release", "open") /\ FreeIf("buffer")
  /\ UNCHANGED <<setting, zip, dir, index, job, file_open, faults, inflate_vars>>

-----------------------------------------------------------------------------
Opening ==
  \/ InitInternal \/ Locate \/ ReadEnd \/ ReadLocator \/ ReadNear \/ ReadThere \/ Check64 \/ CheckEnd
  \/ GetDirectory \/ GetOffsets \/ ReadDirectory \/ CheckRecord
Extraction ==
  \/ BeginExtraction \/ ReadLocal \/ ReadStored \/ GetBuffer \/ Fill \/ Decompress \/ Continue \/ CheckResult \/ Release
EndInternal == EndDirectory \/ EndOffsets \/ EndState \/ ScopeEnds
Program == Opening \/ Extraction \/ EndInternal
Client == Open \/ Stat \/ Close
ReaderNext == Client \/ Program
(* The program goes on; what main.cpp asks for is its own choice.          *)
ReaderSpec == ReaderInit /\ [][ReaderNext]_reader_vars /\ WF_reader_vars(Program)

-----------------------------------------------------------------------------
(* However an archive is damaged, whichever reads fail and whatever memory  *)
(* is refused, nothing is kept once the scan is over, and no extraction     *)
(* leaves its read buffer to the next one.                                 *)
NothingLeaks ==
  /\ at = "over" => Live = {} /\ current_bytes = 0 /\ ~file_open
  /\ at \in {"open", "extract", "local", "stored"} => "buffer" \notin Live

(* Every record in the index is one, with all of its header inside of the   *)
(* block that holds the directory: mz_zip_get_cdh and mz_zip_file_stat have *)
(* no checks of their own.                                                 *)
IndexSound ==
  "cdir" \in Live => \A i \in DOMAIN index :
    /\ Abs(dir.end.ofs + index[i]) \in DOMAIN archive.headers
    /\ index[i] + HeaderSize(Record(i)) <= asked["cdir"]

(* What should come out of an entry                                        *)
Sound(i) ==
  LET h == Record(i)
      ofs == Field(h, "ofs")
      comp == Field(h, "comp")
      local == archive.locals[Abs(ofs)]
      data == ofs + LocalSize + local.name + local.extra
      plain == IF h.method = 0 THEN DataAt(data).plain ELSE Meaning(DataAt(data).stream, comp).out
  IN  \/ comp = 0
      \/ /\ Abs(ofs) \in DOMAIN archive.locals
         /\ data + comp <= zip.size /\ (h.method = 0 => data + Len(plain) <= zip.size)
         /\ h.method = 0 \/ ~Meaning(DataAt(data).stream, comp).failed
         /\ plain = h.crc /\ Len(plain) = Field(h, "uncomp")

(* miniz.c:4604 adds the place and the size of an entry modulo Word, so an *)
(* entry may seem to end before it begins; of others:                      *)
Unwrapped(h) == Field(h, "ofs") + LocalSize + 2 * U16 + Field(h, "comp") < Word
(* an entry comes out exactly when its data say what its record says,      *)
(* however the data are cut into pieces and however far the decoder looks  *)
(* ahead. An entry whose compressed size is zero counts as sound whatever   *)
(* is said of it: miniz returns at once and compares no checksum.          *)
ExtractExact ==
  at = "open" /\ job.i # 0 /\ Wants(Record(job.i)) /\ Unwrapped(Record(job.i)) /\ job.clean
    => job.returned = Sound(job.i)

(* miniz.c:2841 asserts that nothing is left in the bit buffer when the     *)
(* stream has ended, and says that bytes read too far are put back: what    *)
(* follows the stream has not been taken.                                  *)
LookaheadReturned ==
  at = "inflate" /\ status = "DONE" =>
    /\ inflator.bits = 0
    /\ input.avail + job.remaining
         = Field(Entry, "comp") - Bytes(Meaning(inflator.stream, Field(Entry, "comp")).pos)

(* What is extracted is what was stored, to the last bit of input.         *)
EntriesExact == ExtractExact /\ LookaheadReturned

(* What a call has still to go through: places in their order, the records *)
(* or bytes that are left, and the tokens of the present piece.            *)
Course ==
  [closed |-> 0, open |-> 0, over |-> 0, failed |-> 1, end_state |-> 2, end_offsets |-> 3,
   end_directory |-> 4, release |-> 5, fill |-> 6, inflate |-> 6, buffer |-> 7, stored |-> 7,
   local |-> 8, extract |-> 9, records |-> 10, read_directory |-> 11, offsets |-> 12,
   directory |-> 13, check_end |-> 14, check_64 |-> 15, there |-> 16, near |-> 17,
   locator |-> 18, end_record |-> 19, locate |-> 20, init |-> 21]
Remaining ==
  IF at = "records" THEN zip.total - Len(index)
  ELSE IF at \in {"fill", "inflate"} THEN job.remaining ELSE 0
Tokens ==
  IF at # "inflate" THEN 0
  ELSE IF status # "running" THEN 1 ELSE Len(inflator.stream) - inflator.at + 3
Rank == <<Course[at], Remaining, Tokens>>
Below(m, n) ==
  \/ m[1] < n[1]
  \/ m[1] = n[1] /\ (m[2] < n[2] \/ (m[2] = n[2] /\ m[3] < n[3]))

(* Whatever the archive, each step of a call brings its end nearer: none   *)
(* of the loops of the library (over records, pieces and symbols) can go   *)
(* around without something being used up.                                 *)
CallsAreFinite ==
  [][Program => Rank' \in Nat \X Nat \X Nat /\ Below(Rank', Rank)]_reader_vars

(* Every call returns: no piece is asked for twice.                        *)
Idle == at \in {"closed", "open", "over"}
CallsReturn == ~Idle ~> Idle
=============================================================================
