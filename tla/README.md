# ObfuScan: a TLA+ model of the service and the scanner

ObfuScan looks for packers, obfuscation and virtual-machine protection (VMP) in
the arm64 libraries of an Android package. It is a C++ program that scans one
package per run (`main.cpp` and the detectors), and a Python service
(`web_server.py`) that takes uploads, runs the program on them and shows the
results in a page. This directory holds TLA+ modules that model the parts of it
that decide something, configurations that check them with TLC, and proofs
that TLAPS checks.

Two kinds of difficulty are worth modelling here. The service is concurrent and
has to survive slow clients, full disks, scanners that hang and its own death.
The scanner is sequential, but it works on files that may declare anything,
under a dozen limits, through long cascades of thresholds that were tuned one
at a time: what is easy to get wrong there is how the pieces work together.

## 1. Inventory

### Upload service (`web_server.py` 30-485, 1715-1732)

- *State*: two semaphores (`_connection_slots`, `SCAN_SLOTS`), a thread per
  connection, for each upload a spool (`FieldStorage`), a copy
  (`NamedTemporaryFile(delete=False)`) and a scanner process, the free space of
  the temporary disk.
- *Operations*: `process_request` and `process_request_thread`, `do_GET`,
  `do_POST`, `handle_analyze`, `run_obfuscan`, start and end of the server.
- *Interaction*: with clients over HTTP/1.0, with the scanner through
  `subprocess.run`, two output files and a deadline, with other uploads only
  through the semaphores and the disk.
- *Hard*: exceptions and timeouts at every read and write; nested `finally` and
  `except` that may write a second response; a check of free space that is
  stale when the file is written, and of a length that the form may exceed; a
  scanner that outlives the server.
- *Correct when*: slots are returned exactly once; of a request nothing is left
  when its slot is free but a file that could not be unlinked; a report is whole
  or is not a report; disk use and leftovers are bounded; every request ends
  unless its upload never does.

### Web page (`web_server.py` 939-1709)

- *State*: language, last result, selected file, busy flag, results section,
  requests under way. *Operations*: choose, drop, submit, switch the language,
  reload, the answers of `/status` and `/analyze`.
- *Hard*: answers that come while the user goes on.
- *Correct when*: what is shown is what was asked last, in one language, and
  the page is usable again after every answer.

### Package scan (`main.cpp` 225-550, 1786-2017, 3182-3258)

- *State*: candidates, the counters of `ApkScanReport`, results, a bounded list
  of diagnostics, inner archives. *Operations*: open, list, select, load,
  analyse, open an inner archive, choose its best ELF, link, sort.
- *Hard*: some twenty ways to fail, each of which must be counted once; budgets
  that are accepted before the memory is there; limits that are tested at
  different times; exceptions at two levels.
- *Correct when*: the counters add up, the status is honest, memory and work
  are bounded, a rejected archive is not inflated.
- Its parts: **ZIP size policy** (`apk_scan_limits.cpp`), stateless arithmetic
  on 64-bit sizes; **archive memory budget** (`main.cpp` 252-340), an allocator
  that miniz calls back in any order.

### VMP detector (`vmp_detector.cpp`)

- *Decode budget* (1148-1333): which windows of the code are decoded. *State*:
  the budget, what is left for the regions to come, spans. *Correct when* no
  region starves, the budget holds, and "not truncated" means that every site
  was looked at.
- *Walk* (31-660): from a jump back through its block to the load its target
  comes from. *Correct when* a site is judged by the code that leads to it and
  nothing else, and data flow is followed exactly.
- *Verdict* (660-1062): tallies, scores, gates, outcome. *Correct when*
  evidence counts in one direction, and incomplete scans do not become
  negatives.

### Risk report and linkage (`main.cpp` 705-724, 1515-1785, 3143-3180; `vmp_linkage.cpp`)

- *State*: the results of all libraries, copies of the providers.
  *Operations*: label, risk, link each client, sort.
- *Hard*: labels and risk come from the same scores through two cascades;
  results are changed in place while other results refer to them.
- *Correct when*: label and risk agree, linking does not depend on the order
  and loses nothing.

### Custom linker detector (`custom_linker_detector.cpp`)

- Stateless: texts and imports to capability axes, gates, scores and an
  outcome. *Correct when* more evidence never lowers a verdict, and packing
  decides nothing.

### Library scores (`main.cpp` 732-1728, `disasm_arm64.cpp` 132-207)

- Stateless: sections, segments, texts, imports, symbols and instruction counts
  to three scores, to the contexts of the two detectors and to the known
  runtime. *Hard*: some forty signs with weights and caps, read by two
  detectors and two cascades; a family of runtimes that is chosen among twelve.
- *Correct when*: one sign more lowers the risk of a library only by explaining
  or by hiding it; the strongest runtime evidence is reported; packing decides
  nothing.

### ELF reading (`elf_dynamic.cpp`, `main.cpp` 551-704)

- *State*: none between calls; within one, the tags, the string table, the
  number of symbols, what is referenced. *Operations*: `parse` part by part:
  PT_DYNAMIC, strings, three relocation tables, the number of symbols by four
  ways, symbols, entry points; the previews of `main.cpp`.
- *Hard*: every number is of the file, in sums that wrap; parts that fail must
  not take other parts along.
- *Correct when*: every byte read is in the file and in one segment; a table
  said to be complete is; a bad table is rejected alone.

### Disassembly (`disasm_arm64.cpp`)

- Stateless: words that do not decode are skipped, registers get one name for
  two widths, instructions are counted by kind.

### ZIP library (`miniz.c`, the reader and the decoder)

- *State*: the archive object, its blocks of memory, the index, an extraction,
  and the coroutine of the decoder with its bit buffer. *Operations*: open from
  a file, an open file or memory, stat, extract, close.
- *Interaction*: `main.cpp` asks; the bounded allocator and the file answer,
  and both may refuse at any time.
- *Hard*: some sixty ways to reject an archive, each with what to free; sizes of
  16, 32 and 64 bits in three records; a decoder that is suspended in any state
  and that takes bytes ahead.
- *Correct when*: nothing is kept, the index holds sound records, an entry comes
  out exactly if its data are what its record says, every call returns.

### Windows deployment (`deploy/windows`)

- *State*: a file with a process identifier, the processes of the machine, the
  port. *Operations*: `Start-ObfuScan.ps1` and `Stop-ObfuScan.ps1`.
- *Hard*: the file, the process and the port are three things that change at
  different times; identifiers are used again, between two lines of a script as
  well; a query may fail; others may listen on the port; a script may be stopped
  anywhere or run twice.
- *Correct when*: a server is lost only with a script that is stopped or a query
  that fails; the one reported healthy is the one recorded; a program with
  another command line is ended only if it got its identifier after the look at it.

### Other parts

| Part | Where | What it does |
|------|-------|--------------|
| JSON report | `main.cpp` 2018-3094 | formats the results in two languages |
| Library names | `web_server.py` 60-190 | labels file names, by rules loaded once |
| Tests, build | `tests`, `CMakeLists.txt` | |

They hold nothing whose correctness is more than "the right text": they are not
modelled.

## 2. Plan

Modules in the order of their weight, and what each is composed with:

1. `ScanService` over the abstract `ScanAdmission` (which it implements).
2. `ApkScan` over `ApkScanLimits`, then `AllocBudget` beneath it.
3. `VmpRegions`, `VmpVerdict`: how much is seen, what is made of it.
4. `RiskReport`, `CustomLinker`: what the user is told.
5. `WebClient`: what is shown.

6. `Deploy`: the scripts around the service.
7. `ElfDynamic`, `VmpWalk`: what the detectors are told.
8. `ZipReader` over `AllocBudget` and `Inflate`: what the package scan reads.
9. `LibraryScores` over `CustomLinker`, with `VmpVerdict` and `RiskReport`: the
   analysis of one library from end to end.

All of these are written. Still to come, in this order:

- Composition: `WebClient` against `ScanService` instead of an external server.
- Section headers and notes of an ELF file.

## 3. The modules

To check a run, `tlc -config <run>.cfg <module>`; to check the proofs of a
module, `tlapm <module>.tla`. `PROJECT.json` lists the runs, what each property
is about, and for every definition the lines it stands for.

Names are those of the code where TLA+ allows it. A definition marked *mutant*
in a module is used nowhere in it: it says how the code could plausibly have
been wrong, and each property is there to fail when it takes the place of the
definition it precedes.

### ScanService, ScanAdmission

A handler thread is the connection it serves. `phase[c]` is the place of the
handler, `job[c]` its files (as numbers of chunks) and its scanner, `pending[c]`
how `handle_analyze` is being left, `sent[c]` the responses on the connection.

| Code | Actions |
|------|---------|
| `process_request` 209-224 | `Accept`, `Overloaded`, `StartThread`, `StartFails` |
| `process_request_thread` 226-230 | `ReleaseConn` |
| `do_GET`, head of `do_POST` | `HeadFails`, `Answer`, `RefuseScan`, `AdmitScan` |
| `handle_analyze` before the body 322-345 | `RejectRequest`, `StartUpload` |
| upload 347-368 | `ReceiveChunk`, `UploadEnds`, `RejectForm`, `ClientFallsSilent`, `UploadTimeout`, `ClientResets`, `WorkFails` |
| copy 369-391 | `CopyChunk`, `RejectSize`, `RejectFile`, `WorkFails` |
| `run_obfuscan` 399-485 | `NoEngine`, `StartScanner`, `ScannerExits`, `ScanTimeout`, `ScanEnds` |
| `finally`, `except` 305-319, 395-397 | `Cleanup`, `UnlinkFails`, `HandleException`, `ReleaseScan` |
| end and start of the process | `ServerDies`, `Vanish`, `Restart`, `OrphanExits` |

A failing write is part of the response: `SendJson` chooses whether the client
was there to the end, and if not, which exception is under way. What
`disk_usage` answers is anything up to what uploads leave, as the disk has
other users. HTTP syntax and the contents of the page are left out; the `.apk`
extension, the ZIP signature and the form are the choice between
`RejectForm`, `RejectFile` and the rest.

Of `cgi.FieldStorage`, which is external, only this is assumed: it spools what it
reads. It does not hold a form to its Content-Length, so the spool may grow past it,
up to a full disk; the copy loop has a limit of its own, and 413 is said if the
apk part is longer (`RejectSize`). `excess` is the part of `uploadBytes` beyond the
declared lengths. The idle timeout is one of each read: a client
that sends a byte in time, again and again, is never silent, and its upload
goes on for as long as it likes. A copy that could not be unlinked stays in
`job` and on the disk after its handler has gone on (`UnlinkFails`), and `child`
says of the scanner what became of it, to the end of the request.

`ScanAdmission` says what all of this promises of admission: at most `Capacity`
requests inside, and a refusal only at a moment when that many are.
`ScanService` implements it with `active <- ScanHolders` and
`refused <- Refused`; this is run (`AdmissionSpec`) and proved.

### ApkScan, ApkScanLimits, AllocBudget

`ApkScan` follows one run of the program through `pc`. What the archive holds
is chosen as it is read, and every step that may fail may fail at any time:
`StatFails`, `RefuseCandidate`, `LoadFails`, `AnalysisFails`, `RefuseInner`,
`InnerRefused`, `InnerLoadFails`, `ScanThrows`. The analysis of a library is how
it ends. `unseen`, `inflated` and `elves` are history: what was given up on,
the bytes inflated, the ELF files met in the inner archive.

`ApkScanLimits` has the size policy and the budgets in integers that wrap at
`MaxU64`; `AllocBudget` the allocator of `MinizAllocationBudget`, in integers
that wrap at `Word`. `asked` is what miniz relies on: the product of count and
size without the wrap-around. Its actions come in two layers, `AllocOf(b,
items, size)` for a caller that has made its choice (`ZipReader`) and `Alloc`
over all of them (the proofs).

### VmpRegions, VmpWalk, VmpVerdict

`VmpRegions` is `analyze_vmp_regions`: `SelectSites` is the first pass, the
quotas and the sampling, `MergeSite` the windows and their merging,
`DecodeSpan` and `DropSpan` the loop over the spans. `Passing` is one turn of
the second pass, and sites are known by their index. Offsets are in words of
four bytes. `evaluated` counts how often `collect_from_stream` looks at a site.

`VmpWalk` is the first half of `collect_from_stream`, over instructions that
`Decode` appends. A word is what the walk looks at: its kind, the registers in
the order in which they are looked at, a displacement and a target. A kind stands
for the mnemonics that the predicates of the code treat alike, in all their
combinations: `subs` (and ANDS) is a transform and a compare, and as a compare it has
no destination; `ldp` writes two registers, of which the code reports one; `bfi`
keeps bits of its first operand, `rev` defines a register without being a transform.
`Dest` and `Uses` are what the code takes an instruction for, `Assigned` and
`Read` what it does; they agree for the instructions that are `Plain`.
A direct call changes no register. `Block` is
`previous_block_boundary`, `Fetches`, `Leading` and `OpcodeFetch` the choice of
the fetch, `Tainted` the registers that its value reaches, `Trace` the way back
from the target, `Flow` all that is known of an indirect transfer. Then
`Pass`, `Exclude`, `Loop` and `Transfer` take the sites in turn.

`VmpVerdict` is the second half and `finalize_result`. A site is a record of
the facts that `Flow` establishes. From there on every branch of the code is
there: the kinds of candidate, the tallies, the three families, penalties,
gates, overrides and the cascade of outcomes. Scores are integers in
hundredths. The code adds doubles, so that a sum that meets a threshold exactly
may come out on either side: `rounds_down` is that choice. Addresses are in
pages of 8 KiB, so that the spans of 64, 16 and 4 KiB are page distances; two
sites whose distance is within one page of a limit are taken for too far apart.

### RiskReport, CustomLinker, LibraryScores

`RiskReport` starts from what the detectors found (`Findings`) and follows
`analyze_so` from the final scores to the label, `link_vmp_protected_clients`
one client at a time on the shared list, and the sort. Scores are in ten
thousandths. `originals` is history: the results before linking.

`CustomLinker` is `analyze` as one operator over the texts and imports of a
library. Its steps add one text or one import: a behaviour is a comparison of
libraries that differ in one piece of evidence, which is what its action
properties speak of.

`LibraryScores` is `analyze_so` itself in the same manner. It extends
`CustomLinker`, so that each piece of evidence also goes through the linker
detector, asks `VmpVerdict` (instance `V`) for the verdict on the sites of the
library and `RiskReport` (instance `R`) for label and risk. `MeetText`,
`MeetImport` and `MeetSign` add one piece; `report` is what `analyze_so` then
returns. A text that contains another needle counts for both (`Containing`:
*Lavfi* has *Lavf* in it). The imports are the set that `merge_import`
(`main.cpp` 1235-1268) makes of both symbol tables before any of them is counted:
which table a name comes from is not modelled, and neither are exports. Measures are
signs, passed or not passed thresholds; a sign that implies another one is only met
after it (`Weaker`).

### ElfDynamic

One action for each part of `parse`, in its order: `DynamicSegment`,
`StringTable`, `Rela`, `Rel`, `JmpRel`, `CountSymbols`, `SymbolTable`,
`ReadSymbols`, `EntryPoints`, and `Preview` for `main.cpp`. `Span` is
`va_to_file_span_with_flags`, `Offset` is `va_to_file_offset`. The file is given by
its structures, found wherever the numbers say; what is read is recorded in
`reads`. Numbers are bounded by `Top` where the code tests for a wrap-around.

### ZipReader, Inflate

`ZipReader` extends `AllocBudget` and `Inflate` and joins them to the three
ways of `mz_zip_reader_init`, `locate_header_sig`, `read_central_dir`,
`file_stat`, `extract_to_mem` and `reader_end`, each cut where it reads or
allocates: `Read` and `Get` are those two, with their failures. `zip` and `dir`
are the structures of the library, `index` its offsets, `job` an extraction.
Offsets are added as the library adds them, modulo `Word`.

`Inflate` is `tinfl_decompress`: one action for each state of the coroutine
that can leave it. A stream is a sequence of tokens with the bits they take:
building and walking of a Huffman table is one token, good or bad. `HuffDecode`
takes bytes as `TINFL_HUFF_DECODE` does, and `SlowPath` and `Ahead` say when
the fast loop takes more, so that too many bytes may be in the buffer at the
end; `PutBack` returns them. `Meaning` is the reference: what a stream says,
read without pieces, the last place of `Reading`.

`EntriesExact` compares an extraction with `Sound`, in which numbers are added
as numbers. The library adds the place of an entry, its two headers and its
size in 64 bits (miniz.c:4604), and takes the remainder for the end of the
entry. Where the sum does not fit, the two differ. `ExtractExact` speaks of the
entries whose sum fits (`Unwrapped`), `LookaheadReturned` of all. No archive
of the run is of the other kind. An entry that claims no compressed bytes is
extracted by the library without writing anything: of it, `ExtractExact` says that
much and no more.

`Rank` is what a call has still to go through: the place it is at (`Course`),
the records or bytes that are left of a loop, and the tokens that are left to
the decoder. `CallsAreFinite` says that each step of the library lowers it.

### Deploy

Each script is a `pc` and the identifier it holds, each action a line or two of
it. `running` is the table of processes with what they are: servers of these
scripts, before and after their bind, *namesakes*, whose command line has the path
of `web_server.py` somewhere in it, which is all that Stop asks for (30), and others.
Identifiers are used again at any time, between the look at the command line
(Stop, 26) and `Stop-Process` (35) too, where the operator may be asked (34) and may
decline (`Decline`). Only the `Process` object that Start holds from line 127 on
keeps its identifier. A query of Stop may fail (`QueryFails`), which the script
takes for a process that is gone; `Stop-Process` may fail; and any program may
listen on the port and answer the health check (`OtherListens`, `Probe`).
`reissued` is history: the scripts whose target ended after they had looked at it,
and left its identifier to another program.

### WebClient

The script of the page, with the user and the server as environment. A fetch
is answered once or breaks off. What a result looks like is left out; what
language its labels and its findings are in is kept, as they come from
different places.

## 4. What is checked

Deadlock is checked in the service and in the page. The scanner and the
detectors end, and their runs say so (`CHECK_DEADLOCK FALSE`).

| Run | Distinct states | Properties |
|-----|-----------------|------------|
| `service_slots` (MCScanService) | 1,937,646 | `SlotsConserved`, `NothingOutlivesTheSlot`, `ResponsesAreWhole`, `AdmissionSpec` |
| `service_pair` (MCScanService) | 1,115,733 | `DiskBounded`, `SlotsReturned` |
| `web_client` (WebClient) | 7,092 | `ResultsAreCurrent`, `EveryScanConcludes` |
| `apk_scan` (MCApkScan) | 269,457 | `Accounted`, `HonestStatus`, `WithinLimits`, `BestElf` |
| `vmp_regions` (MCVmpRegions) | 51,328 | `FairShare`, `SoundCoverage` |
| `vmp_walk` (MCVmpWalk) | 3,821,605 | `OnlyItsBlock`, `LinkIsDataFlow`, `DecoysHideNothing` |
| `vmp_verdict` (MCVmpVerdict) | 1,771 | `ExplanationsHaveLimits`, `IncompleteIsInconclusive`, `EvidenceNeverExonerates` |
| `library_evidence` (MCLibraryScores) | 11,814 | `RuntimeIsStrongest`, `PackingProvesNothing`, `RiskNeverFalls`, `MoreNeverLowers` |
| `risk_report` (MCRiskReport) | 43,038 | `LabelMatchesRisk`, `ClientsExactly`, `ProvidersStand`, `NothingLost` |
| `elf_dynamic` (MCElfDynamic) | 152,264 | `AddressesHold`, `CountsAreTrue`, `RejectedAlone` |
| `zip_reader` (MCZipReader) | 217,452 | `WithinBudget`, `NothingLeaks`, `IndexSound`, `EntriesExact`, `CallsReturn`, `CallsAreFinite` |
| `deploy` (MCDeploy) | 1,201,468 | `LostOnlyByMishaps`, `HealthyIsRecorded`, `OthersOnlyByReissue` |

Some properties are conjunctions of named parts that fail in different ways
(`ResponsesAreWhole`, `DiskBounded`, `WithinLimits`, `SoundCoverage`,
`ExplanationsHaveLimits`, `AddressesHold`, `CountsAreTrue`, `EntriesExact`).

**service_slots** has three clients, two connection slots and one scan slot, so
that there is always one client too many for each semaphore, a limit of
two chunks, so that a spool and a copy can be half done, a disk of five, which forms
may fill past the declared length and past the limit, and one fault (a death or a
failed unlink). Connections are interchangeable: symmetry is used, there being no
liveness in this run.

**service_pair** has two scan slots, which the race on the disk needs, a limit of one
chunk, a disk of six and a reserve of three, which two uploads can reach into, and
one fault, which may leave two copies behind before the next uploads come. A second
fault only repeats the first on other files; the bound of what is left behind grows
with `faults`, is stated so, and is proved for any number. There is no symmetry, as
the run checks liveness.

**web_client** has two packages and a text file, three scans.

**apk_scan** has archives of up to four entries, each of four kinds of
metadata, at most two candidates, two recorded diagnostics and three entries of
an inner archive. So each limit can be met, missed by one, and exceeded: one
candidate too many, a diagnostic too many, a total over the budget by a library
that would fit alone. The arithmetic of the limits is proved for numbers of
every width and not run on small ones.

**vmp_regions** has all libraries of up to four regions of seven kinds: empty,
with an address that overflows, small, at the quota, over the quota, larger
than a share, sparse. A window starts two words before its site and ends one after it, so that
neighbouring ones merge, touch or stay apart.

**vmp_verdict** has ten kinds of site, one or four in a row, three rows, in 288
contexts: enough to reach and to miss every number a gate asks for (eight at
most), for two kinds at a time. Twelve sites do not reach the last step of the
trampoline ladder (20).

**risk_report** has packages of three libraries of nineteen kinds, in every
order, with two providers of the same file name, providers that need each
other, clients of both, and scores on both sides of each threshold.

**vmp_walk** has every stream of up to five words out of nineteen that
ends in a jump, with a look-back of three: a fetch, its advance, a
transformation, the load of a target and the jump fit into it in any order, so
do a gap, a decoy and a register that is overwritten, also by an instruction that
the code does not take for one that does (SUBS, the second register of a pair), and
blocks that are cut off by the look-back.

**library_evidence** starts from twenty libraries, each near a threshold of a
loader, a hook framework, a runtime, a VM or a score, and meets one or two
pieces more out of some forty: a cascade is changed by a single piece, and a
cap or an explanation needs a second one. That `bl` and `blr` are jumps as well
as calls is how Capstone groups them; `AlsoJumps` says so.

**elf_dynamic** has three families of a library of 560 bytes: any one entry of
its dynamic section has another number or is missing, in six mappings (whole,
split, overlapping, twice with sums that wrap, executable with less memory
than file), cut off or not; GNU hash tables with two buckets and five chains of
every shape; two dynamic sections, the first of them bad in several ways.

**zip_reader** has some seventy archives of up to three entries: sound ones,
with a prefix, with ZIP64 records, and those with one number of one record
wrong. Each is opened in the three ways, read with buffers of 1, 3, 5 and 64
bytes (so that the decoder is suspended within every kind of token), with a bit
buffer of 32 and of 64 bits, and one read or one allocation may fail anywhere.
`Limit` is between what a small and a large directory need.

**deploy** has two scripts at once, four in all, three identifiers, one
interrupt, one query that fails and one server that dies: enough for a start beside
a start, for a stop between two starts, and for an identifier that another program
has by now, or gets within a stop. A second mishap of a kind loses a second server;
the bound counts them, and is proved for any number.

### Fairness

`ScanService`: threads are scheduled, the timeouts of the socket and of
`subprocess.run` fire, and a process that dies is torn down (`Serve` and
`Vanish` are weakly fair for each handler). `REQUEST_IDLE_TIMEOUT_SECONDS` is
set on every connection (`setup`, 237), and `SCAN_TIMEOUT_SECONDS` is passed to
`subprocess.run` (419); both are never off. The first is a timeout of one read:
it ends the wait for a client that is silent (`UploadTimeout`), and not an upload
that goes on a byte at a time. So nothing is assumed of clients, and that an
upload ends is not either: what a client does, `UploadEnds` and `ClientFallsSilent`
among it, is not in `Serve`, and `SlotsReturned` excepts a handler that stays in
`upload` for ever. That is a limit of the service: a client that trickles keeps
its scan slot. Request line and headers are of limited size, so that the wait for
them ends with their reads (`HeadFails`). Nothing is assumed of scanners or of a
restart.

`ZipReader`: the program goes on (`Program` is weakly fair); the library never
waits for anybody. What `main.cpp` asks for, and whether it asks at all, is its
own choice.

`WebClient`: `/analyze` is answered or breaks off. `SlotsReturned` says so of the
service for every client that does not trickle for ever, and a browser sends the
file it has as fast as it can. Nothing is assumed of the user or of `/status`.

### What the checks found

No property that is run fails. These are differences between the code and what
the repository says of it, or what one would expect, that were met while modelling;
the models follow the code.

Of the detectors:

- Switch tables are alternatives to a VM (`README.md` 248,
  `tests/vmp_detector_tests.cpp` 525). The counter of them (`vmp_detector.cpp`
  568) is never incremented: it asks for a fetch that does not advance, and only
  fetches that do are kept (370). A jump table becomes a candidate instead, and
  the penalties at 900 and 901 never apply. In `VmpWalk` `SwitchLike` is never
  met.
- `vmp_detector.h` 104 says that each branch is evaluated once. Windows that
  overlap but are too large to merge (`vmp_detector.cpp` 1280-1284) are decoded
  separately, and the sites in both are looked at twice. Candidates are told
  apart by their address, but the counters of virtual calls and excluded thunks
  are not.
- A confirmed runtime "never erases" protection metadata (`README.md` 274); it
  turns a likely VMP that has no closed dispatcher into an interpreter
  (`vmp_detector.cpp` 997).
- One class of runtime evidence is "only a weak hint" (`README.md` 274), but the
  override it needs (`vmp_detector.cpp` 945) is stricter than the one of a
  confirmed runtime: a second class may raise a verdict.
- A protected client has "no local dispatcher" (`README.md` 257); libraries
  with dispatch candidates of their own, below LIKELY_VMP, are linked as well
  (`main.cpp` 1745), and their candidates are dropped.
- One hook name is not to classify without a primitive
  (`tests/custom_linker_detector_tests.cpp` 132); a name that contains a
  primitive, like `PineNativeInlineHook`, does (`custom_linker_detector.cpp` 273).
- SUBS and ANDS are transforms and compares (`vmp_detector.cpp` 64 and 74), and a
  compare has no destination (119); an LDP has one of its two registers (32). So an
  opcode that they overwrite is taken to be there still, and one that passes
  through them is lost: the link between opcode and target is exact where no such
  instruction is on the way (`LinkIsDataFlow`).
- A target that is computed from the opcode by a load is traced to that load:
  the candidate has the trait TARGET_TABLE_LOAD without a table.

Of the scores (the first three are among the `explanations` of `LibraryScores`):

- A ninth import takes "few imports" away and may lower the risk from medium to
  low; one more sign of obfuscation may turn SUSPICIOUS into no evidence.
- A packed library whose code cannot be seen may have a lower risk than before,
  as INCONCLUSIVE replaces a verdict; a hook framework takes the protection
  verdict away.
- A library known by its name alone loses a likely VMP when one class of runtime
  evidence appears, as that class asks for an override of its own and the name
  does not. A loader with the names of other hook frameworks has its scores
  capped once Pine is recognised.
- Whether packing obscures the code is computed twice, in the same words
  (`main.cpp` 1496 and 1570).
- The functions of the C++ ABI are counted in each symbol table: four of them
  meet the threshold of eight if both tables are there. The name of an import is
  a text as well, and may count as two kinds of runtime evidence.

Of the readers:

- In overlapping PT_LOADs the two lookups of an address may choose different
  segments: one asks for memory size and flags, the other (`main.cpp`,
  `va_to_file_offset`) does not. The warnings of the parser are never shown.
- Symbols with the value zero are passed over in the dynamic table and recorded
  from the section table.
- `miniz.c` 3628 and 3653 say that the last 64 KiB are searched for the end of
  the directory. The step back by a window is computed without a sign: in an
  archive a little longer than one window, with a comment longer than it, the
  next window begins before the file, and the archive does not open.
- A `method` of a record is read with four bytes (`miniz.c` 3941), so that it is
  only zero if the time is.
- After one record with a ZIP64 field, the fields of later ones are looked at in
  `mz_zip_file_stat` only. An entry with no compressed bytes is extracted without writing
  anything. A failed stat may leave an error behind a call that returned true.
- An archive with a prefix opens from a file, and not from memory.

Of the service, its page and its scripts:

- `Stop-ObfuScan.ps1` takes every error of the process query (19-21) for a process
  that is gone, removes the state file (24) and reports that the process is no
  longer running (25). The server may run on, and no later Stop finds it: why
  `LostOnlyByMishaps` counts such queries (`misread`).
- The exclusive bind is to exclude that a process is taken for alive that is not
  (`web_server.py` 204). `Start-ObfuScan.ps1` takes status 200 from whatever listens on
  the port (160), and reports the process it started as healthy (177) while another
  program answers and the server is about to fail its bind. Beside another start, or
  after one that was interrupted, it may be an older server that answers. Hence the
  premises and the last disjunct of `HealthyIsRecorded`.
- `Stop-ObfuScan.ps1` looks at the command line (26-30) and ends the process by its
  number (35): it ends another program if that has got the number in between, and
  any program with the path of `web_server.py` in its command line.
- A client that sends its form a byte at a time keeps its scan slot for as long as
  it likes, as the idle timeout is one of each read (`web_server.py` 239).
- The diagnostic that says why an archive was REJECTED (`main.cpp` 1919) is
  suppressed if 64 warnings about unreadable entries came before it.
- The text of an error on the page stays in the language it was written in.
- A `/status` that answers after `/analyze` overwrites the newer engine state.

## 5. What is proved

Each theorem holds for every value of the constants that satisfies the named
assumptions of its module (`ServiceAssumption`, `LimitsAssumption`,
`ScanAssumption`, ...), which TLC evaluates on every run. Those assumptions say
that sizes are natural numbers, that what can be counted is finite, that the
reserve is no larger than the disk, that at least one diagnostic is kept,
that a word of the code that is a BR or BLR names a register, and a pair of loads two
(`WalkAssumption`),
and that the fields of an archive have the width of their numbers, that a file
is shorter than a signed offset can tell, and that a code of a compressed stream
has 1 to 15 bits (`ReaderAssumption`: `IsArchive`, `IsRecord`, `IsStream`).

**ScanServiceProofs.** `TypeCorrect` by the actions. `SlotsAreConserved`: the
number of free permits and of handlers inside add up; the lemmas `Moves`,
`Stays` and `MovesWithin` say how the two sets of holders change when one
handler changes its phase, and each action is an instance of one of them.
`SlotsAreReturnedClean`: what is left of a job depends on the phase, and a copy
also on whether it could be unlinked (`Tidied`).
`DiskStaysBounded` is not inductive by itself. Its first half is an argument of
reservation. What counts is what is on the disk within the declared lengths
(`Used`, `OnDisk`): what a form has beyond its length is in `excess`, which is
never less than what the files at hand exceed theirs by (`ExcessFits`; `Pile`
sums over the handlers as a set of chunks). What a handler was granted and has not
written is kept as a set of chunks too (`Owed`), and `OwedFits` bounds what is
written together with what is owed; for a form of any length, a chunk that is not
owed is excess (`ChunkIsOwed`). A check of free space grants a request only what fits above the reserve
at that moment; it does not see what the other handlers owe, but these are at
most `MaxScans - 1` (from `SlotsAreConserved`) and owe two uploads each
(`GrantFits`). Its second half pays for what is left behind: a death opens an
account for every handler inside (`Dying`), and `LeaksFit` counts these with
what has been left already, so that the handlers may vanish in any order. It needs
that no copy is longer than the limit, which is the 413 of the copy loop
(`JobFits`).
`ReserveIsKept`, the same bound with one slot, follows.
`ImplementsAdmission` maps each action to a step of
`ScanAdmission` or to a stutter; it needs that a 429 is only ever said as the
single response of a connection (`TellsInv`). `ResponsesStayWhole` follows one
connection through all phases: nothing is said before the way out (`Silent`),
one response at most up to the finally, and a second one is explained by the
first being cut short or by the unlink (`Heard`).

`ShownIsCurrent` is about `WebClient`; its short proof is kept here, beside the
service that the page talks to. `PageInv`
adds that requests under way imply a disabled form (`busy`), that there is one
at most, and that it is the last submission in the language of the page: what
an answer puts on the screen is then current when it arrives.

The scripts of `Deploy` have their proofs in the same module. `DInv` says what a
script that runs alone knows at each of its lines (`Knows`), that at most one is
at work until they overlap (`Alone`), and whose an identifier is that a script holds
(`Identity`): for a start not another program's, for a stop that is about to end it
another program's only if it was given away since the look. The last holds with
overlaps too. `FewLost` counts the servers that no file names against the scripts
that were stopped and the queries that failed. For that it counts a server as
exposed (`Exposed`) from the failed query on, although the file still names it: the
file is `Doomed`. The lemmas
`QuietStep`, `QueryFailsStep`, `SpawnStep`, `EndingStep`, `RunStep`,
`InterruptStep` and `ProcessStep` go through the actions, over `ScriptStep` and
`MachineStep`, which say what the conjuncts need of a step. From it follow
`ServersAreNotLost`, `HealthIsTrue` and `OthersAreLeftAlone`, the last two as facts
about each step.

**ApkScanProofs.** The arithmetic first: `PolicyIsExact`, `BudgetsAreExact` and
`SaturationIsExact` say that the divisions and wrapping subtractions decide as
unbounded integers would. Then one inductive invariant, `ScanInv`: the types,
what the inner archive may look like at each place, `Counting` (at each place,
relevant = results + skipped + candidates left) and `Diagnosing` (each entry
given up on has a diagnostic until an error ends the scan). The last equality
holds only once the selection has started, and only if the candidates fit, which
is why it is stated by places. From it follow `CountersAddUp`,
`StatusIsHonest`, `DiagnosticsAreBounded` and `RejectionsInflateNothing`.

`LimitsHold` adds `LimitInv`. Bytes are inflated after they were accepted by
one of two budgets, and the budget of an inner archive is forgotten with it:
`WorkIsAccepted` therefore charges a full inner budget to each candidate that
has ended (`Ended`), and what is accepted but not yet inflated to the place
where the scan is (`Pending`). It speaks of the steps that scan only, as an
exception clears the counters. `BestElfIsKept` adds `BestInv`: every ELF met has
a position before the current one, which decides ties. Both compare with the
counters of the first invariant, of which relevant = results + skipped +
candidates is the one that bounds `Ended`.

**VmpDetectorProofs.** Of `VmpRegions`: `Inv` again reserves, what is neither
spent nor set aside for the region at hand covers an equal share for each
region to come.
It gives `NoRegionStarves` and `DecodingIsBounded`; `RegionsTypeCorrect`
contains that no window and no merged span leaves its region.
`CoverageIsSound` rests on `Coverage`, whose parts are what a scan owes at any time:
every site in scope of a regular region (one that can be addressed and is within
the site quota) was looked at, waits for its window, or lies within a span
(`Looked`); while nothing is truncated every region so far was regular
(`Undisturbed`), and the sites processed, those of the spans and those that wait
add up to the total (`AllCounted`: `Tallied` says by its partial sums what the
spans hold). That a region within its equal share loses no span is `Roomy`: its
windows are merged whenever they touch, so that its spans are apart and what was
decoded of it lies before what is to come; with the reservation, the next one
is affordable (`SmallIsAffordable`). That no site of a small region is left out
needs that the sampling takes all where it may take all, and `SampledEvenly`
that it never misses its mark: `Halfway` is the invariant of the pass, by
arithmetic on the places `(t * count) \div quota` (`PlacesApart`, `PlacesEnd`).
As the pass is a recursive function, `RecursionExists` first shows that there is
one that satisfies its equation.

Of `VmpVerdict`: `FewSitesNeverSuffice` and `IncompleteScansStayOpen` need
no invariant: they hold of every tally, and are proved of the cascade itself.
The first rests on `IntentNeedsMetadata`: without metadata the intent stays
below the 45 that the shortcut for few sites asks for.
`ExplanationsStayLimited` compares verdicts. `SaysMore(t, x, y)` orders contexts by
what they say for protection, and the lemmas go up the cascade with it: intent
grows (`IntentGrows`), the penalties shrink (`PenaltyShrinks`), hence the score,
every gate, and the verdict (`VerdictGrows`); each explanation that
`ContextIsMonotone` names gives an instance of the order. That a decisive
closed dispatcher is never explained away needs a number: it has a structure
score above what the override asks for, which needs that the tallies are
numbers at all (`CountsInv`: finitely many candidates, each met a natural number
of times).
`MoreSitesNeverExonerate` is the action property `EvidenceNeverExonerates`. It compares
the verdict on two bags of candidates of which one extends the other. Each tally is
written as a number of occurrences (`CountersCount`) or as the greatest of several
(`PeaksAreCrowds`), which grow with the bag (`CountsGrow`); ladders, caps and
maxima preserve that (`TierGrows`, `StructureGrows`). The penalties do not: a
first site may bring the penalty of a confirmed runtime, or that of a single
candidate, on itself. But wherever there is a verdict to lose, the structure
score is above what the first one asks for and another strong site, or metadata,
is there (`VerdictNeedsEvidence`), so that they fall as well (`PenaltyFalls`).
A site that adds to the strong ones is no switch, no virtual call, and no
callback through an advanced pointer (`StrongSites`), so that the tallies that
speak for another explanation stay as they were.

**VmpWalkProofs.** The invariant is small: the instructions are words of the
code in the order of their addresses (`WInv`). The three theorems are about the
functions that the walk evaluates at a site, on any sequence of instructions.
`Tainted`, `Derived` and `Trace` are recursive functions of one argument, so
that `RecursionExists` shows that each satisfies its equation (`TaintedFlows`,
`DerivedIsChain`, `TraceTraces`). What these equations say of a place is then
proved by its least counterexample.

`LinksAreDataFlow` is `LinkIsDataFlow`, in its two parts. A register is tainted
before an instruction exactly if its last definition since the fetch, as the
detector sees it, is derived from the fetch (`LastDestIs`, `TaintMeans`), where a
definition is derived exactly if the taint propagates through it
(`ChainPropagates`, `StepIsChain`, `DerivedIsChain`): this is the chain of what the
code takes in (`LinkTakenIn`), and holds of any instructions. Where they are all
plain, what is taken in is what the program assigns and reads (`PlainIsTakenIn`).

`BlocksAreJudgedAlone` compares the code with its tail (`Remains`) from a place that
nothing flows into. The look-back never reaches past such a place, so that the
block is the same one, moved (`TailBlock`); so are the fetches, the taint, the way
back from the target, and all that is said of the site (`TailSaid`).

`DecoysAreSeenThrough` compares the code with and without one load (`Dropped`).
What the load writes is used by nobody, so that the taint is the same but for
that register (`DropTaint`) and the load does not lead to the target
(`LoadGoesNowhere`). It may be the nearest load with a pointer that moves on, but
it is never among those that reach the target; a strong site has one of these, and
`OpcodeFetch` prefers them (`DropOpcodeFetch`). A fetch of the handler itself
writes the register of the jump, which the load does not (`DropDirectFetch`).

**RiskReportProofs.** `RInv` describes each result during linking as what the
linker makes of its original with the providers as they were copied
(`Treated`), and the final report as a permutation of these. Then
`LabelsMatch` is a fact about `Analyzed` and `Linked`, `ClientsAreExact` one
about `Edges`, and `ReportIsRanked` one about `Before`. That a best edge
exists (`BestEdgeExists`) needs that imports are finite. `NothingIsLost` and
`ProvidersKeepStanding` read both from the permutation (`PlaceOf`): linking
changes neither name nor symbols (`TreatedFields`), never lowers a rank
(`TreatedRank`), and leaves a likely VMP as it is.

**LibraryProofs.** Of the linker detector: all axes, gates and scores are
monotone in the evidence (`AxesGrow`, `SumsGrow`, `GatesGrow`), for any sets of
texts; `MoreNeverLowers` and `HookHidesNoLoader` follow for the steps.
`PackingIsNoProof` compares two libraries that differ in the packing alone
(`OnlyPacking`): no axis and no gate looks at it.

Of the whole analysis, the invariant is `Reported`: the report is that of the
evidence met so far, which is finite. The rest is about `Report`.
`StrongestRuntimeIsReported` goes through the families in the order of the code:
after each, the best so far is of one considered (`OfFamily`) and none before it
is better (`Unbeaten`). The loop is a recursive function; `RecursionExists`
shows, from the least number that would be a counterexample (`LeastNatural`), that
there is one that satisfies its equation.

`MoreEvidenceMoreRisk` is `RiskNeverFalls`. An image that shows more
(`ShowsMore`) has higher scores (`PackerGrows`, `OllvmGrows`), a linker outcome
of no lower rank (`LinkerGrows`), and at least as many classes of runtime
evidence (`RuntimeGrows`). Where its explanations are no more (`Unexplained`),
its context presses in every way at least as hard (`Presses`, `ContextPresses`),
and through the cascade of the VMP detector so do intent, penalty, score, gates
and outcome (`IntentPresses` to `OutcomePresses`). What the findings then say is no
better in any respect (`Worse`), and neither caps nor label nor risk turn that
around (`ScoresOfWorse`, `WorseIsRiskier`). The attempt to prove it found two
explanations that no run had met: the weak class of runtime evidence, and a hook
framework that is recognised (see above). Both are in the list now, and the run
has a library for each.

**ZipReaderProofs.** `CheckedDoesNotWrap`: if the test by division passes,
the product does not wrap. With it `BInv` bounds what is counted and what each
block was asked for. `BudgetHolds` states `WithinBudget` of a library that may
ask for anything. `ReaderUsesAllocator` says that the reader of `ZipReader` is such a
library: each of its steps is one operation of the allocator or leaves the
account alone, so that `ReaderSpec` implements `Spec`, and `ReaderWithinBudget`
follows without a word about archives.
`ReaderLeaksNothing` follows the blocks: `Held` says which may be live at each
place of the library, and `HeldInv` that the account is what they cost. Each way to
fail leads to a place that may hold less, which is where a forgotten free would
break the proof. `IndexLeadsToRecords`: from the moment it is appended, each
offset leads to a whole record (`Whole`) of the directory, and the block of the
directory is as long as the end record says (`IndexInv`); neither changes while
the block is live.

`EntriesComeOutExactly` is `EntriesExact`, for every archive, every stream, and every
size of the pieces. It has three invariants on top of `IndexInv`.
- `DecoderOk` keeps the coroutine in step with the reading of the whole stream.
  Between two tokens, and in the middle of one, the output and the two registers
  are those of the reading before the token (`Agrees`), and the position of the
  reading is what the decoder has been given less what is in its bit buffer.
  What is in the buffer beyond the bytes of the present piece belongs to a token
  that has begun (`Middle`): this is why the bytes taken ahead can always be put back,
  and why none of an earlier piece has to be. `WantedIs` says that the fast and
  the slow path take enough for a token, and find too little only if there is too
  little; `Paced` is what the second of two literals needs for that. Each action
  then is one token of the reading (`Resumes`, `RawBytes`, `Literals`,
  `Matches`, `Finishes`), or leaves; and it leaves only if it waits in the
  middle of a token for input that is still to come, or if the reading fails or
  outgrows the buffer, which nothing that follows repairs (`DoomIsFinal`).
  `InflateStep` puts the actions together. As a reading is a recursive function,
  `ReadsExist` first shows that there is one that satisfies its equation.
- `PlaceInv` says where in the file the archive begins and ends, and that an index
  leads to records even when the block of the directory is gone. With it,
  `ReadableIs` says which reads succeed and `DataIs` where the data are.
- `JobInv` follows an extraction: what was looked up in the record, that the data
  lie inside (`Located`), that the decoder has what is left of them to come
  (`Decoding`), and what came out (`Outcome`). A failure without a fault must
  mean that the entry is not sound (`SoundIsLocal`, `SoundIsData`), which is
  half of the work: the checks of the library are neither too weak nor too strict.

That the decoder asks for more only when its piece is used up and another one
follows is a step of this proof (`JobContinues`): the branch of the code that
calls it again with the rest of a piece is never taken.

`EveryCallIsFinite` is `CallsAreFinite`, the variant behind `CallsReturn`: each step of
a call lowers a rank of three natural numbers
(`RankFalls`), compared from the left, which cannot fall for ever.
Most steps lead to a later place (`OthersGoOn`). A record that was read leaves
fewer to come (`RecordIsUsed`, with `CountInv`), a piece fewer bytes
(`PieceIsUsed`: neither a buffer nor a rest of size 0 gets that far), a step of
the decoder leaves it or one token on (`TokenIsUsed`), and when it asks for more it
goes back to a fetch (`MoreIsFetched`). Only that the program can take a step
wherever a call is in progress, and does, is left to TLC.

**ElfDynamicProofs.** For files whose numbers are any below `Top`. A span is a
piece of one PT_LOAD that the file has (`SpanIsBacked`, from `FitsMeans`: the
comparisons of the code, in their order, decide as sums without a wrap-around
would); all that is read is a part of a span that was asked for with its size
(`NothingOutsideIsRead`, `ReadsInv`). `AddressesAreRight` adds that, where segments are disjoint, an
address has one segment (`OneSegmentHolds`), so that the lookup of the parser
and the one of `main.cpp` agree (`EntryInv`). `CountsTellTheTruth`: a table
that is complete is mapped as a whole in one segment, and where the lookup of
an entry finds another segment it still finds one (`TableHoldsItsSymbols`); the end
of the last chain of a GNU hash table is the number of symbols, as chains lie
one after the other (`LastChainEnds`). `TablesAreJudgedAlone` goes through the
three tables (`RejectInv`): after each of them the result is the union of what
the sound ones say (`Evidence`), and a warning stands for each that is broken.
`GnuCountExact` speaks of tables as a linker lays them out (`Linked`); of others
only what was read is claimed.

### Model-checked only

- Liveness: `SlotsReturned`, `EveryScanConcludes`, `CallsReturn`. The prover has
  no support for `ENABLED`, so fairness cannot be used in it.

Every other property of the passing runs, 37 of 40, is a theorem.

No module has a RECURSIVE operator.

### Proved only

These are proved for all constants and are not repeated in the runs: `TypeOK`
and `ReserveKept` of `ScanService`; `ScanTypeOK`, `DiagnosticsBounded` and
`RejectedBeforeExtraction` of `ApkScan`, and that its arithmetic is exact
(`PolicyIsExact`, `BudgetsAreExact`); `RegionsTypeOK` and the bound on decoding
of `VmpRegions`; `FewSitesAreNotEnough` of `VmpVerdict`; `Ranked` of
`RiskReport`; `HookHidesNoLoader` of `CustomLinker`; `NoShortBlock`, the
refinement of `AllocBudget` by `ZipReader`; `DInv` of `Deploy`.

## 6. What is not modelled, and why

- *JSON report*: formats results in two languages, without decisions. The texts
  of the page are left out for the same reason.
- *Library names*: rules that are loaded once and matched with file names; the
  rules are not part of this tree.
- *Tests and build*: they are read as statements about the program.
- *ELF header, section headers and notes* (`main.cpp` 551-704): a linear reading
  of a fixed table, next in the plan. What it tells is an input of
  `LibraryScores`.
- *Which symbol table a name is from* (`main.cpp` 1208-1268): the two are read with
  different conditions (a value of zero) and then merged; `LibraryScores` begins with
  the merged imports and leaves exports out. That a protector may remove the section
  headers changes more than the symbols (1064, 1120, 1453, 1593): nothing is said of it.
- *Capstone*: `disasm_arm64.cpp` sets it up and passes its answers on. The words
  that it makes of bytes are the input of `VmpWalk`; its own decoding is
  external.
- *miniz beyond the reader*: writing, compressing, and the iterators are never
  called. Within the decoder the tables that speed up Huffman codes are left
  out: a code is looked up in what it stands for.
- *Entropy and bucket statistics*: measured numbers, inputs of `LibraryScores`.
- *Memory of the process* beyond the inflated files (`WithinLimits`) and the
  archive directories (`AllocBudget`, `ZipReader`).
- *The proxy* in front of the service, and *signals* other than the death of the
  server.
- *Windows*: which identifier it gives to a new process is any one that is free
  and not held by a start. A process that is ended is gone at once.
- *`cgi.FieldStorage`*: external; its parts and limits are the choice of
  `ReceiveChunk`, `UploadEnds`, `RejectForm` and `WorkFails`.
