------------------------------- MODULE ApkScan -------------------------------
(***************************************************************************)
(* One run of the scanner (main.cpp): it lists the archive, selects the    *)
(* candidate libraries, inflates and analyses them one by one, looks into  *)
(* libraries that are archives themselves, and reports.  What the archive  *)
(* holds is chosen when the scanner reads it; malloc may fail at any time. *)
(* The analysis of one library is abstracted to how it ends.               *)
(***************************************************************************)
EXTENDS ApkScanLimits, Sequences

CONSTANTS
  Payloads,         \* metadata an entry may declare
  MaxZipEntries, MaxCandidateSoEntries, MaxSingleSoBytes, MaxTotalRelevantSoBytes,
  MaxInnerZipEntries, MaxSingleInnerEntryBytes, MaxTotalInnerEntryBytes,
  MaxRecordedDiagnostics,
  MaxArchive        \* bound: entries of an archive, outer or inner

ASSUME ScanAssumption ==
  /\ Payloads \subseteq ZipPayloadMetadata
  /\ {MaxZipEntries, MaxCandidateSoEntries, MaxSingleSoBytes, MaxTotalRelevantSoBytes,
      MaxInnerZipEntries, MaxSingleInnerEntryBytes, MaxTotalInnerEntryBytes,
      MaxRecordedDiagnostics, MaxArchive} \subseteq U64
  /\ MaxRecordedDiagnostics > 0

VARIABLES
  pc,           \* what the scanner is doing
  left,         \* entries of the archive not yet listed
  candidates,   \* candidates still to be scanned, in archive order
  report,       \* the counters of ApkScanReport; error: an error is among those recorded
  results,      \* how the analysis of each analysed library ended
  inner,        \* the archive inside the current candidate
  unseen,       \* history: entries the scan gave up on, of archives at any depth
  inflated,     \* history: bytes inflated so far
  elves         \* history: ELF files found in the current inner archive

ghosts == <<unseen, inflated, elves>>
vars == <<pc, left, candidates, report, results, inner, ghosts>>

-----------------------------------------------------------------------------
EmptyReport == [status |-> "OK", relevant |-> 0, analyzed |-> 0, skipped |-> 0, accepted |-> 0,
                recorded |-> 0, suppressed |-> 0, error |-> FALSE]

(* Of an ELF file: whether it is for arm64, its size, and how many entries *)
(* were left with it.                                                      *)
NoRank == [arm |-> 0, size |-> 0, left |-> 0]

(* left: entries to come; tmp, best: bytes of the entry at hand and of the *)
(* best ELF, which has this rank; failed: failure_code is set.             *)
NoInner == [left |-> 0, accepted |-> 0, tmp |-> 0, best |-> 0, rank |-> NoRank, failed |-> FALSE]

Found == inner.rank # NoRank

Recorded(r, severity) ==
  [r EXCEPT !.recorded = @ + 1, !.error = @ \/ severity = "error"]
record_scan_diagnostic(r, severity) ==
  IF r.recorded < MaxRecordedDiagnostics
  THEN Recorded(r, severity) ELSE [r EXCEPT !.suppressed = @ + 1]

Stop(r, status) == record_scan_diagnostic([r EXCEPT !.status = status], "error")
Warn(r) == record_scan_diagnostic(r, "warning")

Init ==
  /\ pc = "open" /\ left = 0 /\ candidates = <<>> /\ results = <<>>
  /\ report = EmptyReport /\ inner = NoInner
  /\ unseen = 0 /\ inflated = 0 /\ elves = {}

-----------------------------------------------------------------------------
(* Opening and listing the archive. *)

(* The file is too large, or its directory needs more memory than allowed; *)
(* or it is no archive; or it has too many entries.                        *)
Refuse ==
  /\ pc = "open" /\ pc' = "sort"
  /\ \E status \in {"REJECTED", "ERROR"} : report' = Stop(report, status)
  /\ UNCHANGED <<left, candidates, results, inner, ghosts>>

Open ==
  /\ pc = "open" /\ pc' = "list"
  /\ left' \in 0 .. MaxArchive /\ left' <= MaxZipEntries
  /\ UNCHANGED <<candidates, report, results, inner, ghosts>>

StatFails ==
  /\ pc = "list" /\ left > 0 /\ left' = left - 1
  /\ report' = Warn(report)
  /\ unseen' = unseen + 1
  /\ UNCHANGED <<pc, candidates, results, inner, inflated, elves>>

(* A directory, or not a library path. *)
ListOther ==
  /\ pc = "list" /\ left > 0 /\ left' = left - 1
  /\ UNCHANGED <<pc, candidates, report, results, inner, ghosts>>

ListLibrary(p) ==
  /\ pc = "list" /\ left > 0 /\ left' = left - 1
  /\ report' = [report EXCEPT !.relevant = @ + 1]
  /\ candidates' = IF Len(candidates) < MaxCandidateSoEntries
                   THEN Append(candidates, p) ELSE candidates
  /\ UNCHANGED <<pc, results, inner, ghosts>>

CandidatesFit == report.relevant <= MaxCandidateSoEntries

RejectCandidates ==
  /\ pc = "list" /\ left = 0 /\ ~CandidatesFit
  /\ pc' = "sort"
  /\ report' = Stop([report EXCEPT !.skipped = report.relevant], "REJECTED")
  /\ UNCHANGED <<left, candidates, results, inner, ghosts>>

StartCandidates ==
  /\ pc = "list" /\ left = 0 /\ CandidatesFit
  /\ pc' = "select"
  /\ UNCHANGED <<left, candidates, report, results, inner, ghosts>>

-----------------------------------------------------------------------------
(* One candidate after the other. *)

Bytes(p) == p.uncompressed_bytes
NoSizeLimit(p) == evaluate_zip_payload(p, MaxU64)                  \* mutant
SoDecision(p) == evaluate_zip_payload(p, MaxSingleSoBytes)
SoFits(p) == fits_cumulative_budget(report.accepted, Bytes(p), MaxTotalRelevantSoBytes)

Dropped(r) == Warn(r)                            \* mutant
Skipped(r) == Warn([r EXCEPT !.skipped = @ + 1])

(* The current candidate ends; the next one is selected. *)
NextCandidate == pc' = "select" /\ candidates' = Tail(candidates) /\ inner' = NoInner /\ elves' = {}

SkipCandidate ==
  /\ NextCandidate
  /\ report' = Skipped(report)
  /\ unseen' = unseen + 1
  /\ UNCHANGED <<left, results>>

RefuseCandidate ==
  /\ pc = "select" /\ candidates # <<>>
  /\ SoDecision(Head(candidates)) # "allow" \/ ~SoFits(Head(candidates))
  /\ SkipCandidate
  /\ UNCHANGED inflated

(* The bytes count as accepted before it is known whether they can be had. *)
AcceptCandidate ==
  /\ pc = "select" /\ candidates # <<>>
  /\ SoDecision(Head(candidates)) = "allow" /\ SoFits(Head(candidates))
  /\ pc' = "load"
  /\ report' = [report EXCEPT !.accepted = @ + Bytes(Head(candidates))]
  /\ UNCHANGED <<left, candidates, results, inner, ghosts>>

(* No memory, or miniz cannot inflate the entry. *)
LoadFails ==
  /\ pc = "load"
  /\ SkipCandidate
  /\ \E n \in {0, Bytes(Head(candidates))} : inflated' = inflated + n

Load ==
  /\ pc = "load" /\ pc' = "analyze"
  /\ inflated' = inflated + Bytes(Head(candidates))
  /\ UNCHANGED <<left, candidates, report, results, inner, unseen, elves>>

(* analyze_so throws, wherever it is. *)
AnalysisFails ==
  /\ pc \in {"analyze", "inner"}
  /\ SkipCandidate
  /\ UNCHANGED inflated

AddResult(ending) ==
  /\ NextCandidate
  /\ results' = Append(results, ending)
  /\ UNCHANGED <<left, report, unseen, inflated>>

AnalyzeFile == pc = "analyze" /\ AddResult("file")

-----------------------------------------------------------------------------
(* extract_first_elf_from_zip_buffer: the candidate is an archive itself.  *)

(* The inner archive, or one entry of it, cannot be looked at. *)
ReportInner(i) ==
  /\ inner' = [i EXCEPT !.failed = TRUE]
  /\ report' = Warn(report)
  /\ unseen' = unseen + 1

(* It cannot be opened, or has too many entries. *)
RefuseInner ==
  /\ pc = "analyze" /\ pc' = "inner"
  /\ ReportInner(inner)
  /\ UNCHANGED <<left, candidates, results, inflated, elves>>

OpenInner ==
  /\ pc = "analyze" /\ pc' = "inner"
  /\ \E n \in 0 .. MaxArchive : n <= MaxInnerZipEntries /\ inner' = [inner EXCEPT !.left = n]
  /\ UNCHANGED <<left, candidates, report, results, ghosts>>

InnerDecision(p) == evaluate_zip_payload(p, MaxSingleInnerEntryBytes)
InnerFits(p) == fits_cumulative_budget(inner.accepted, Bytes(p), MaxTotalInnerEntryBytes)
EntryAtHand == inner.left > 0
NextInner == [inner EXCEPT !.left = @ - 1, !.tmp = 0]

(* A directory or an empty entry. *)
InnerNothing ==
  /\ pc = "inner" /\ EntryAtHand /\ inner.tmp = 0
  /\ inner' = NextInner
  /\ UNCHANGED <<pc, left, candidates, report, results, ghosts>>

(* stat fails, or the declared metadata is refused. *)
InnerRefused ==
  /\ pc = "inner" /\ EntryAtHand /\ inner.tmp = 0
  /\ ReportInner(NextInner)
  /\ UNCHANGED <<pc, left, candidates, results, inflated, elves>>

InnerAllowed(p) == InnerDecision(p) = "allow" /\ InnerFits(p)

InnerAccepted(p) ==
  /\ pc = "inner" /\ EntryAtHand /\ inner.tmp = 0
  /\ InnerAllowed(p)
  /\ inner' = [inner EXCEPT !.accepted = @ + Bytes(p), !.tmp = Bytes(p)]
  /\ UNCHANGED <<pc, left, candidates, report, results, ghosts>>

(* No memory, or miniz cannot inflate the entry. *)
InnerLoadFails ==
  /\ pc = "inner" /\ inner.tmp > 0
  /\ ReportInner(NextInner)
  /\ \E n \in {0, inner.tmp} : inflated' = inflated + n
  /\ UNCHANGED <<pc, left, candidates, results, elves>>

(* The code adds 2^62 to the size of an arm64 file. *)
Largest(r, s) == r.size > s.size                                   \* mutant
Better(r, s) == r.arm > s.arm \/ (r.arm = s.arm /\ r.size > s.size)

InnerElf ==
  /\ pc = "inner" /\ inner.tmp > 0
  /\ \E arm \in {0, 1} :
       LET rank == [arm |-> arm, size |-> inner.tmp, left |-> inner.left]
       IN  /\ inner' = IF ~Found \/ Better(rank, inner.rank)
                       THEN [NextInner EXCEPT !.best = inner.tmp, !.rank = rank]
                       ELSE NextInner
           /\ elves' = elves \cup {rank}
  /\ inflated' = inflated + inner.tmp
  /\ UNCHANGED <<pc, left, candidates, report, results, unseen>>

InnerOther ==
  /\ pc = "inner" /\ inner.tmp > 0
  /\ inner' = NextInner
  /\ inflated' = inflated + inner.tmp
  /\ UNCHANGED <<pc, left, candidates, report, results, unseen, elves>>

(* The best ELF is analysed in place of the library; without one the       *)
(* result says whether the archive could be searched.                      *)
Searched == inner.left = 0
InnerEnds ==
  /\ pc = "inner" /\ Searched
  /\ AddResult(IF Found THEN "inner" ELSE IF inner.failed THEN "partial" ELSE "packed")

-----------------------------------------------------------------------------
(* The end of the scan, and main. *)

(* Protected clients are linked; the status follows the diagnostics. *)
AnySkipped == report.skipped > 0                                   \* mutant
AnyDiagnostic == report.recorded > 0 \/ report.suppressed > 0
FinalStatus == IF AnyDiagnostic THEN "PARTIAL" ELSE report.status
Link ==
  /\ pc = "select" /\ candidates = <<>>
  /\ pc' = "sort"
  /\ report' = [report EXCEPT !.analyzed = Len(results), !.status = FinalStatus]
  /\ UNCHANGED <<left, candidates, results, inner, ghosts>>

Sort ==
  /\ pc = "sort" /\ pc' = "done"
  /\ report' = [report EXCEPT !.analyzed = Len(results)]
  /\ UNCHANGED <<left, candidates, results, inner, ghosts>>

(* An exception outside of a candidate's own try reaches main, which       *)
(* starts the report afresh.                                               *)
ScanThrows ==
  /\ pc # "done"
  /\ pc' = "done"
  /\ report' = Stop(EmptyReport, "ERROR")
  /\ results' = <<>>
  /\ UNCHANGED <<left, candidates, inner, ghosts>>

Progress ==
  \/ Refuse \/ Open \/ StatFails \/ ListOther \/ RejectCandidates \/ StartCandidates
  \/ \E p \in Payloads : ListLibrary(p) \/ InnerAccepted(p)
  \/ RefuseCandidate \/ AcceptCandidate \/ LoadFails \/ Load \/ AnalyzeFile
  \/ RefuseInner \/ OpenInner \/ InnerNothing \/ InnerRefused
  \/ InnerLoadFails \/ InnerElf \/ InnerOther \/ InnerEnds
  \/ Link \/ Sort

Next == Progress \/ AnalysisFails \/ ScanThrows

Spec == Init /\ [][Next]_vars

-----------------------------------------------------------------------------
Statuses == {"OK", "PARTIAL", "REJECTED", "ERROR"}
Ranks == [arm : {0, 1}, size : U64, left : Nat]
Reports == [status : Statuses, relevant : Nat, analyzed : Nat, skipped : Nat,
            accepted : Nat, recorded : Nat, suppressed : Nat, error : BOOLEAN]
Inners == [left : Nat, accepted : Nat, tmp : U64, best : U64, rank : Ranks, failed : BOOLEAN]

(* Every variable has the type its comment gives it. *)
ScanTypeOK ==
  /\ pc \in {"open", "list", "select", "load", "analyze", "inner", "sort", "done"}
  /\ left \in Nat /\ candidates \in Seq(Payloads)
  /\ report \in Reports
  /\ results \in Seq({"file", "inner", "partial", "packed"})
  /\ inner \in Inners
  /\ unseen \in Nat /\ inflated \in Nat /\ elves \subseteq Ranks

(* The counters of a finished report add up: every relevant library of the *)
(* archive was analysed, and has a result, or is counted as skipped;       *)
(* whatever was refused, failed to load, threw, or ended the scan.         *)
Accounted ==
  pc = "done" => /\ report.analyzed = Len(results)
                 /\ report.analyzed + report.skipped = report.relevant

(* "OK" means that no entry escaped the scan, in the archive or in one     *)
(* inside it; "PARTIAL" that some did, each with a diagnostic, recorded or *)
(* counted as suppressed; the other two come with no results and with a    *)
(* diagnostic.                                                             *)
HonestStatus ==
  pc = "done" =>
    /\ report.status \in {"OK", "PARTIAL"} => report.recorded + report.suppressed = unseen
    /\ report.status = "OK" => unseen = 0
    /\ report.status = "PARTIAL" => unseen > 0
    /\ report.status \in {"REJECTED", "ERROR"} => results = <<>> /\ report.recorded > 0

(* At most 64 diagnostics are kept, and none is suppressed before that. *)
DiagnosticsBounded ==
  /\ report.recorded <= MaxRecordedDiagnostics
  /\ report.suppressed > 0 => report.recorded = MaxRecordedDiagnostics

(* README: an input that crosses a hard limit is rejected before large-    *)
(* scale extraction.  Nothing at all is inflated.                          *)
RejectedBeforeExtraction == report.status = "REJECTED" => inflated = 0

(* The inflated files held at any moment are bounded by the limits on one  *)
(* entry: a library, and inside it the best ELF and the entry at hand.     *)
Held == (IF pc \in {"load", "analyze", "inner"} THEN Bytes(Head(candidates)) ELSE 0)
          + inner.tmp + inner.best
MemoryBounded == Held <= MaxSingleSoBytes + 2 * MaxSingleInnerEntryBytes

(* All that one run inflates is bounded by the cumulative limits, however  *)
(* many attempts fail: failed ones count too.                              *)
WorkBounded ==
  inflated <= MaxTotalRelevantSoBytes + MaxCandidateSoEntries * MaxTotalInnerEntryBytes

(* An archive costs no more than the limits say, in memory and in work.    *)
WithinLimits == MemoryBounded /\ WorkBounded

(* Of an archive inside a library the ELF analysed is one for arm64 if     *)
(* there is any, then the largest, then the first.                         *)
BestElf ==
  Found => /\ inner.rank \in elves /\ inner.best = inner.rank.size
           /\ \A e \in elves \ {inner.rank} :
                /\ e.arm <= inner.rank.arm
                /\ e.arm = inner.rank.arm => e.size <= inner.rank.size
                /\ e.arm = inner.rank.arm /\ e.size = inner.rank.size => e.left < inner.rank.left
=============================================================================
