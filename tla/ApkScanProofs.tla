---------------------------- MODULE ApkScanProofs ----------------------------
(***************************************************************************)
(* What the scanner promises, for every archive, every value of the limits *)
(* and every sequence of failures: its arithmetic is exact, its counters   *)
(* add up, its status is honest, a rejected archive is not inflated, what  *)
(* is inflated stays within the limits, and of an archive inside a library *)
(* the best ELF is analysed.  The invariants behind them relate the        *)
(* counters, the candidates still to come and the diagnostics, and then    *)
(* the bytes inflated and the budgets they were accepted under.            *)
(***************************************************************************)
EXTENDS ApkScan, TLAPS

-----------------------------------------------------------------------------
(* The arithmetic of the limits. *)

LEMMA WrapIsIdentity ==
  ASSUME NEW n \in U64 PROVE Wrap(n) = n
<1>1. MaxU64 \in Nat BY LimitsAssumption
<1> QED BY <1>1 DEF Wrap, U64

(* Quotient and remainder decide as the product would. *)
LEMMA RatioBound ==
  ASSUME NEW u \in Nat, NEW c \in Nat \ {0}, NEW R \in Nat
  PROVE  (u \div c > R \/ (u \div c = R /\ u % c # 0)) <=> u > R * c
<1>1. u = c * (u \div c) + (u % c) /\ u % c \in 0 .. c - 1 /\ u \div c \in Nat
  OBVIOUS
<1> QED BY <1>1

(* For all sizes and limits the policy allows exactly the entries that the *)
(* documented limits allow; the division cannot be off by one.             *)
THEOREM PolicyIsExact ==
  ASSUME NEW m \in ZipPayloadMetadata, NEW limit \in U64
  PROVE  AllowIsExact(m, limit)
<1> DEFINE u == m.uncompressed_bytes
           c == m.compressed_bytes
<1>1. u \in Nat /\ c \in Nat /\ m.encrypted \in BOOLEAN /\ m.supported \in BOOLEAN
  BY LimitsAssumption DEF ZipPayloadMetadata, U64
<1>2. MaxRatio \in Nat /\ RatioFloor \in Nat \ {0} /\ limit \in Nat
  BY LimitsAssumption DEF U64
<1>3. u > 0 => (ExtremeRatio(m) <=> u > MaxRatio * c)
  <2>1. CASE c = 0 BY <1>1, <1>2, <2>1 DEF ExtremeRatio
  <2>2. CASE c # 0
    <3>1. ExtremeRatio(m) <=> (u \div c > MaxRatio \/ (u \div c = MaxRatio /\ u % c # 0))
      BY <2>2 DEF ExtremeRatio
    <3> QED BY <3>1, <1>1, <1>2, <2>2, RatioBound
  <2> QED BY <2>1, <2>2
<1> DEFINE product == MaxRatio * c
<1>4. product \in Nat BY <1>1, <1>2
<1>5. CASE u = 0 \/ m.encrypted \/ ~m.supported
  BY <1>1, <1>2, <1>5 DEF AllowIsExact, evaluate_zip_payload
<1>6. CASE u # 0 /\ ~m.encrypted /\ m.supported
  <2>1. u > 0 BY <1>1, <1>6
  <2>2. evaluate_zip_payload(m, limit) =
          IF u > limit THEN "too large"
          ELSE IF u >= RatioFloor /\ ExtremeRatio(m) THEN "extreme ratio" ELSE "allow"
    BY <1>1, <1>6, <2>1 DEF evaluate_zip_payload
  <2>3. evaluate_zip_payload(m, limit) = "allow"
          <=> ~(u > limit) /\ ~(u >= RatioFloor /\ ExtremeRatio(m))
    BY <2>2
  <2>4. ExtremeRatio(m) <=> u > product BY <1>3, <2>1
  <2> HIDE DEF product
  <2>5. ~(u > limit) <=> u \in 1 .. limit BY <1>1, <1>2, <2>1
  <2>6. ~(u >= RatioFloor /\ u > product) <=> u < RatioFloor \/ u <= product
    BY <1>1, <1>2, <1>4
  <2>7. AllowIsExact(m, limit) <=>
          (evaluate_zip_payload(m, limit) = "allow"
             <=> u \in 1 .. limit /\ (u < RatioFloor \/ u <= product))
    BY <1>6 DEF AllowIsExact, product
  <2> QED BY <2>3, <2>4, <2>5, <2>6, <2>7
<1> QED BY <1>5, <1>6

(* The subtraction of fits_cumulative_budget decides as the sum that       *)
(* cannot wrap, for all three of its arguments.                            *)
THEOREM BudgetsAreExact ==
  ASSUME NEW already \in U64, NEW candidate \in U64, NEW maximum \in U64
  PROVE  FitIsExact(already, candidate, maximum)
<1>1. MaxU64 \in Nat BY LimitsAssumption
<1>2. CASE already <= maximum
  <2>1. maximum - already \in U64 BY <1>1, <1>2 DEF U64
  <2>2. Wrap(maximum - already) = maximum - already BY <2>1, WrapIsIdentity
  <2> QED BY <1>1, <1>2, <2>2 DEF FitIsExact, fits_cumulative_budget, U64
<1>3. CASE already > maximum
  BY <1>1, <1>3 DEF FitIsExact, fits_cumulative_budget, U64
<1> QED BY <1>1, <1>2, <1>3 DEF U64

(* saturating_add_u64 is the sum, or the top.                              *)
THEOREM SaturationIsExact ==
  ASSUME NEW lhs \in U64, NEW rhs \in U64
  PROVE  SaturatingIsExact(lhs, rhs)
<1>1. MaxU64 \in Nat BY LimitsAssumption
<1>2. MaxU64 - lhs \in U64 BY <1>1 DEF U64
<1>3. Wrap(MaxU64 - lhs) = MaxU64 - lhs BY <1>2, WrapIsIdentity
<1>4. CASE rhs > MaxU64 - lhs
  BY <1>1, <1>3, <1>4 DEF SaturatingIsExact, saturating_add_u64, U64
<1>5. CASE rhs <= MaxU64 - lhs
  <2>1. lhs + rhs \in U64 BY <1>1, <1>5 DEF U64
  <2>2. Wrap(lhs + rhs) = lhs + rhs BY <2>1, WrapIsIdentity
  <2> QED BY <1>1, <1>3, <1>5, <2>2 DEF SaturatingIsExact, saturating_add_u64, U64
<1> QED BY <1>1, <1>4, <1>5 DEF U64

-----------------------------------------------------------------------------
(* Types. *)

LEMMA U64IsNatural == U64 \subseteq Nat /\ 0 \in U64
BY LimitsAssumption DEF U64

LEMMA LimitsAreNatural ==
  /\ MaxZipEntries \in Nat /\ MaxCandidateSoEntries \in Nat /\ MaxSingleSoBytes \in Nat
  /\ MaxTotalRelevantSoBytes \in Nat /\ MaxInnerZipEntries \in Nat
  /\ MaxSingleInnerEntryBytes \in Nat /\ MaxTotalInnerEntryBytes \in Nat
  /\ MaxRecordedDiagnostics \in Nat \ {0} /\ MaxArchive \in Nat
<1>1. {MaxZipEntries, MaxCandidateSoEntries, MaxSingleSoBytes, MaxTotalRelevantSoBytes,
       MaxInnerZipEntries, MaxSingleInnerEntryBytes, MaxTotalInnerEntryBytes,
       MaxRecordedDiagnostics, MaxArchive} \subseteq Nat
  BY ScanAssumption, U64IsNatural
<1>2. MaxRecordedDiagnostics > 0 BY ScanAssumption
<1> QED BY <1>1, <1>2

LEMMA BytesIsU64 ==
  ASSUME NEW p \in Payloads PROVE Bytes(p) \in U64 /\ Bytes(p) \in Nat
BY ScanAssumption, U64IsNatural DEF Bytes, ZipPayloadMetadata

LEMMA RecordedIsReport ==
  ASSUME NEW r \in Reports, NEW n \in Nat, NEW e \in BOOLEAN
  PROVE  [r EXCEPT !.recorded = n, !.error = e] \in Reports
BY DEF Reports

LEMMA ReportUpdates ==
  ASSUME NEW r \in Reports, NEW n \in Nat
  PROVE  /\ [r EXCEPT !.relevant = n] \in Reports /\ [r EXCEPT !.accepted = n] \in Reports
         /\ [r EXCEPT !.analyzed = n] \in Reports 
         /\ \A s \in Statuses : [r EXCEPT !.analyzed = n, !.status = s] \in Reports
BY DEF Reports

(* DiagnosticsBounded, of any report. *)
Bounded(r) ==
  /\ r.recorded <= MaxRecordedDiagnostics
  /\ r.suppressed > 0 => r.recorded = MaxRecordedDiagnostics

(* What recording a diagnostic changes, and what it leaves alone. *)
LEMMA RecordFacts ==
  ASSUME NEW r \in Reports, NEW severity
  PROVE  LET d == record_scan_diagnostic(r, severity)
         IN  /\ d \in Reports
             /\ d.status = r.status /\ d.relevant = r.relevant /\ d.analyzed = r.analyzed
             /\ d.skipped = r.skipped /\ d.accepted = r.accepted
             /\ d.recorded + d.suppressed = r.recorded + r.suppressed + 1
             /\ d.recorded > 0
             /\ Bounded(r) => Bounded(d)
<1>1. MaxRecordedDiagnostics \in Nat /\ MaxRecordedDiagnostics > 0 BY LimitsAreNatural
<1>2. CASE r.recorded < MaxRecordedDiagnostics
  <2>1. record_scan_diagnostic(r, severity) =
          [r EXCEPT !.recorded = @ + 1, !.error = @ \/ severity = "error"]
    BY <1>2 DEF record_scan_diagnostic, Recorded
  <2> DEFINE e == r.error \/ severity = "error"
  <2>2. e \in BOOLEAN OBVIOUS
  <2>3. record_scan_diagnostic(r, severity) = [r EXCEPT !.recorded = r.recorded + 1, !.error = e]
    BY <2>1
  <2> HIDE DEF e
  <2> DEFINE d == [r EXCEPT !.recorded = r.recorded + 1, !.error = e]
  <2>4. d \in Reports
    <3>1. r.recorded + 1 \in Nat BY DEF Reports
    <3> QED BY <2>2, <3>1, RecordedIsReport
  <2>5. /\ d.status = r.status /\ d.relevant = r.relevant /\ d.analyzed = r.analyzed
        /\ d.skipped = r.skipped /\ d.accepted = r.accepted
        /\ d.recorded = r.recorded + 1 /\ d.suppressed = r.suppressed
    BY DEF Reports
  <2>6. r.recorded \in Nat /\ r.suppressed \in Nat BY DEF Reports
  <2> HIDE DEF d
  <2>7. record_scan_diagnostic(r, severity) = d BY <2>3 DEF d
  <2> QED BY <1>1, <1>2, <2>4, <2>5, <2>6, <2>7 DEF Bounded
<1>3. CASE ~(r.recorded < MaxRecordedDiagnostics)
  <2>1. record_scan_diagnostic(r, severity) = [r EXCEPT !.suppressed = @ + 1]
    BY <1>3 DEF record_scan_diagnostic
  <2> QED BY <1>1, <1>3, <2>1 DEF Reports, Bounded
<1> QED BY <1>2, <1>3

LEMMA WarnIsReport == ASSUME NEW r \in Reports PROVE Warn(r) \in Reports
BY RecordFacts DEF Warn

LEMMA StopIsReport ==
  ASSUME NEW r \in Reports, NEW status \in Statuses PROVE Stop(r, status) \in Reports
<1>1. [r EXCEPT !.status = status] \in Reports BY DEF Reports
<1> QED BY <1>1, RecordFacts DEF Stop

LEMMA NoInnerIsInner == NoInner \in Inners
BY U64IsNatural DEF NoInner, Inners, NoRank, Ranks

LEMMA HeadIsPayload ==
  ASSUME ScanTypeOK, candidates # <<>>
  PROVE  Head(candidates) \in Payloads /\ Tail(candidates) \in Seq(Payloads)
BY DEF ScanTypeOK

LEMMA TypeInit == Init => ScanTypeOK
<1> SUFFICES ASSUME Init PROVE ScanTypeOK OBVIOUS
<1>1. report \in Reports BY DEF Init, EmptyReport, Reports, Statuses
<1>2. inner \in Inners BY NoInnerIsInner DEF Init
<1> QED BY <1>1, <1>2 DEF Init, ScanTypeOK

LEMMA InnerUpdates ==
  ASSUME NEW i \in Inners
  PROVE  /\ \A n \in Nat : [i EXCEPT !.left = n] \in Inners
         /\ [i EXCEPT !.failed = TRUE] \in Inners
         /\ \A n \in Nat, t \in U64 : [i EXCEPT !.accepted = n, !.tmp = t] \in Inners
         /\ \A n \in Nat : [i EXCEPT !.left = n, !.tmp = 0] \in Inners
         /\ \A b \in U64, r \in Ranks : [i EXCEPT !.best = b, !.rank = r] \in Inners
BY U64IsNatural DEF Inners

(* Moving to the next entry of an inner archive. *)
LEMMA NextInnerFacts ==
  ASSUME ScanTypeOK, inner.left > 0
  PROVE  /\ NextInner \in Inners
         /\ NextInner.left = inner.left - 1 /\ NextInner.tmp = 0
         /\ NextInner.accepted = inner.accepted /\ NextInner.best = inner.best
<1>1. inner \in Inners /\ inner.left \in Nat BY DEF ScanTypeOK, Inners
<1>2. inner.left - 1 \in Nat BY <1>1
<1>3. NextInner = [inner EXCEPT !.left = inner.left - 1, !.tmp = 0] BY DEF NextInner
<1>4. NextInner \in Inners BY <1>1, <1>2, <1>3, InnerUpdates
<1> QED BY <1>1, <1>3, <1>4 DEF Inners

(* What a half-finished entry of an inner archive looks like: it counts in *)
(* left, and outside of an inner archive there is none.                    *)
InnerInv ==
  /\ inner.tmp > 0 => inner.left > 0
  /\ pc \in {"open", "list", "select", "load", "analyze"} => inner = NoInner

LEMMA InnerInvInit == Init => InnerInv
BY DEF Init, InnerInv, NoInner

LEMMA ReportInnerType ==
  ASSUME ScanTypeOK, NEW i \in Inners, ReportInner(i)
  PROVE  /\ report' \in Reports /\ inner' \in Inners /\ unseen' \in Nat
         /\ inner'.tmp = i.tmp /\ inner'.left = i.left
<1>1. report \in Reports /\ unseen \in Nat BY DEF ScanTypeOK
<1>2. report' \in Reports BY <1>1, WarnIsReport DEF ReportInner
<1>3. [i EXCEPT !.failed = TRUE] \in Inners BY InnerUpdates
<1>4. inner' = [i EXCEPT !.failed = TRUE] /\ unseen' = unseen + 1 BY DEF ReportInner
<1> QED BY <1>1, <1>2, <1>3, <1>4 DEF Inners

LEMMA NextCandidateType ==
  ASSUME ScanTypeOK, candidates # <<>>, NextCandidate
  PROVE  /\ candidates' \in Seq(Payloads) /\ inner' \in Inners /\ elves' \subseteq Ranks
         /\ pc' = "select" /\ inner' = NoInner
BY HeadIsPayload, NoInnerIsInner DEF NextCandidate

LEMMA SkipCandidateType ==
  ASSUME ScanTypeOK, InnerInv, candidates # <<>>, SkipCandidate, inflated' \in Nat
  PROVE  ScanTypeOK' /\ InnerInv'
<1>1. /\ candidates' \in Seq(Payloads) /\ inner' \in Inners /\ elves' \subseteq Ranks
      /\ pc' = "select" /\ inner' = NoInner
  BY NextCandidateType DEF SkipCandidate
<1>2. report \in Reports /\ unseen \in Nat /\ left \in Nat
      /\ results \in Seq({"file", "inner", "partial", "packed"})
  BY DEF ScanTypeOK
<1>3. [report EXCEPT !.skipped = @ + 1] \in Reports BY <1>2 DEF Reports
<1>4. report' \in Reports BY <1>3, WarnIsReport DEF SkipCandidate, Skipped
<1>5. unseen' = unseen + 1 /\ left' = left /\ results' = results BY DEF SkipCandidate
<1>6. NoInner.tmp = 0 BY DEF NoInner
<1> QED BY <1>1, <1>2, <1>4, <1>5, <1>6 DEF ScanTypeOK, InnerInv

LEMMA AddResultType ==
  ASSUME ScanTypeOK, InnerInv, candidates # <<>>,
         NEW ending \in {"file", "inner", "partial", "packed"}, AddResult(ending)
  PROVE  ScanTypeOK' /\ InnerInv'
<1>1. /\ candidates' \in Seq(Payloads) /\ inner' \in Inners /\ elves' \subseteq Ranks
      /\ pc' = "select" /\ inner' = NoInner
  BY NextCandidateType DEF AddResult
<1>2. results' = Append(results, ending)
      /\ left' = left /\ report' = report /\ unseen' = unseen /\ inflated' = inflated
  BY DEF AddResult
<1>3. NoInner.tmp = 0 BY DEF NoInner
<1> QED BY <1>1, <1>2, <1>3 DEF ScanTypeOK, InnerInv

(* A candidate is at hand until its analysis ends. *)
AtHand == pc \in {"load", "analyze", "inner"} => candidates # <<>>

LEMMA TypeStep ==
  ASSUME ScanTypeOK, InnerInv, AtHand, Next PROVE ScanTypeOK' /\ InnerInv'
<1> USE DEF ghosts
<1>0. /\ pc \in {"open", "list", "select", "load", "analyze", "inner", "sort", "done"}
      /\ left \in Nat /\ candidates \in Seq(Payloads) /\ report \in Reports
      /\ results \in Seq({"file", "inner", "partial", "packed"})
      /\ inner \in Inners /\ unseen \in Nat /\ inflated \in Nat /\ elves \subseteq Ranks
      /\ inner.tmp \in U64 /\ inner.tmp \in Nat /\ inner.left \in Nat
  BY U64IsNatural DEF ScanTypeOK, Inners
<1>1. CASE Refuse
  <2>1. PICK status \in {"REJECTED", "ERROR"} : report' = Stop(report, status)
    BY <1>1 DEF Refuse
  <2>2. report' \in Reports BY <1>0, <2>1, StopIsReport DEF Statuses
  <2> QED BY <1>0, <1>1, <2>2 DEF Refuse, ScanTypeOK, InnerInv
<1>2. CASE Open
  <2>1. left' \in Nat BY <1>2, LimitsAreNatural DEF Open
  <2> QED BY <1>0, <1>2, <2>1 DEF Open, ScanTypeOK, InnerInv
<1>3. CASE StatFails
  <2>1. report' \in Reports BY <1>0, <1>3, WarnIsReport DEF StatFails
  <2>2. left' \in Nat /\ unseen' \in Nat BY <1>0, <1>3 DEF StatFails
  <2> QED BY <1>0, <1>3, <2>1, <2>2 DEF StatFails, ScanTypeOK, InnerInv
<1>4. CASE ListOther
  <2>1. left' \in Nat BY <1>0, <1>4 DEF ListOther
  <2> QED BY <1>0, <1>4, <2>1 DEF ListOther, ScanTypeOK, InnerInv
<1>5. ASSUME NEW p \in Payloads, ListLibrary(p) PROVE ScanTypeOK' /\ InnerInv'
  <2>1. left' \in Nat BY <1>0, <1>5 DEF ListLibrary
  <2> DEFINE n == report.relevant + 1
  <2>a. n \in Nat /\ report' = [report EXCEPT !.relevant = n]
    BY <1>0, <1>5 DEF ListLibrary, Reports
  <2> HIDE DEF n
  <2>2. report' \in Reports BY <1>0, <2>a, ReportUpdates
  <2>3. candidates' \in Seq(Payloads) BY <1>0, <1>5 DEF ListLibrary
  <2> QED BY <1>0, <1>5, <2>1, <2>2, <2>3 DEF ListLibrary, ScanTypeOK, InnerInv
<1>6. CASE RejectCandidates
  <2>1. [report EXCEPT !.skipped = report.relevant] \in Reports BY <1>0 DEF Reports
  <2>2. report' \in Reports BY <1>6, <2>1, StopIsReport DEF RejectCandidates, Statuses
  <2> QED BY <1>0, <1>6, <2>2 DEF RejectCandidates, ScanTypeOK, InnerInv
<1>7. CASE StartCandidates
  BY <1>0, <1>7 DEF StartCandidates, ScanTypeOK, InnerInv
<1>8. CASE RefuseCandidate
  <2>1. candidates # <<>> /\ SkipCandidate /\ inflated' \in Nat
    BY <1>0, <1>8 DEF RefuseCandidate
  <2> QED BY <2>1, SkipCandidateType
<1>9. CASE AcceptCandidate
  <2>1. Bytes(Head(candidates)) \in Nat
    BY <1>9, HeadIsPayload, BytesIsU64 DEF AcceptCandidate
  <2> DEFINE n == report.accepted + Bytes(Head(candidates))
  <2>a. n \in Nat /\ report' = [report EXCEPT !.accepted = n]
    BY <1>0, <1>9, <2>1 DEF AcceptCandidate, Reports
  <2> HIDE DEF n
  <2>2. report' \in Reports BY <1>0, <2>a, ReportUpdates
  <2> QED BY <1>0, <1>9, <2>2 DEF AcceptCandidate, ScanTypeOK, InnerInv
<1>10. CASE LoadFails
  <2>1. candidates # <<>> /\ SkipCandidate BY <1>10 DEF LoadFails, AtHand
  <2>2. Bytes(Head(candidates)) \in Nat BY <2>1, HeadIsPayload, BytesIsU64
  <2>3. inflated' \in Nat BY <1>0, <1>10, <2>2 DEF LoadFails
  <2> QED BY <2>1, <2>3, SkipCandidateType
<1>11. CASE Load
  <2>1. candidates # <<>> BY <1>11 DEF Load, AtHand
  <2>2. Bytes(Head(candidates)) \in Nat BY <2>1, HeadIsPayload, BytesIsU64
  <2> QED BY <1>0, <1>11, <2>2 DEF Load, ScanTypeOK, InnerInv
<1>12. CASE AnalysisFails
  <2>1. candidates # <<>> /\ SkipCandidate /\ inflated' \in Nat
    BY <1>0, <1>12 DEF AnalysisFails, AtHand
  <2> QED BY <2>1, SkipCandidateType
<1>13. CASE AnalyzeFile
  <2>1. candidates # <<>> /\ AddResult("file") BY <1>13 DEF AnalyzeFile, AtHand
  <2> QED BY <2>1, AddResultType
<1>14. CASE RefuseInner
  <2>1. inner.tmp = 0 BY <1>14 DEF RefuseInner, InnerInv, NoInner
  <2>2. /\ report' \in Reports /\ inner' \in Inners /\ unseen' \in Nat /\ inner'.tmp = inner.tmp
    BY <1>0, <1>14, ReportInnerType DEF RefuseInner
  <2> QED BY <1>0, <1>14, <2>1, <2>2 DEF RefuseInner, ScanTypeOK, InnerInv
<1>15. CASE OpenInner
  <2>1. inner.tmp = 0 BY <1>15 DEF OpenInner, InnerInv, NoInner
  <2>2. PICK n \in 0 .. MaxArchive : inner' = [inner EXCEPT !.left = n] BY <1>15 DEF OpenInner
  <2>3. n \in Nat BY LimitsAreNatural
  <2>4. inner' \in Inners BY <1>0, <2>2, <2>3, InnerUpdates
  <2>5. inner'.tmp = 0 BY <1>0, <2>1, <2>2 DEF Inners
  <2> QED BY <1>0, <1>15, <2>4, <2>5 DEF OpenInner, ScanTypeOK, InnerInv
<1>16. CASE InnerNothing
  <2>1. NextInner \in Inners /\ NextInner.tmp = 0
    BY <1>16, NextInnerFacts DEF InnerNothing, EntryAtHand
  <2> QED BY <1>0, <1>16, <2>1 DEF InnerNothing, ScanTypeOK, InnerInv
<1>17. CASE InnerRefused
  <2>1. NextInner \in Inners /\ NextInner.tmp = 0
    BY <1>17, NextInnerFacts DEF InnerRefused, EntryAtHand
  <2>2. /\ report' \in Reports /\ inner' \in Inners /\ unseen' \in Nat /\ inner'.tmp = 0
    BY <1>17, <2>1, ReportInnerType DEF InnerRefused
  <2> QED BY <1>0, <1>17, <2>2 DEF InnerRefused, ScanTypeOK, InnerInv
<1>18. ASSUME NEW p \in Payloads, InnerAccepted(p) PROVE ScanTypeOK' /\ InnerInv'
  <2>1. Bytes(p) \in U64 /\ Bytes(p) \in Nat BY BytesIsU64
  <2>2. inner.accepted + Bytes(p) \in Nat BY <1>0, <2>1 DEF Inners
  <2>3. inner' = [inner EXCEPT !.accepted = inner.accepted + Bytes(p), !.tmp = Bytes(p)]
    BY <1>18 DEF InnerAccepted
  <2>4. inner' \in Inners BY <1>0, <2>1, <2>2, <2>3, InnerUpdates
  <2>5. inner'.left = inner.left /\ inner.left > 0
    BY <1>0, <1>18, <2>3 DEF Inners, InnerAccepted, EntryAtHand
  <2> QED BY <1>0, <1>18, <2>4, <2>5 DEF InnerAccepted, ScanTypeOK, InnerInv
<1>19. CASE InnerLoadFails
  <2>1. NextInner \in Inners /\ NextInner.tmp = 0
    BY <1>19, NextInnerFacts DEF InnerLoadFails, InnerInv
  <2>2. /\ report' \in Reports /\ inner' \in Inners /\ unseen' \in Nat /\ inner'.tmp = 0
    BY <1>19, <2>1, ReportInnerType DEF InnerLoadFails
  <2>3. inflated' \in Nat BY <1>0, <1>19 DEF InnerLoadFails
  <2> QED BY <1>0, <1>19, <2>2, <2>3 DEF InnerLoadFails, ScanTypeOK, InnerInv
<1>20. CASE InnerElf
  <2>1. NextInner \in Inners /\ NextInner.tmp = 0
    BY <1>20, NextInnerFacts DEF InnerElf, InnerInv
  <2>2. PICK arm \in {0, 1} :
          LET rank == [arm |-> arm, size |-> inner.tmp, left |-> inner.left]
          IN  /\ inner' = IF ~Found \/ Better(rank, inner.rank)
                          THEN [NextInner EXCEPT !.best = inner.tmp, !.rank = rank]
                          ELSE NextInner
              /\ elves' = elves \cup {rank}
    BY <1>20 DEF InnerElf
  <2> DEFINE rank == [arm |-> arm, size |-> inner.tmp, left |-> inner.left]
  <2>3. rank \in Ranks BY <1>0 DEF Ranks
  <2> HIDE DEF rank
  <2>4. elves' \subseteq Ranks BY <1>0, <2>2, <2>3 DEF rank
  <2>5. [NextInner EXCEPT !.best = inner.tmp, !.rank = rank] \in Inners
    BY <1>0, <2>1, <2>3, InnerUpdates
  <2>6. [NextInner EXCEPT !.best = inner.tmp, !.rank = rank].tmp = 0
    BY <2>1 DEF Inners
  <2>7. inner' = [NextInner EXCEPT !.best = inner.tmp, !.rank = rank] \/ inner' = NextInner
    BY <2>2 DEF rank
  <2>8. inner' \in Inners /\ inner'.tmp = 0 BY <2>1, <2>5, <2>6, <2>7
  <2> QED BY <1>0, <1>20, <2>4, <2>8 DEF InnerElf, ScanTypeOK, InnerInv
<1>21. CASE InnerOther
  <2>1. NextInner \in Inners /\ NextInner.tmp = 0
    BY <1>21, NextInnerFacts DEF InnerOther, InnerInv
  <2> QED BY <1>0, <1>21, <2>1 DEF InnerOther, ScanTypeOK, InnerInv
<1>22. CASE InnerEnds
  <2>1. candidates # <<>> BY <1>22 DEF InnerEnds, AtHand
  <2>2. PICK ending \in {"file", "inner", "partial", "packed"} : AddResult(ending)
    BY <1>22 DEF InnerEnds
  <2> QED BY <2>1, <2>2, AddResultType
<1>23. CASE Link
  <2>1. FinalStatus \in Statuses BY <1>0 DEF FinalStatus, Statuses, Reports
  <2>a. Len(results) \in Nat BY <1>0
  <2>2. report' \in Reports BY <1>0, <1>23, <2>1, <2>a, ReportUpdates DEF Link
  <2> QED BY <1>0, <1>23, <2>2 DEF Link, ScanTypeOK, InnerInv
<1>24. CASE Sort
  <2>1. report' \in Reports BY <1>0, <1>24 DEF Sort, Reports
  <2> QED BY <1>0, <1>24, <2>1 DEF Sort, ScanTypeOK, InnerInv
<1>25. CASE ScanThrows
  <2>1. EmptyReport \in Reports BY DEF EmptyReport, Reports, Statuses
  <2>2. report' \in Reports BY <1>25, <2>1, StopIsReport DEF ScanThrows, Statuses
  <2> QED BY <1>0, <1>25, <2>2 DEF ScanThrows, ScanTypeOK, InnerInv
<1> QED
  BY <1>1, <1>2, <1>3, <1>4, <1>5, <1>6, <1>7, <1>8, <1>9, <1>10, <1>11, <1>12, <1>13,
     <1>14, <1>15, <1>16, <1>17, <1>18, <1>19, <1>20, <1>21, <1>22, <1>23, <1>24, <1>25
     DEF Next, Progress

-----------------------------------------------------------------------------
(* The counters. *)

(* While the scan runs every relevant library has a result, is skipped, or *)
(* is still to come; while it lists, either the list of candidates is      *)
(* complete or there are too many of them.                                 *)
Counting ==
  /\ AtHand
  /\ pc \in {"open", "list"} =>
       /\ results = <<>> /\ report.skipped = 0
       /\ report.relevant <= MaxCandidateSoEntries => Len(candidates) = report.relevant
  /\ pc = "open" => report.relevant = 0
  /\ pc \in {"select", "load", "analyze", "inner"} =>
       report.relevant = Len(results) + report.skipped + Len(candidates)
  /\ pc \in {"sort", "done"} => report.relevant = Len(results) + report.skipped
  /\ pc = "done" => report.analyzed = Len(results)

(* Each entry given up on has a diagnostic until an error ends the scan,   *)
(* and an error means that nothing was analysed.                           *)
Diagnosing ==
  /\ DiagnosticsBounded
  /\ report.status \in {"OK", "PARTIAL"} => report.recorded + report.suppressed = unseen
  /\ pc \in {"sort", "done"} /\ report.status = "OK" => unseen = 0
  /\ report.status = "PARTIAL" => unseen > 0
  /\ report.status \in {"REJECTED", "ERROR"} => results = <<>> /\ report.recorded > 0
  /\ report.status # "OK" => pc \in {"sort", "done"}
  /\ report.status = "REJECTED" => inflated = 0
  /\ pc \in {"open", "list"} => results = <<>> /\ inflated = 0

ScanInv == ScanTypeOK /\ InnerInv /\ Counting /\ Diagnosing

LEMMA ScanInvInit == Init => ScanInv
<1> SUFFICES ASSUME Init PROVE ScanInv OBVIOUS
<1>1. ScanTypeOK /\ InnerInv BY TypeInit, InnerInvInit
<1>2. MaxRecordedDiagnostics \in Nat BY LimitsAreNatural
<1>3. /\ report.status = "OK" /\ report.relevant = 0 /\ report.skipped = 0
      /\ report.recorded = 0 /\ report.suppressed = 0
  BY DEF Init, EmptyReport
<1>4. Counting BY <1>3 DEF Init, Counting, AtHand
<1>5. Diagnosing BY <1>2, <1>3 DEF Init, Diagnosing, DiagnosticsBounded
<1> QED BY <1>1, <1>4, <1>5 DEF ScanInv

LEMMA TailLength ==
  ASSUME NEW S, NEW s \in Seq(S), s # <<>>
  PROVE  Len(Tail(s)) = Len(s) - 1 /\ Len(s) \in Nat /\ Len(s) > 0
OBVIOUS

(* The fields of a report that a step does not mention. *)
Same == /\ report'.status = report.status /\ report'.relevant = report.relevant
        /\ report'.analyzed = report.analyzed
(* One more diagnostic for one more entry given up on. *)
OneMore == /\ report'.recorded + report'.suppressed = report.recorded + report.suppressed + 1
           /\ Bounded(report) => Bounded(report')
           /\ unseen' = unseen + 1

LEMMA WarnEffect ==
  ASSUME ScanTypeOK, report' = Warn(report), unseen' = unseen + 1
  PROVE  Same /\ OneMore /\ report'.skipped = report.skipped
BY RecordFacts DEF ScanTypeOK, Warn, Same, OneMore

LEMMA SkipEffect ==
  ASSUME ScanTypeOK, candidates # <<>>, SkipCandidate
  PROVE  /\ Same /\ OneMore /\ report'.skipped = report.skipped + 1
         /\ pc' = "select" /\ results' = results
         /\ Len(candidates') = Len(candidates) - 1
<1> DEFINE r == [report EXCEPT !.skipped = @ + 1]
<1>1. report \in Reports /\ candidates \in Seq(Payloads) BY DEF ScanTypeOK
<1>2. r \in Reports BY <1>1 DEF Reports
<1>3. /\ r.status = report.status /\ r.relevant = report.relevant
      /\ r.analyzed = report.analyzed /\ r.skipped = report.skipped + 1
      /\ r.recorded = report.recorded /\ r.suppressed = report.suppressed
  BY <1>1 DEF Reports
<1>4. report' = record_scan_diagnostic(r, "warning") BY DEF SkipCandidate, Skipped, Warn
<1> HIDE DEF r
<1>5. Bounded(report) => Bounded(r) BY <1>3 DEF Bounded
<1>6. Same /\ report'.skipped = report.skipped + 1
  BY <1>2, <1>3, <1>4, RecordFacts DEF Same
<1>7. OneMore BY <1>2, <1>3, <1>4, <1>5, RecordFacts DEF OneMore, SkipCandidate
<1>8. Len(candidates') = Len(candidates) - 1
  BY <1>1, TailLength DEF SkipCandidate, NextCandidate
<1> QED BY <1>6, <1>7, <1>8 DEF SkipCandidate, NextCandidate

LEMMA AddEffect ==
  ASSUME ScanTypeOK, candidates # <<>>, NEW ending, AddResult(ending)
  PROVE  /\ report' = report /\ unseen' = unseen /\ inflated' = inflated
         /\ pc' = "select" /\ Len(results') = Len(results) + 1
         /\ Len(candidates') = Len(candidates) - 1
<1>1. candidates \in Seq(Payloads) BY DEF ScanTypeOK
<1>2. results \in Seq({"file", "inner", "partial", "packed"}) BY DEF ScanTypeOK
<1>3. Len(candidates') = Len(candidates) - 1
  BY <1>1, TailLength DEF AddResult, NextCandidate
<1>4. Len(results') = Len(results) + 1 BY <1>2 DEF AddResult
<1> QED BY <1>3, <1>4 DEF AddResult, NextCandidate

LEMMA StopEffect ==
  ASSUME NEW r \in Reports, NEW status \in Statuses
  PROVE  LET d == Stop(r, status)
         IN  /\ d.status = status /\ d.relevant = r.relevant /\ d.analyzed = r.analyzed
             /\ d.skipped = r.skipped /\ d.recorded > 0
             /\ Bounded(r) => Bounded(d)
<1> DEFINE s == [r EXCEPT !.status = status]
<1>1. s \in Reports BY DEF Reports
<1>2. /\ s.status = status /\ s.relevant = r.relevant /\ s.analyzed = r.analyzed
      /\ s.skipped = r.skipped /\ s.recorded = r.recorded /\ s.suppressed = r.suppressed
  BY DEF Reports
<1>3. Stop(r, status) = record_scan_diagnostic(s, "error") BY DEF Stop
<1> HIDE DEF s
<1>4. Bounded(r) => Bounded(s) BY <1>2 DEF Bounded
<1> QED BY <1>1, <1>2, <1>3, <1>4, RecordFacts

(* The step of each kind on the two halves of the invariant. *)
LEMMA SkipKeeps ==
  ASSUME ScanInv, candidates # <<>>, pc \in {"select", "load", "analyze", "inner"}, SkipCandidate
  PROVE  Counting' /\ Diagnosing'
<1>1. /\ Same /\ OneMore /\ report'.skipped = report.skipped + 1
      /\ pc' = "select" /\ results' = results /\ Len(candidates') = Len(candidates) - 1
  BY SkipEffect DEF ScanInv
<1>2. /\ report.relevant \in Nat /\ report.skipped \in Nat /\ Len(results) \in Nat
      /\ Len(candidates) \in Nat
  BY DEF ScanInv, ScanTypeOK, Reports
<1>3. report.relevant = Len(results) + report.skipped + Len(candidates)
  BY DEF ScanInv, Counting
<1>4. report'.relevant = Len(results') + report'.skipped + Len(candidates')
  BY <1>1, <1>2, <1>3 DEF Same
<1>5. Counting' BY <1>1, <1>4 DEF Counting, AtHand
<1>6. report.status = "OK" /\ Bounded(report)
      /\ report.recorded + report.suppressed = unseen
  BY DEF ScanInv, Diagnosing, DiagnosticsBounded, Bounded
<1>7. report'.status = "OK" /\ Bounded(report')
      /\ report'.recorded + report'.suppressed = unseen'
  BY <1>1, <1>6 DEF Same, OneMore
<1>8. Diagnosing' BY <1>1, <1>7 DEF Diagnosing, DiagnosticsBounded, Bounded
<1> QED BY <1>5, <1>8

LEMMA AddKeeps ==
  ASSUME ScanInv, candidates # <<>>, pc \in {"analyze", "inner"}, NEW ending, AddResult(ending)
  PROVE  Counting' /\ Diagnosing'
<1>1. /\ report' = report /\ unseen' = unseen /\ inflated' = inflated
      /\ pc' = "select" /\ Len(results') = Len(results) + 1
      /\ Len(candidates') = Len(candidates) - 1
  BY AddEffect DEF ScanInv
<1>2. /\ report.relevant \in Nat /\ report.skipped \in Nat /\ Len(results) \in Nat
      /\ Len(candidates) \in Nat
  BY DEF ScanInv, ScanTypeOK, Reports
<1>3. report.relevant = Len(results) + report.skipped + Len(candidates)
  BY DEF ScanInv, Counting
<1>4. report'.relevant = Len(results') + report'.skipped + Len(candidates')
  BY <1>1, <1>2, <1>3
<1>5. Counting' BY <1>1, <1>4 DEF Counting, AtHand
<1>6. report.status = "OK" /\ DiagnosticsBounded
      /\ report.recorded + report.suppressed = unseen
  BY DEF ScanInv, Diagnosing
<1>7. Diagnosing' BY <1>1, <1>6 DEF Diagnosing, DiagnosticsBounded
<1> QED BY <1>5, <1>7

(* A warning that concerns no candidate as a whole. *)
LEMMA WarnKeeps ==
  ASSUME ScanInv, pc \in {"list", "analyze", "inner"}, pc' \in {"list", "analyze", "inner"},
         pc = "list" <=> pc' = "list",
         report' = Warn(report), unseen' = unseen + 1,
         pc = "list" => inflated' = inflated,
         candidates' = candidates, results' = results
  PROVE  Counting' /\ Diagnosing'
<1>1. Same /\ OneMore /\ report'.skipped = report.skipped BY WarnEffect DEF ScanInv
<1>2. Counting' BY <1>1 DEF ScanInv, Counting, AtHand, Same
<1>3. report.status = "OK" /\ Bounded(report)
      /\ report.recorded + report.suppressed = unseen
  BY DEF ScanInv, Diagnosing, DiagnosticsBounded, Bounded
<1>4. report'.status = "OK" /\ Bounded(report')
      /\ report'.recorded + report'.suppressed = unseen'
  BY <1>1, <1>3 DEF Same, OneMore
<1>5. pc' = "list" => results' = <<>> /\ inflated' = 0 BY DEF ScanInv, Diagnosing
<1>6. Diagnosing' BY <1>4, <1>5 DEF Diagnosing, DiagnosticsBounded, Bounded
<1> QED BY <1>2, <1>6

(* A step that leaves report, results and candidates alone. *)
LEMMA QuietKeeps ==
  ASSUME ScanInv, pc \in {"open", "list", "select", "load", "analyze", "inner"},
         pc' \in {"list", "select", "load", "analyze", "inner"},
         pc' = "list" => pc \in {"open", "list"} /\ inflated' = inflated,
         pc \in {"open", "list"} =>
           pc' = "list" \/ (pc' = "select" /\ CandidatesFit /\ inflated' = inflated),
         pc' \in {"load", "analyze", "inner"} => candidates # <<>>,
         report' = report, unseen' = unseen, candidates' = candidates, results' = results
  PROVE  Counting' /\ Diagnosing'
<1>1. Counting'
  <2>1. AtHand' BY DEF AtHand
  <2>2. CASE pc' = "list" BY <2>1, <2>2 DEF ScanInv, Counting
  <2>3. CASE pc' # "list" /\ pc \in {"open", "list"}
    <3>1. /\ results = <<>> /\ report.skipped = 0 /\ Len(candidates) = report.relevant
          /\ pc' = "select" /\ report.relevant \in Nat
      BY <2>3 DEF ScanInv, Counting, CandidatesFit, ScanTypeOK, Reports
    <3>2. Len(results) = 0 BY <3>1
    <3>3. report.relevant = Len(results) + report.skipped + Len(candidates)
      BY <3>1, <3>2
    <3> QED BY <2>1, <3>1, <3>3 DEF Counting
  <2>4. CASE pc' # "list" /\ pc \notin {"open", "list"}
    <3>1. report.relevant = Len(results) + report.skipped + Len(candidates)
      BY <2>4 DEF ScanInv, Counting
    <3> QED BY <2>1, <2>4, <3>1 DEF Counting
  <2> QED BY <2>2, <2>3, <2>4
<1>2. report.status = "OK" /\ DiagnosticsBounded
      /\ report.recorded + report.suppressed = unseen
  BY DEF ScanInv, Diagnosing
<1>3. pc' = "list" => results' = <<>> /\ inflated' = 0 BY DEF ScanInv, Diagnosing
<1>4. Diagnosing' BY <1>2, <1>3 DEF Diagnosing, DiagnosticsBounded
<1> QED BY <1>1, <1>4

(* A scan that ends early. *)
LEMMA StopKeeps ==
  ASSUME pc' \in {"sort", "done"},
         NEW r \in Reports, NEW status \in {"REJECTED", "ERROR"}, report' = Stop(r, status),
         Bounded(r), r.relevant = r.skipped, pc' = "done" => r.analyzed = 0,
         results' = <<>>, status = "REJECTED" => inflated' = 0
  PROVE  Counting' /\ Diagnosing'
<1>1. status \in Statuses BY DEF Statuses
<1>2. /\ report'.status = status /\ report'.relevant = r.relevant /\ report'.analyzed = r.analyzed
      /\ report'.skipped = r.skipped /\ report'.recorded > 0 /\ Bounded(report')
  BY <1>1, StopEffect
<1>3. Len(results') = 0 /\ r.skipped \in Nat BY DEF Reports
<1>4. report'.relevant = Len(results') + report'.skipped BY <1>2, <1>3
<1>5. Counting' BY <1>2, <1>3, <1>4 DEF Counting, AtHand
<1>6. Diagnosing' BY <1>2 DEF Diagnosing, DiagnosticsBounded, Bounded
<1> QED BY <1>5, <1>6

LEMMA CountingStep == ASSUME ScanInv, Next PROVE Counting' /\ Diagnosing'
<1> USE DEF ghosts
<1>0. AtHand /\ ScanTypeOK /\ InnerInv /\ Counting /\ Diagnosing BY DEF ScanInv, Counting
<1>t. report \in Reports /\ Bounded(report)
  BY <1>0 DEF ScanTypeOK, Diagnosing, DiagnosticsBounded, Bounded
<1>1. CASE Refuse
  <2>1. PICK status \in {"REJECTED", "ERROR"} : report' = Stop(report, status)
    BY <1>1 DEF Refuse
  <2>2. report.relevant = report.skipped /\ results' = <<>> /\ inflated' = 0 /\ pc' = "sort"
    BY <1>0, <1>1 DEF Refuse, Counting, Diagnosing
  <2> QED BY <1>t, <2>1, <2>2, StopKeeps
<1>2. CASE Open
  BY <1>2, QuietKeeps DEF Open
<1>3. CASE StatFails
  BY <1>3, WarnKeeps DEF StatFails
<1>4. CASE ListOther
  BY <1>4, QuietKeeps DEF ListOther
<1>5. ASSUME NEW p \in Payloads, ListLibrary(p) PROVE Counting' /\ Diagnosing'
  <2>1. report.relevant \in Nat /\ Len(candidates) \in Nat /\ MaxCandidateSoEntries \in Nat
    BY <1>0, LimitsAreNatural DEF ScanTypeOK, Reports
  <2>2. /\ report'.status = report.status /\ report'.relevant = report.relevant + 1
        /\ report'.skipped = report.skipped /\ report'.recorded = report.recorded
        /\ report'.suppressed = report.suppressed
    BY <1>5, <1>t DEF ListLibrary, Reports
  <2>3. Len(candidates) < MaxCandidateSoEntries => Len(candidates') = Len(candidates) + 1
    BY <1>0, <1>5 DEF ListLibrary, ScanTypeOK
  <2>4. report.relevant <= MaxCandidateSoEntries => Len(candidates) = report.relevant
    BY <1>0, <1>5 DEF ListLibrary, Counting
  <2>5. report'.relevant <= MaxCandidateSoEntries => Len(candidates') = report'.relevant
    BY <2>1, <2>2, <2>3, <2>4
  <2>6. pc = "list" /\ pc' = "list" /\ results' = results /\ unseen' = unseen
        /\ inflated' = inflated
    BY <1>5 DEF ListLibrary
  <2>7. Counting' BY <1>0, <2>2, <2>5, <2>6 DEF Counting, AtHand
  <2>8. Diagnosing' BY <1>0, <2>2, <2>6 DEF Diagnosing, DiagnosticsBounded
  <2> QED BY <2>7, <2>8
<1>6. CASE RejectCandidates
  <2> DEFINE r == [report EXCEPT !.skipped = report.relevant]
  <2>1. r \in Reports BY <1>t DEF Reports
  <2>2. r.relevant = r.skipped /\ r.recorded = report.recorded /\ r.suppressed = report.suppressed
    BY <1>t DEF Reports
  <2>3. report' = Stop(r, "REJECTED") /\ pc' = "sort" /\ results' = <<>> /\ inflated' = 0
    BY <1>0, <1>6 DEF RejectCandidates, Diagnosing
  <2> HIDE DEF r
  <2>4. Bounded(r) BY <1>t, <2>2 DEF Bounded
  <2> QED BY <2>1, <2>2, <2>3, <2>4, StopKeeps
<1>7. CASE StartCandidates
  BY <1>7, QuietKeeps DEF StartCandidates
<1>8. CASE RefuseCandidate
  BY <1>8, SkipKeeps DEF RefuseCandidate
<1>9. CASE AcceptCandidate
  <2>1. /\ report'.status = report.status /\ report'.relevant = report.relevant
        /\ report'.skipped = report.skipped /\ report'.recorded = report.recorded
        /\ report'.suppressed = report.suppressed
    BY <1>9, <1>t DEF AcceptCandidate, Reports
  <2>2. pc = "select" /\ pc' = "load" /\ candidates # <<>> /\ candidates' = candidates
        /\ results' = results /\ unseen' = unseen /\ inflated' = inflated
    BY <1>9 DEF AcceptCandidate
  <2>3. Counting' BY <1>0, <2>1, <2>2 DEF Counting, AtHand
  <2>4. Diagnosing' BY <1>0, <2>1, <2>2 DEF Diagnosing, DiagnosticsBounded
  <2> QED BY <2>3, <2>4
<1>10. CASE LoadFails
  BY <1>0, <1>10, SkipKeeps DEF LoadFails, AtHand
<1>11. CASE Load
  BY <1>0, <1>11, QuietKeeps DEF Load, AtHand
<1>12. CASE AnalysisFails
  BY <1>0, <1>12, SkipKeeps DEF AnalysisFails, AtHand
<1>13. CASE AnalyzeFile
  BY <1>0, <1>13, AddKeeps DEF AnalyzeFile, AtHand
<1>14. CASE RefuseInner
  BY <1>14, WarnKeeps DEF RefuseInner, ReportInner
<1>15. CASE OpenInner
  BY <1>0, <1>15, QuietKeeps DEF OpenInner, AtHand
<1>16. CASE InnerNothing
  BY <1>0, <1>16, QuietKeeps DEF InnerNothing, AtHand
<1>17. CASE InnerRefused
  BY <1>17, WarnKeeps DEF InnerRefused, ReportInner
<1>18. ASSUME NEW p \in Payloads, InnerAccepted(p) PROVE Counting' /\ Diagnosing'
  BY <1>0, <1>18, QuietKeeps DEF InnerAccepted, AtHand
<1>19. CASE InnerLoadFails
  BY <1>19, WarnKeeps DEF InnerLoadFails, ReportInner
<1>20. CASE InnerElf
  BY <1>0, <1>20, QuietKeeps DEF InnerElf, AtHand
<1>21. CASE InnerOther
  BY <1>0, <1>21, QuietKeeps DEF InnerOther, AtHand
<1>22. CASE InnerEnds
  <2>1. PICK ending \in {"file", "inner", "partial", "packed"} : AddResult(ending)
    BY <1>22 DEF InnerEnds
  <2> QED BY <1>0, <1>22, <2>1, AddKeeps DEF InnerEnds, AtHand
<1>23. CASE Link
  <2>1. /\ report'.status = FinalStatus /\ report'.relevant = report.relevant
        /\ report'.skipped = report.skipped /\ report'.recorded = report.recorded
        /\ report'.suppressed = report.suppressed
    BY <1>23, <1>t DEF Link, Reports
  <2>2. pc = "select" /\ pc' = "sort" /\ candidates = <<>>
        /\ results' = results /\ unseen' = unseen /\ inflated' = inflated
    BY <1>23 DEF Link
  <2>3. Len(results) \in Nat /\ report.skipped \in Nat /\ report.relevant \in Nat
        /\ report.recorded \in Nat /\ report.suppressed \in Nat
    BY <1>0 DEF ScanTypeOK, Reports
  <2>4. report.relevant = Len(results) + report.skipped + Len(candidates) /\ Len(candidates) = 0
    BY <1>0, <2>2 DEF Counting
  <2>5. report.relevant = Len(results) + report.skipped BY <2>3, <2>4
  <2>6. Counting' BY <2>1, <2>2, <2>5 DEF Counting, AtHand
  <2>7. report.status = "OK" /\ report.recorded + report.suppressed = unseen
    BY <1>0, <2>2 DEF Diagnosing
  <2>8. AnyDiagnostic <=> unseen > 0 BY <2>3, <2>7 DEF AnyDiagnostic
  <2>9. FinalStatus = IF unseen > 0 THEN "PARTIAL" ELSE "OK" BY <2>7, <2>8 DEF FinalStatus
  <2>10. unseen \in Nat BY <1>0 DEF ScanTypeOK
  <2>11. /\ report'.status \in {"OK", "PARTIAL"}
         /\ report'.status = "OK" => unseen = 0
         /\ report'.status = "PARTIAL" => unseen > 0
    BY <2>1, <2>9, <2>10
  <2>12. Diagnosing' BY <1>0, <2>1, <2>2, <2>7, <2>11 DEF Diagnosing, DiagnosticsBounded
  <2> QED BY <2>6, <2>12
<1>24. CASE Sort
  <2>1. /\ report'.status = report.status /\ report'.relevant = report.relevant
        /\ report'.skipped = report.skipped /\ report'.recorded = report.recorded
        /\ report'.suppressed = report.suppressed /\ report'.analyzed = Len(results)
    BY <1>24, <1>t DEF Sort, Reports
  <2>2. pc = "sort" /\ pc' = "done" /\ results' = results /\ unseen' = unseen
        /\ inflated' = inflated
    BY <1>24 DEF Sort
  <2>3. Counting' BY <1>0, <2>1, <2>2 DEF Counting, AtHand
  <2>4. Diagnosing' BY <1>0, <2>1, <2>2 DEF Diagnosing, DiagnosticsBounded
  <2> QED BY <2>3, <2>4
<1>25. CASE ScanThrows
  <2>1. EmptyReport \in Reports BY DEF EmptyReport, Reports, Statuses
  <2>2. EmptyReport.relevant = EmptyReport.skipped /\ EmptyReport.analyzed = 0
    BY DEF EmptyReport
  <2>3. Bounded(EmptyReport) BY LimitsAreNatural DEF Bounded, EmptyReport
  <2>4. report' = Stop(EmptyReport, "ERROR") /\ pc' = "done" /\ results' = <<>>
    BY <1>25 DEF ScanThrows
  <2> QED BY <2>1, <2>2, <2>3, <2>4, StopKeeps
<1> QED
  BY <1>1, <1>2, <1>3, <1>4, <1>5, <1>6, <1>7, <1>8, <1>9, <1>10, <1>11, <1>12, <1>13,
     <1>14, <1>15, <1>16, <1>17, <1>18, <1>19, <1>20, <1>21, <1>22, <1>23, <1>24, <1>25
     DEF Next, Progress

LEMMA ScanInvStep == ScanInv /\ [Next]_vars => ScanInv'
<1> SUFFICES ASSUME ScanInv, [Next]_vars PROVE ScanInv' OBVIOUS
<1>1. AtHand /\ ScanTypeOK /\ InnerInv /\ Counting /\ Diagnosing BY DEF ScanInv, Counting
<1>2. CASE Next
  BY <1>1, <1>2, TypeStep, CountingStep DEF ScanInv
<1>3. CASE UNCHANGED vars
  <2> USE DEF ghosts
  <2>1. ScanTypeOK' BY <1>1, <1>3 DEF vars, ScanTypeOK
  <2>2. InnerInv' BY <1>1, <1>3 DEF vars, InnerInv
  <2>3. Counting' BY <1>1, <1>3 DEF vars, Counting, AtHand
  <2>4. Diagnosing' BY <1>1, <1>3 DEF vars, Diagnosing, DiagnosticsBounded
  <2> QED BY <2>1, <2>2, <2>3, <2>4 DEF ScanInv
<1> QED BY <1>2, <1>3

LEMMA ScanInvariant == Spec => []ScanInv
BY ScanInvInit, ScanInvStep, PTL DEF Spec

(* Every variable keeps its type: no counter goes below zero, whatever     *)
(* fails and however often.                                                *)
THEOREM ScanTypeCorrect == Spec => []ScanTypeOK
<1>1. ScanInv => ScanTypeOK BY DEF ScanInv
<1> QED BY <1>1, ScanInvariant, PTL

(* For every archive, limits and failures, a finished report accounts for  *)
(* each relevant library once.                                             *)
THEOREM CountersAddUp == Spec => []Accounted
<1>1. ScanInv => Accounted
  <2> SUFFICES ASSUME ScanInv, pc = "done"
               PROVE  report.analyzed = Len(results) /\ report.analyzed + report.skipped = report.relevant
    BY DEF Accounted
  <2> QED BY DEF ScanInv, Counting
<1> QED BY <1>1, ScanInvariant, PTL

(* The final status of every scan is the truth about the entries it gave   *)
(* up on.                                                                  *)
THEOREM StatusIsHonest == Spec => []HonestStatus
<1>1. ScanInv => HonestStatus
  BY DEF ScanInv, Diagnosing, HonestStatus, ScanTypeOK, Reports, Statuses
<1> QED BY <1>1, ScanInvariant, PTL

(* The list of diagnostics never outgrows its limit, and is full before    *)
(* any is suppressed.                                                      *)
THEOREM DiagnosticsAreBounded == Spec => []DiagnosticsBounded
<1>1. ScanInv => DiagnosticsBounded BY DEF ScanInv, Diagnosing
<1> QED BY <1>1, ScanInvariant, PTL

(* No scan that ends as REJECTED has inflated a byte.                      *)
THEOREM RejectionsInflateNothing == Spec => []RejectedBeforeExtraction
<1>1. ScanInv => RejectedBeforeExtraction
  BY DEF ScanInv, Diagnosing, RejectedBeforeExtraction
<1> QED BY <1>1, ScanInvariant, PTL
-----------------------------------------------------------------------------
(* The limits.                                                             *)

Scanning == pc \in {"select", "load", "analyze", "inner"}

(* The candidates that have ended, and the bytes that the accepted totals  *)
(* already count and the inflated total does not.                          *)
Ended == Len(results) + report.skipped
Pending == inner.tmp + (IF pc = "load" THEN Bytes(Head(candidates)) ELSE 0)

(* While candidates are scanned, every byte inflated was accepted: by the  *)
(* budget of the libraries, by the budget of the current inner archive, or *)
(* by that of one of the candidates that ended.                            *)
WorkIsAccepted ==
  inflated + Pending <= report.accepted + Ended * MaxTotalInnerEntryBytes + inner.accepted

LimitInv ==
  /\ inner.accepted <= MaxTotalInnerEntryBytes
  /\ inner.tmp <= MaxSingleInnerEntryBytes /\ inner.best <= MaxSingleInnerEntryBytes
  /\ report.accepted <= MaxTotalRelevantSoBytes
  /\ pc \in {"load", "analyze", "inner"} => Bytes(Head(candidates)) <= MaxSingleSoBytes
  /\ Scanning => report.relevant <= MaxCandidateSoEntries /\ WorkIsAccepted
  /\ ~Scanning => WorkBounded

LEMMA LimitTypes ==
  ASSUME ScanInv
  PROVE  /\ report.accepted \in Nat /\ report.relevant \in Nat /\ report.skipped \in Nat
         /\ inner.accepted \in Nat /\ inner.tmp \in Nat /\ inner.best \in Nat /\ inner.left \in Nat
         /\ inflated \in Nat /\ Ended \in Nat /\ Pending \in Nat
         /\ Scanning => report.relevant = Ended + Len(candidates)
         /\ Len(candidates) \in Nat
         /\ pc \in {"load", "analyze", "inner"} =>
              Bytes(Head(candidates)) \in Nat /\ Len(candidates) >= 1
<1>1. ScanTypeOK /\ AtHand BY DEF ScanInv, Counting
<1>2. /\ report.accepted \in Nat /\ report.relevant \in Nat /\ report.skipped \in Nat
      /\ inner.accepted \in Nat /\ inner.tmp \in Nat /\ inner.best \in Nat /\ inner.left \in Nat
      /\ inflated \in Nat /\ Len(results) \in Nat /\ Len(candidates) \in Nat
  <2>1. report \in Reports /\ inner \in Inners BY <1>1 DEF ScanTypeOK
  <2>2. inflated \in Nat /\ Len(results) \in Nat /\ Len(candidates) \in Nat
    BY <1>1 DEF ScanTypeOK
  <2>3. report.accepted \in Nat /\ report.relevant \in Nat /\ report.skipped \in Nat
    BY <2>1 DEF Reports
  <2>4. inner.accepted \in Nat /\ inner.tmp \in Nat /\ inner.best \in Nat /\ inner.left \in Nat
    BY <2>1, U64IsNatural DEF Inners
  <2> QED BY <2>2, <2>3, <2>4
<1>3. pc \in {"load", "analyze", "inner"} =>
        Bytes(Head(candidates)) \in Nat /\ Len(candidates) >= 1
  <2> SUFFICES ASSUME pc \in {"load", "analyze", "inner"}
               PROVE  Bytes(Head(candidates)) \in Nat /\ Len(candidates) >= 1
    OBVIOUS
  <2>1. candidates # <<>> BY <1>1 DEF AtHand
  <2> QED BY <1>1, <2>1, HeadIsPayload, BytesIsU64 DEF ScanTypeOK
<1>4. Scanning => report.relevant = Ended + Len(candidates)
  BY <1>2 DEF ScanInv, Counting, Scanning, Ended
<1>5. Pending \in Nat BY <1>2, <1>3 DEF Pending
<1>6. Ended \in Nat BY <1>2 DEF Ended
<1> QED BY <1>2, <1>3, <1>4, <1>5, <1>6

(* One more candidate is worth one more inner budget. *)
LEMMA OneMoreBudget ==
  ASSUME NEW k \in Nat, NEW budget \in Nat
  PROVE  (k + 1) * budget = k * budget + budget /\ k * budget \in Nat
OBVIOUS

LEMMA MoreBudgets ==
  ASSUME NEW k \in Nat, NEW n \in Nat, NEW budget \in Nat, k <= n
  PROVE  k * budget <= n * budget
OBVIOUS

LEMMA WorkFollows ==
  ASSUME ScanInv, LimitInv PROVE WorkBounded
<1>1. CASE ~Scanning BY <1>1 DEF LimitInv
<1>2. CASE Scanning
  <2> DEFINE most == MaxCandidateSoEntries
             budget == MaxTotalInnerEntryBytes
             k == Ended
             spent == k * budget
             all == most * budget
             own == inner.accepted
             taken == report.accepted
             coming == Len(candidates)
  <2>1. budget \in Nat /\ most \in Nat /\ MaxTotalRelevantSoBytes \in Nat
    BY LimitsAreNatural
  <2>2. /\ k + coming <= most
        /\ inflated + Pending <= taken + spent + own
        /\ taken <= MaxTotalRelevantSoBytes /\ own <= budget
    BY <1>2, LimitTypes DEF LimitInv, WorkIsAccepted
  <2>3. /\ k \in Nat /\ coming \in Nat /\ own \in Nat /\ taken \in Nat
        /\ Pending \in Nat /\ inflated \in Nat
        /\ pc = "inner" => coming >= 1
        /\ pc # "inner" => own = 0
    <3>1. pc # "inner" => own = 0
      BY <1>2 DEF Scanning, ScanInv, InnerInv, NoInner
    <3> QED BY <3>1, LimitTypes
  <2> HIDE DEF most, budget, k, own, taken, coming
  <2>4. spent \in Nat /\ all \in Nat
    BY <2>1, <2>3
  <2>5. spent + own <= all
    <3>1. CASE pc = "inner"
      <4>1. k + 1 <= most /\ k + 1 \in Nat
        BY <2>1, <2>2, <2>3, <3>1
      <4>2. (k + 1) * budget <= all
        BY <2>1, <4>1, MoreBudgets
      <4>3. (k + 1) * budget = spent + budget
        BY <2>1, <2>3, OneMoreBudget
      <4> HIDE DEF spent, all
      <4> QED BY <4>2, <4>3, <2>1, <2>2, <2>3, <2>4
    <3>2. CASE pc # "inner"
      <4>1. k <= most
        BY <2>1, <2>2, <2>3
      <4>2. spent <= all
        BY <2>1, <2>3, <4>1, MoreBudgets
      <4> HIDE DEF spent, all
      <4> QED BY <4>2, <3>2, <2>3, <2>4
    <3> QED BY <3>1, <3>2
  <2> HIDE DEF spent, all
  <2>6. inflated <= MaxTotalRelevantSoBytes + all
    BY <2>1, <2>2, <2>3, <2>4, <2>5
  <2> QED BY <2>6 DEF WorkBounded, all, budget, most
<1> QED BY <1>1, <1>2

(* A step inside the archive of the current candidate. *)
LEMMA InnerWithin ==
  ASSUME ScanInv, LimitInv, pc \in {"analyze", "inner"}, pc' = "inner",
         candidates' = candidates, results' = results,
         report'.accepted = report.accepted, report'.skipped = report.skipped,
         report'.relevant = report.relevant,
         NEW t \in Nat, NEW a \in Nat, NEW n \in Nat,
         inner'.tmp = t, inner'.accepted = a, inflated' = n,
         a <= MaxTotalInnerEntryBytes, t <= MaxSingleInnerEntryBytes,
         inner'.best <= MaxSingleInnerEntryBytes,
         n + t + inner.accepted <= inflated + inner.tmp + a
  PROVE  LimitInv'
<1> DEFINE spent == Ended * MaxTotalInnerEntryBytes
<1>1. spent \in Nat /\ Ended' = Ended
  BY LimitTypes, LimitsAreNatural, OneMoreBudget DEF Ended
<1> DEFINE taken == report.accepted  own == inner.accepted  held == inner.tmp
<1>2. Scanning /\ Pending = inner.tmp
  <2>1. inner.tmp \in Nat BY LimitTypes
  <2> QED BY <2>1 DEF Scanning, Pending
<1>3. Scanning' /\ Pending' = t
  BY DEF Scanning, Pending
<1>4. /\ inflated + held <= taken + spent + own
      /\ n + t + own <= inflated + held + a
      /\ inflated \in Nat /\ held \in Nat /\ taken \in Nat /\ own \in Nat
  BY <1>2, LimitTypes DEF LimitInv, WorkIsAccepted
<1> HIDE DEF spent, taken, own, held
<1>5. n + t <= taken + spent + a
  BY <1>1, <1>4
<1>6. WorkIsAccepted'
  BY <1>1, <1>3, <1>5 DEF WorkIsAccepted, spent, taken
<1> QED BY <1>2, <1>3, <1>6 DEF LimitInv

(* The current candidate ends. *)
LEMMA EndsWithin ==
  ASSUME ScanInv, LimitInv, Scanning, pc' = "select", inner' = NoInner,
         Ended' = Ended + 1, report'.accepted = report.accepted,
         report'.relevant = report.relevant,
         NEW n \in Nat, inflated' = n, n <= inflated + Pending
  PROVE  LimitInv'
<1> DEFINE budget == MaxTotalInnerEntryBytes
           spent == Ended * budget
<1>1. (Ended + 1) * budget = spent + budget /\ spent \in Nat /\ budget \in Nat
  BY LimitTypes, LimitsAreNatural, OneMoreBudget
<1> DEFINE taken == report.accepted  own == inner.accepted  held == Pending
<1>2. /\ inflated + held <= taken + spent + own /\ own <= budget /\ n <= inflated + held
      /\ inflated \in Nat /\ held \in Nat /\ taken \in Nat /\ own \in Nat
  BY LimitTypes DEF LimitInv, WorkIsAccepted
<1>3. Scanning' /\ Pending' = 0 /\ inner'.accepted = 0 /\ inner'.tmp = 0 /\ inner'.best = 0
  BY DEF Scanning, Pending, NoInner
<1> HIDE DEF spent, budget, taken, own, held
<1>4. n + 0 <= taken + (spent + budget) + 0
  BY <1>1, <1>2
<1>5. n + 0 <= taken + (Ended + 1) * budget + 0
  BY <1>1, <1>4
<1>6. WorkIsAccepted'
  BY <1>3, <1>5 DEF WorkIsAccepted, budget, taken
<1> QED BY <1>3, <1>6, LimitsAreNatural DEF LimitInv, Scanning
(* Outside of the candidates nothing is inflated. *)
LEMMA OutsideWithin ==
  ASSUME ScanInv, LimitInv, ~Scanning', inner' = inner, inflated' = inflated,
         report'.accepted \in {report.accepted, 0}
  PROVE  LimitInv'
<1>1. WorkBounded BY WorkFollows
<1>2. report'.accepted <= MaxTotalRelevantSoBytes
  BY LimitsAreNatural DEF LimitInv
<1>3. pc' \notin {"load", "analyze", "inner"} BY DEF Scanning
<1> QED BY <1>1, <1>2, <1>3 DEF LimitInv, WorkBounded

(* What the size policy and the budgets let through. *)
LEMMA AllowedFits ==
  ASSUME NEW p \in Payloads, NEW limit \in U64, evaluate_zip_payload(p, limit) = "allow"
  PROVE  Bytes(p) \in Nat /\ Bytes(p) <= limit
<1>1. p \in ZipPayloadMetadata BY ScanAssumption
<1>2. AllowIsExact(p, limit) BY <1>1, PolicyIsExact
<1>3. limit \in Nat BY U64IsNatural
<1> QED BY <1>2, <1>3 DEF AllowIsExact, Bytes

LEMMA BudgetFits ==
  ASSUME NEW a \in Nat, NEW p \in Payloads, NEW most \in U64, a <= most,
         fits_cumulative_budget(a, Bytes(p), most)
  PROVE  a + Bytes(p) <= most
<1>1. most \in Nat /\ MaxU64 \in Nat BY U64IsNatural, LimitsAssumption
<1>2. a \in U64 BY <1>1, LimitsAssumption DEF U64
<1> QED BY <1>2, BytesIsU64, BudgetsAreExact DEF FitIsExact

LEMMA LimitsAreU64 ==
  /\ MaxSingleSoBytes \in U64 /\ MaxTotalRelevantSoBytes \in U64
  /\ MaxSingleInnerEntryBytes \in U64 /\ MaxTotalInnerEntryBytes \in U64
BY ScanAssumption

(* What the steps do to the counters of the budgets. *)
LEMMA RecordedAccepts ==
  ASSUME NEW r \in Reports
  PROVE  /\ Warn(r).accepted = r.accepted /\ Warn(r).skipped = r.skipped
         /\ Warn(r).relevant = r.relevant
         /\ \A status \in Statuses : Stop(r, status).accepted = r.accepted
<1>1. ASSUME NEW status \in Statuses PROVE Stop(r, status).accepted = r.accepted
  <2> DEFINE s == [r EXCEPT !.status = status]
  <2>1. s \in Reports /\ s.accepted = r.accepted BY DEF Reports
  <2>2. Stop(r, status) = record_scan_diagnostic(s, "error") BY DEF Stop
  <2> HIDE DEF s
  <2> QED BY <2>1, <2>2, RecordFacts
<1> QED BY <1>1, RecordFacts DEF Warn

LEMMA SkipEnds ==
  ASSUME ScanInv, candidates # <<>>, SkipCandidate
  PROVE  /\ Ended' = Ended + 1 /\ pc' = "select" /\ inner' = NoInner
         /\ report'.accepted = report.accepted /\ report'.relevant = report.relevant
<1> DEFINE r == [report EXCEPT !.skipped = @ + 1]
<1>1. ScanTypeOK BY DEF ScanInv
<1>2. report'.skipped = report.skipped + 1 /\ Same /\ results' = results
  BY <1>1, SkipEffect
<1>3. report.skipped \in Nat /\ Len(results) \in Nat
  BY <1>1 DEF ScanTypeOK, Reports
<1>4. r \in Reports /\ r.accepted = report.accepted BY <1>1 DEF ScanTypeOK, Reports
<1>5. report' = Warn(r) BY DEF SkipCandidate, Skipped
<1> HIDE DEF r
<1>6. report'.accepted = report.accepted BY <1>4, <1>5, RecordedAccepts
<1>7. Ended' = Ended + 1
  <2> DEFINE n == Len(results)  m == report.skipped
  <2>1. Ended = n + m /\ Ended' = n + (m + 1) /\ n \in Nat /\ m \in Nat
    BY <1>2, <1>3 DEF Ended
  <2> HIDE DEF n, m
  <2> QED BY <2>1
<1> QED BY <1>2, <1>6, <1>7 DEF Same, SkipCandidate, NextCandidate

LEMMA AddEnds ==
  ASSUME ScanInv, candidates # <<>>, NEW ending, AddResult(ending)
  PROVE  /\ Ended' = Ended + 1 /\ pc' = "select" /\ inner' = NoInner
         /\ report'.accepted = report.accepted /\ report'.relevant = report.relevant
         /\ inflated' = inflated
<1>1. ScanTypeOK BY DEF ScanInv
<1>2. Len(results') = Len(results) + 1 /\ report' = report /\ inflated' = inflated
  BY <1>1, AddEffect
<1>3. report.skipped \in Nat /\ Len(results) \in Nat
  BY <1>1 DEF ScanTypeOK, Reports
<1>4. Ended' = Ended + 1
  <2> DEFINE n == Len(results)  m == report.skipped
  <2>1. Ended = n + m /\ Ended' = (n + 1) + m /\ n \in Nat /\ m \in Nat
    BY <1>2, <1>3 DEF Ended
  <2> HIDE DEF n, m
  <2> QED BY <2>1
<1> QED BY <1>2, <1>4 DEF AddResult, NextCandidate

(* The steps inside an archive, one effect at a time. *)
LEMMA ReportInnerEffect ==
  ASSUME ScanInv, NEW i \in Inners, ReportInner(i)
  PROVE  /\ inner'.tmp = i.tmp /\ inner'.accepted = i.accepted /\ inner'.best = i.best
         /\ inner'.left = i.left /\ inner'.rank = i.rank
         /\ report'.accepted = report.accepted /\ report'.skipped = report.skipped
         /\ report'.relevant = report.relevant
<1>1. report \in Reports BY DEF ScanInv, ScanTypeOK
<1>2. inner' = [i EXCEPT !.failed = TRUE] /\ report' = Warn(report) BY DEF ReportInner
<1> QED BY <1>1, <1>2, RecordedAccepts DEF Inners
LEMMA NextInnerEffect ==
  ASSUME ScanInv, LimitInv, pc = "inner", inner.left > 0
  PROVE  /\ NextInner \in Inners
         /\ NextInner.tmp = 0 /\ NextInner.accepted = inner.accepted
         /\ NextInner.best = inner.best /\ NextInner.rank = inner.rank
         /\ NextInner.left = inner.left - 1
<1>1. ScanTypeOK BY DEF ScanInv
<1>2. NextInner.rank = inner.rank BY <1>1 DEF NextInner, ScanTypeOK, Inners
<1> QED BY <1>1, <1>2, NextInnerFacts

LEMMA LimitStep == ASSUME ScanInv, LimitInv, Next PROVE LimitInv'
<1> USE DEF ghosts
<1>0. AtHand /\ ScanTypeOK /\ InnerInv BY DEF ScanInv, Counting
<1>r. report \in Reports /\ inner \in Inners BY <1>0 DEF ScanTypeOK
<1>t. /\ inflated \in Nat /\ inner.tmp \in Nat /\ inner.accepted \in Nat /\ inner.left \in Nat
      /\ report.accepted \in Nat
  BY LimitTypes
<1>l. /\ inner.accepted <= MaxTotalInnerEntryBytes /\ inner.tmp <= MaxSingleInnerEntryBytes
      /\ inner.best <= MaxSingleInnerEntryBytes
  BY DEF LimitInv
<1>n. /\ MaxSingleSoBytes \in Nat /\ MaxTotalRelevantSoBytes \in Nat
      /\ MaxSingleInnerEntryBytes \in Nat /\ MaxTotalInnerEntryBytes \in Nat
  BY LimitsAreNatural
<1>1. CASE Refuse
  <2>1. PICK status \in {"REJECTED", "ERROR"} : report' = Stop(report, status)
    BY <1>1 DEF Refuse
  <2>2. report'.accepted = report.accepted BY <2>1, <1>r, RecordedAccepts DEF Statuses
  <2> QED BY <1>1, <2>2, OutsideWithin DEF Refuse, Scanning
<1>2. CASE Open \/ ListOther
  BY <1>2, OutsideWithin DEF Open, ListOther, Scanning
<1>3. CASE StatFails
  <2>1. report'.accepted = report.accepted BY <1>3, <1>r, RecordedAccepts DEF StatFails
  <2> QED BY <1>3, <2>1, OutsideWithin DEF StatFails, Scanning
<1>4. ASSUME NEW p \in Payloads, ListLibrary(p) PROVE LimitInv'
  <2>1. report'.accepted = report.accepted BY <1>4, <1>r DEF ListLibrary, Reports
  <2> QED BY <1>4, <2>1, OutsideWithin DEF ListLibrary, Scanning
<1>5. CASE RejectCandidates
  <2> DEFINE r == [report EXCEPT !.skipped = report.relevant]
  <2>1. r \in Reports /\ r.accepted = report.accepted BY <1>r DEF Reports
  <2>2. report' = Stop(r, "REJECTED") BY <1>5 DEF RejectCandidates
  <2> HIDE DEF r
  <2>3. report'.accepted = report.accepted BY <2>1, <2>2, RecordedAccepts DEF Statuses
  <2> QED BY <1>5, <2>3, OutsideWithin DEF RejectCandidates, Scanning
<1>6. CASE StartCandidates
  <2>1. /\ pc = "list" /\ pc' = "select" /\ report' = report /\ results' = results
        /\ inner' = inner /\ inflated' = inflated /\ candidates' = candidates
        /\ report.relevant <= MaxCandidateSoEntries
    BY <1>6 DEF StartCandidates, CandidatesFit
  <2>2. inflated = 0 /\ inner = NoInner
    BY <2>1 DEF ScanInv, Diagnosing, InnerInv
  <2>3. Ended' \in Nat /\ Pending' = 0
    BY <2>1, <2>2, LimitTypes DEF Ended, Pending, NoInner
  <2> DEFINE spent == Ended' * MaxTotalInnerEntryBytes
  <2>4. spent \in Nat /\ inner.accepted = 0 /\ report'.accepted \in Nat
    BY <2>1, <2>2, <2>3, <1>n, <1>t, OneMoreBudget DEF NoInner
  <2> HIDE DEF spent
  <2>5. 0 + 0 <= report'.accepted + spent + 0
    BY <2>4
  <2>6. WorkIsAccepted'
    BY <2>1, <2>2, <2>3, <2>4, <2>5 DEF WorkIsAccepted, spent
  <2> QED BY <2>1, <2>6 DEF LimitInv, Scanning
<1>7. CASE RefuseCandidate
  <2>1. candidates # <<>> /\ SkipCandidate /\ inflated' = inflated /\ Scanning
    BY <1>7 DEF RefuseCandidate, Scanning
  <2>2. inflated <= inflated + Pending BY LimitTypes
  <2> QED BY <2>1, <2>2, <1>t, SkipEnds, EndsWithin
<1>8. CASE AcceptCandidate
  <2> DEFINE p == Head(candidates)
             b == Bytes(p)
  <2>1. /\ pc = "select" /\ pc' = "load" /\ candidates # <<>>
        /\ candidates' = candidates /\ results' = results /\ inner' = inner
        /\ inflated' = inflated
        /\ SoDecision(p) = "allow" /\ SoFits(p)
        /\ report' = [report EXCEPT !.accepted = @ + b]
    BY <1>8 DEF AcceptCandidate
  <2>2. p \in Payloads BY <2>1, <1>0, HeadIsPayload
  <2>3. b \in Nat /\ b <= MaxSingleSoBytes
    BY <2>1, <2>2, LimitsAreU64, AllowedFits DEF SoDecision
  <2>4. report.accepted + b <= MaxTotalRelevantSoBytes
    BY <2>1, <2>2, <1>t, LimitsAreU64, BudgetFits DEF SoFits, LimitInv
  <2>5. /\ report'.accepted = report.accepted + b /\ report'.relevant = report.relevant
        /\ report'.skipped = report.skipped
    BY <2>1, <1>r DEF Reports
  <2>6. inner = NoInner BY <2>1 DEF ScanInv, InnerInv
  <2>7. Pending = 0 /\ Pending' = 0 + b /\ Ended' = Ended
    BY <2>1, <2>5, <2>6 DEF Pending, Ended, NoInner
  <2>8. WorkIsAccepted'
    <3> DEFINE spent == Ended * MaxTotalInnerEntryBytes  taken == report.accepted
    <3>1. spent \in Nat /\ taken \in Nat BY <1>n, <1>t, LimitTypes, OneMoreBudget
    <3>2. inflated + 0 <= taken + spent + 0
      BY <2>1, <2>6, <2>7 DEF LimitInv, Scanning, WorkIsAccepted, NoInner
    <3> HIDE DEF spent, taken, b
    <3>3. inflated + (0 + b) <= (taken + b) + spent + 0
      BY <3>1, <3>2, <2>3, <1>t
    <3> QED BY <3>3, <2>1, <2>5, <2>6, <2>7 DEF WorkIsAccepted, spent, taken, NoInner
  <2> QED BY <2>1, <2>3, <2>4, <2>5, <2>8 DEF LimitInv, Scanning
<1>9. CASE LoadFails
  <2>1. candidates # <<>> /\ SkipCandidate /\ Scanning /\ pc = "load"
    BY <1>9, <1>0 DEF LoadFails, Scanning, AtHand
  <2> DEFINE b == Bytes(Head(candidates))
  <2>2. b \in Nat /\ inner.tmp = 0 /\ Pending = 0 + b
    BY <2>1, LimitTypes DEF ScanInv, InnerInv, NoInner, Pending
  <2>3. PICK n \in {0, b} : inflated' = inflated + n
    BY <1>9 DEF LoadFails
  <2> HIDE DEF b
  <2>4. inflated + n \in Nat /\ inflated + n <= inflated + Pending
    BY <2>2, <2>3, <1>t
  <2> QED BY <2>1, <2>3, <2>4, SkipEnds, EndsWithin
<1>10. CASE Load
  <2> DEFINE b == Bytes(Head(candidates))
  <2>1. /\ pc = "load" /\ pc' = "analyze" /\ candidates' = candidates /\ results' = results
        /\ inner' = inner /\ report' = report /\ inflated' = inflated + b
    BY <1>10 DEF Load
  <2>2. inner = NoInner /\ b \in Nat
    BY <2>1, LimitTypes DEF ScanInv, InnerInv
  <2>3. Pending = 0 + b /\ Pending' = 0 /\ Ended' = Ended
    BY <2>1, <2>2 DEF Pending, Ended, NoInner
  <2>4. WorkIsAccepted'
    <3> DEFINE spent == Ended * MaxTotalInnerEntryBytes  taken == report.accepted
    <3>1. spent \in Nat /\ taken \in Nat BY <1>n, <1>t, LimitTypes, OneMoreBudget
    <3>2. inflated + (0 + b) <= taken + spent + 0
      BY <2>1, <2>2, <2>3 DEF LimitInv, Scanning, WorkIsAccepted, NoInner
    <3> HIDE DEF spent, taken, b
    <3>3. inflated + b + 0 <= taken + spent + 0
      BY <3>1, <3>2, <2>2, <1>t
    <3> QED BY <3>3, <2>1, <2>2, <2>3 DEF WorkIsAccepted, spent, taken, NoInner
  <2> QED BY <2>1, <2>4 DEF LimitInv, Scanning
<1>11. CASE AnalysisFails
  <2>1. candidates # <<>> /\ SkipCandidate /\ inflated' = inflated /\ Scanning
    BY <1>11, <1>0 DEF AnalysisFails, Scanning, AtHand
  <2>2. inflated <= inflated + Pending BY LimitTypes
  <2> QED BY <2>1, <2>2, <1>t, SkipEnds, EndsWithin
<1>12. CASE AnalyzeFile \/ InnerEnds
  <2>1. PICK ending : AddResult(ending)
    BY <1>12 DEF AnalyzeFile, InnerEnds
  <2>2. candidates # <<>> /\ Scanning
    BY <1>12, <1>0 DEF AnalyzeFile, InnerEnds, Scanning, AtHand
  <2>3. inflated <= inflated + Pending BY LimitTypes
  <2> QED BY <2>1, <2>2, <2>3, <1>t, AddEnds, EndsWithin
<1>13. CASE RefuseInner
  <2>1. ReportInner(inner) /\ pc = "analyze" /\ pc' = "inner" /\ inflated' = inflated
        /\ candidates' = candidates /\ results' = results
    BY <1>13 DEF RefuseInner
  <2> DEFINE t == inner.tmp  a == inner.accepted
  <2>2. inflated + t + a <= inflated + t + a BY <1>t
  <2> QED BY <2>1, <2>2, <1>r, <1>t, <1>l, ReportInnerEffect, InnerWithin
<1>14. CASE OpenInner
  <2>1. PICK n \in 0 .. MaxArchive : inner' = [inner EXCEPT !.left = n] BY <1>14 DEF OpenInner
  <2>2. /\ inner'.tmp = inner.tmp /\ inner'.accepted = inner.accepted
        /\ inner'.best = inner.best
    BY <2>1, <1>r DEF Inners
  <2> DEFINE t == inner.tmp  a == inner.accepted
  <2>3. inflated + t + a <= inflated + t + a BY <1>t
  <2> QED BY <1>14, <2>2, <2>3, <1>t, <1>l, InnerWithin DEF OpenInner
<1>15. CASE InnerNothing
  <2>1. /\ pc = "inner" /\ pc' = pc /\ inner.left > 0 /\ inner.tmp = 0 /\ inner' = NextInner
        /\ candidates' = candidates /\ results' = results /\ report' = report
        /\ inflated' = inflated
    BY <1>15 DEF InnerNothing, EntryAtHand
  <2> DEFINE a == inner.accepted
  <2>2. inflated + 0 + a <= inflated + inner.tmp + a /\ 0 \in Nat BY <1>t, <2>1
  <2> QED BY <2>1, <2>2, <1>t, <1>l, <1>n, NextInnerEffect, InnerWithin
<1>16. CASE InnerRefused
  <2>1. /\ pc = "inner" /\ pc' = pc /\ inner.left > 0 /\ inner.tmp = 0
        /\ ReportInner(NextInner)
        /\ candidates' = candidates /\ results' = results /\ inflated' = inflated
    BY <1>16 DEF InnerRefused, EntryAtHand
  <2>2. NextInner \in Inners /\ NextInner.tmp = 0 /\ NextInner.accepted = inner.accepted
        /\ NextInner.best = inner.best
    BY <2>1, NextInnerEffect
  <2> DEFINE a == inner.accepted
  <2>3. inflated + 0 + a <= inflated + inner.tmp + a /\ 0 \in Nat BY <1>t, <2>1
  <2> QED BY <2>1, <2>2, <2>3, <1>t, <1>l, <1>n, ReportInnerEffect, InnerWithin
<1>17. ASSUME NEW p \in Payloads, InnerAccepted(p) PROVE LimitInv'
  <2> DEFINE b == Bytes(p)  a == inner.accepted
  <2>1. /\ pc = "inner" /\ pc' = pc /\ inner.tmp = 0 /\ InnerAllowed(p)
        /\ inner' = [inner EXCEPT !.accepted = a + b, !.tmp = b]
        /\ candidates' = candidates /\ results' = results /\ report' = report
        /\ inflated' = inflated
    BY <1>17 DEF InnerAccepted
  <2>2. b \in Nat /\ b <= MaxSingleInnerEntryBytes
    BY <2>1, LimitsAreU64, AllowedFits DEF InnerAllowed, InnerDecision
  <2>3. a + b <= MaxTotalInnerEntryBytes
    BY <2>1, <1>t, <1>l, LimitsAreU64, BudgetFits DEF InnerAllowed, InnerFits
  <2>4. inner'.tmp = b /\ inner'.accepted = a + b /\ inner'.best = inner.best
    BY <2>1, <1>r DEF Inners
  <2>5. inflated + b + a <= inflated + inner.tmp + (a + b) /\ a + b \in Nat
    BY <2>1, <2>2, <1>t
  <2> HIDE DEF b
  <2> QED BY <2>1, <2>2, <2>3, <2>4, <2>5, <1>t, <1>l, InnerWithin
<1>18. CASE InnerLoadFails
  <2>1. /\ pc = "inner" /\ pc' = pc /\ inner.tmp > 0 /\ inner.left > 0
        /\ ReportInner(NextInner)
        /\ candidates' = candidates /\ results' = results
    BY <1>18, <1>0 DEF InnerLoadFails, InnerInv
  <2>2. NextInner \in Inners /\ NextInner.tmp = 0 /\ NextInner.accepted = inner.accepted
        /\ NextInner.best = inner.best
    BY <2>1, NextInnerEffect
  <2>3. PICK n \in {0, inner.tmp} : inflated' = inflated + n
    BY <1>18 DEF InnerLoadFails
  <2> DEFINE a == inner.accepted
  <2>4. inflated + n + 0 + a <= inflated + inner.tmp + a /\ inflated + n \in Nat /\ 0 \in Nat
    BY <2>3, <1>t
  <2> QED BY <2>1, <2>2, <2>3, <2>4, <1>t, <1>l, <1>n, ReportInnerEffect, InnerWithin
<1>19. CASE InnerElf \/ InnerOther
  <2>1. /\ pc = "inner" /\ pc' = pc /\ inner.tmp > 0 /\ inner.left > 0
        /\ candidates' = candidates /\ results' = results /\ report' = report
        /\ inflated' = inflated + inner.tmp
    BY <1>19, <1>0 DEF InnerElf, InnerOther, InnerInv
  <2>2. NextInner \in Inners /\ NextInner.tmp = 0 /\ NextInner.accepted = inner.accepted
        /\ NextInner.best = inner.best
    BY <2>1, NextInnerEffect
  <2>3. /\ inner'.tmp = 0 /\ inner'.accepted = inner.accepted
        /\ inner'.best \in {inner.best, inner.tmp}
    <3>1. CASE inner' = NextInner BY <3>1, <2>2
    <3>2. CASE inner' # NextInner
      <4>1. InnerElf BY <1>19, <3>2 DEF InnerOther
      <4>2. PICK arm \in {0, 1} :
              LET rank == [arm |-> arm, size |-> inner.tmp, left |-> inner.left]
              IN  /\ inner' = IF ~Found \/ Better(rank, inner.rank)
                              THEN [NextInner EXCEPT !.best = inner.tmp, !.rank = rank]
                              ELSE NextInner
                  /\ elves' = elves \cup {rank}
        BY <4>1 DEF InnerElf
      <4> DEFINE rank == [arm |-> arm, size |-> inner.tmp, left |-> inner.left]
      <4>3. inner' = [NextInner EXCEPT !.best = inner.tmp, !.rank = rank]
        BY <3>2, <4>2
      <4> HIDE DEF rank
      <4> QED BY <4>3, <2>2 DEF Inners
    <3> QED BY <3>1, <3>2
  <2> DEFINE a == inner.accepted  t == inner.tmp
  <2>4. inflated + t + 0 + a <= inflated + t + a /\ inflated + t \in Nat /\ 0 \in Nat
    BY <1>t
  <2> HIDE DEF a
  <2> QED BY <2>1, <2>3, <2>4, <1>t, <1>l, <1>n, InnerWithin DEF a
<1>20. CASE Link \/ Sort
  <2>1. report'.accepted = report.accepted BY <1>20, <1>r DEF Link, Sort, Reports
  <2> QED BY <1>20, <2>1, OutsideWithin DEF Link, Sort, Scanning
<1>21. CASE ScanThrows
  <2>1. EmptyReport \in Reports /\ EmptyReport.accepted = 0
    BY DEF EmptyReport, Reports, Statuses
  <2>2. report'.accepted = 0
    BY <1>21, <2>1, RecordedAccepts DEF ScanThrows, Statuses
  <2> QED BY <1>21, <2>2, OutsideWithin DEF ScanThrows, Scanning
<1> QED
  BY <1>1, <1>2, <1>3, <1>4, <1>5, <1>6, <1>7, <1>8, <1>9, <1>10, <1>11, <1>12, <1>13,
     <1>14, <1>15, <1>16, <1>17, <1>18, <1>19, <1>20, <1>21
     DEF Next, Progress
(* Of the ELF files met in an inner archive the best is kept. *)
BestInv ==
  /\ BestElf
  /\ ~Found => elves = {}
  /\ \A e \in elves : e.left > inner.left
  /\ pc \in {"open", "list", "select", "load", "analyze"} => elves = {}

(* A step that leaves the ELF files alone. *)
LEMMA BestStays ==
  ASSUME ScanInv, BestInv, elves' = elves, inner'.rank = inner.rank, inner'.best = inner.best,
         \/ inner'.left \in Nat /\ inner'.left <= inner.left
         \/ elves = {},
         pc' \in {"open", "list", "select", "load", "analyze"} => elves = {}
  PROVE  BestInv'
<1>1. inner.left \in Nat /\ elves \subseteq Ranks
  BY LimitTypes DEF ScanInv, ScanTypeOK
<1>2. \A e \in elves : e.left \in Nat BY <1>1 DEF Ranks
<1>3. \A e \in elves : e.left > inner'.left
  BY <1>1, <1>2 DEF BestInv
<1> QED BY <1>3 DEF BestInv, BestElf, Found

LEMMA RankIsNatural ==
  \A e \in Ranks : e.arm \in Nat /\ e.size \in Nat /\ e.left \in Nat
<1> SUFFICES ASSUME NEW e \in Ranks
             PROVE  e.arm \in Nat /\ e.size \in Nat /\ e.left \in Nat
  OBVIOUS
<1>1. e.arm \in {0, 1} /\ e.size \in U64 /\ e.left \in Nat BY DEF Ranks
<1>2. e.arm \in Nat BY <1>1
<1>3. e.size \in Nat BY <1>1, U64IsNatural
<1> QED BY <1>1, <1>2, <1>3

LEMMA BestIsKept ==
  ASSUME ScanInv, LimitInv, BestInv, InnerElf PROVE BestInv'
<1>0. AtHand /\ ScanTypeOK /\ InnerInv BY DEF ScanInv, Counting
<1>1. /\ pc = "inner" /\ pc' = pc /\ inner.tmp > 0 /\ inner.left > 0 /\ inner \in Inners
      /\ elves \subseteq Ranks
  BY <1>0 DEF InnerElf, InnerInv, ScanTypeOK
<1>2. PICK arm \in {0, 1} :
        LET rank == [arm |-> arm, size |-> inner.tmp, left |-> inner.left]
        IN  /\ inner' = IF ~Found \/ Better(rank, inner.rank)
                        THEN [NextInner EXCEPT !.best = inner.tmp, !.rank = rank]
                        ELSE NextInner
            /\ elves' = elves \cup {rank}
  BY DEF InnerElf
<1> DEFINE new == [arm |-> arm, size |-> inner.tmp, left |-> inner.left]
           old == inner.rank
<1>3. /\ inner.tmp \in Nat /\ inner.tmp # 0 /\ inner.left \in Nat
      /\ NextInner \in Inners /\ NextInner.left = inner.left - 1
      /\ NextInner.best = inner.best /\ NextInner.rank = inner.rank
  BY <1>1, LimitTypes, NextInnerEffect
<1>4. /\ new.arm = arm /\ new.size = inner.tmp /\ new.left = inner.left
      /\ new # NoRank /\ arm \in Nat
  BY <1>3 DEF NoRank
<1>5. \A e \in elves : e.arm \in Nat /\ e.size \in Nat /\ e.left \in Nat
  BY <1>1, RankIsNatural
<1>6. \A e \in elves : e.left > new.left
  BY <1>4 DEF BestInv
<1>7. \A e \in elves \cup {new} : e.left > inner.left - 1
  BY <1>3, <1>4, <1>5, <1>6
<1>8. CASE ~Found \/ Better(new, old)
  <2>1. inner' = [NextInner EXCEPT !.best = inner.tmp, !.rank = new] /\ elves' = elves \cup {new}
    BY <1>2, <1>8
  <2>2. inner'.rank = new /\ inner'.best = new.size /\ inner'.left = inner.left - 1
    BY <2>1, <1>3, <1>4 DEF Inners
  <2>3. ASSUME NEW e \in elves
        PROVE  /\ e.arm <= new.arm
               /\ e.arm = new.arm => e.size <= new.size
               /\ e.arm = new.arm /\ e.size = new.size => e.left < new.left
    <3>1. Found /\ old \in elves
      BY DEF BestInv, BestElf
    <3>2. /\ e.arm <= old.arm
          /\ e.arm = old.arm => e.size <= old.size
      BY <3>1, <1>5 DEF BestInv, BestElf
    <3>3. new.arm > old.arm \/ (new.arm = old.arm /\ new.size > old.size)
      BY <1>8, <3>1 DEF Better
    <3>4. /\ e.arm \in Nat /\ e.size \in Nat /\ old.arm \in Nat /\ old.size \in Nat
          /\ new.arm \in Nat /\ new.size \in Nat
      BY <3>1, <1>3, <1>4, <1>5
    <3> HIDE DEF new, old
    <3> QED BY <3>2, <3>3, <3>4
  <2> HIDE DEF new
  <2> QED BY <1>1, <1>4, <1>7, <2>1, <2>2, <2>3 DEF BestInv, BestElf, Found
<1>9. CASE Found /\ ~Better(new, old)
  <2>1. inner' = NextInner /\ elves' = elves \cup {new}
    BY <1>2, <1>9
  <2>2. inner'.rank = old /\ inner'.best = inner.best /\ inner'.left = inner.left - 1
    BY <2>1, <1>3
  <2>3. old \in elves /\ inner.best = old.size
    BY <1>9 DEF BestInv, BestElf
  <2>4. /\ old.arm \in Nat /\ old.size \in Nat /\ old.left \in Nat /\ old.left > new.left
        /\ new.arm \in Nat /\ new.size \in Nat /\ new.left \in Nat
    BY <2>3, <1>3, <1>4, <1>5, <1>6
  <2>5. /\ new.arm <= old.arm
        /\ new.arm = old.arm => new.size <= old.size
        /\ new.left < old.left
    <3>1. ~(new.arm > old.arm \/ (new.arm = old.arm /\ new.size > old.size))
      BY <1>9 DEF Better
    <3> HIDE DEF new, old
    <3> QED BY <3>1, <2>4
  <2>6. \A e \in elves \ {old} :
          /\ e.arm <= old.arm
          /\ e.arm = old.arm => e.size <= old.size
          /\ e.arm = old.arm /\ e.size = old.size => e.left < old.left
    BY <1>9 DEF BestInv, BestElf
  <2> HIDE DEF new, old
  <2> QED BY <1>1, <1>7, <2>1, <2>2, <2>3, <2>5, <2>6, <1>9 DEF BestInv, BestElf, Found, old
<1> QED BY <1>8, <1>9

(* A step to the next candidate forgets them. *)
LEMMA BestForgotten ==
  ASSUME elves' = {}, inner' = NoInner PROVE BestInv'
BY DEF BestInv, BestElf, Found, NoInner

LEMMA BestStep == ASSUME ScanInv, LimitInv, BestInv, Next PROVE BestInv'
<1> USE DEF ghosts
<1>0. AtHand /\ ScanTypeOK /\ InnerInv BY DEF ScanInv, Counting
<1>r. inner \in Inners /\ inner.left \in Nat BY <1>0, LimitTypes DEF ScanTypeOK
<1>1. CASE \/ Refuse \/ Open \/ StatFails \/ ListOther \/ RejectCandidates \/ StartCandidates
           \/ AcceptCandidate \/ Load
           \/ \E p \in Payloads : ListLibrary(p)
  <2>1. inner' = inner /\ elves' = elves /\ elves = {}
    BY <1>1 DEF Refuse, Open, StatFails, ListOther, RejectCandidates, StartCandidates,
                AcceptCandidate, Load, ListLibrary, BestInv
  <2> QED BY <2>1, BestStays
<1>2. CASE Link \/ Sort \/ ScanThrows
  <2>1. inner' = inner /\ elves' = elves /\ pc' \in {"sort", "done"}
    BY <1>2 DEF Link, Sort, ScanThrows
  <2>2. inner.left <= inner.left BY <1>r
  <2> QED BY <2>1, <2>2, <1>r, BestStays
<1>3. CASE RefuseCandidate \/ LoadFails \/ AnalysisFails
  BY <1>3, BestForgotten DEF RefuseCandidate, LoadFails, AnalysisFails, SkipCandidate, NextCandidate
<1>4. CASE AnalyzeFile \/ InnerEnds
  BY <1>4, BestForgotten DEF AnalyzeFile, InnerEnds, AddResult, NextCandidate
<1>5. CASE RefuseInner
  <2>1. ReportInner(inner) /\ elves' = elves /\ elves = {} /\ pc' = "inner"
    BY <1>5 DEF RefuseInner, BestInv
  <2> QED BY <2>1, <1>r, ReportInnerEffect, BestStays
<1>6. CASE OpenInner
  <2>1. elves' = elves /\ elves = {} /\ pc' = "inner"
    BY <1>6 DEF OpenInner, BestInv
  <2>2. PICK n \in 0 .. MaxArchive : inner' = [inner EXCEPT !.left = n] BY <1>6 DEF OpenInner
  <2>3. inner'.rank = inner.rank /\ inner'.best = inner.best BY <2>2, <1>r DEF Inners
  <2> QED BY <2>1, <2>3, BestStays
<1>7. CASE InnerNothing \/ InnerOther \/ InnerRefused \/ InnerLoadFails
  <2>1. /\ pc = "inner" /\ pc' = "inner" /\ inner.left > 0 /\ elves' = elves
        /\ inner' = NextInner \/ ReportInner(NextInner)
    BY <1>7, <1>0 DEF InnerNothing, InnerOther, InnerRefused, InnerLoadFails, EntryAtHand, InnerInv
  <2>2. /\ NextInner \in Inners /\ NextInner.best = inner.best /\ NextInner.rank = inner.rank
        /\ NextInner.left = inner.left - 1
    BY <2>1, NextInnerEffect
  <2>3. /\ inner'.best = inner.best /\ inner'.rank = inner.rank
        /\ inner'.left = inner.left - 1
    BY <2>1, <2>2, ReportInnerEffect
  <2>4. inner.left - 1 \in Nat /\ inner.left - 1 <= inner.left BY <1>r, <2>1
  <2> QED BY <2>1, <2>3, <2>4, BestStays
<1>8. ASSUME NEW p \in Payloads, InnerAccepted(p) PROVE BestInv'
  <2>1. pc' = "inner" /\ elves' = elves BY <1>8 DEF InnerAccepted
  <2>2. inner'.rank = inner.rank /\ inner'.best = inner.best /\ inner'.left = inner.left
    BY <1>8, <1>r DEF InnerAccepted, Inners
  <2>3. inner.left <= inner.left BY <1>r
  <2> QED BY <2>1, <2>2, <2>3, <1>r, BestStays
<1>9. CASE InnerElf BY <1>9, BestIsKept
<1> QED
  BY <1>1, <1>2, <1>3, <1>4, <1>5, <1>6, <1>7, <1>8, <1>9 DEF Next, Progress

(* The two are inductive together with the invariant of the counters. *)
LEMMA LimitsInvariant == Spec => [](ScanInv /\ LimitInv /\ BestInv)
<1>1. Init => LimitInv /\ BestInv
  <2> SUFFICES ASSUME Init PROVE LimitInv /\ BestInv OBVIOUS
  <2>1. BestInv BY BestForgotten DEF Init, BestInv, BestElf, Found, NoInner
  <2>2. ~Scanning /\ report.accepted = 0 /\ inflated = 0
        /\ inner.accepted = 0 /\ inner.tmp = 0 /\ inner.best = 0
        /\ pc = "open"
    BY DEF Init, Scanning, EmptyReport, NoInner
  <2> DEFINE all == MaxCandidateSoEntries * MaxTotalInnerEntryBytes
  <2>3. /\ all \in Nat /\ MaxTotalRelevantSoBytes \in Nat /\ MaxTotalInnerEntryBytes \in Nat
        /\ MaxSingleInnerEntryBytes \in Nat
    BY LimitsAreNatural, OneMoreBudget
  <2> HIDE DEF all
  <2>4. 0 <= MaxTotalRelevantSoBytes + all BY <2>3
  <2>5. WorkBounded BY <2>2, <2>4 DEF WorkBounded, all
  <2> QED BY <2>1, <2>2, <2>3, <2>5 DEF LimitInv
<1>2. ScanInv /\ LimitInv /\ BestInv /\ [Next]_vars => LimitInv' /\ BestInv'
  <2> SUFFICES ASSUME ScanInv, LimitInv, BestInv, [Next]_vars PROVE LimitInv' /\ BestInv'
    OBVIOUS
  <2>1. CASE Next BY <2>1, LimitStep, BestStep
  <2>2. CASE UNCHANGED vars
    <3> USE DEF ghosts
    <3>1. LimitInv'
      BY <2>2 DEF vars, LimitInv, Scanning, WorkIsAccepted, Pending, Ended, WorkBounded
    <3>2. BestInv'
      BY <2>2 DEF vars, BestInv, BestElf, Found
    <3> QED BY <3>1, <3>2
  <2> QED BY <2>1, <2>2
<1> QED BY <1>1, <1>2, ScanInvInit, ScanInvStep, PTL DEF Spec

(* However many libraries and inner archives a package holds, and however  *)
(* many attempts fail: what is inflated at a time and in all stays within  *)
(* the limits.                                                             *)
THEOREM LimitsHold == Spec => []WithinLimits
<1>1. ScanInv /\ LimitInv => MemoryBounded
  <2> SUFFICES ASSUME ScanInv, LimitInv PROVE MemoryBounded OBVIOUS
  <2> DEFINE h == IF pc \in {"load", "analyze", "inner"} THEN Bytes(Head(candidates)) ELSE 0
             t == inner.tmp
             b == inner.best
  <2>1. /\ h \in Nat /\ t \in Nat /\ b \in Nat
        /\ h <= MaxSingleSoBytes /\ t <= MaxSingleInnerEntryBytes /\ b <= MaxSingleInnerEntryBytes
        /\ MaxSingleSoBytes \in Nat /\ MaxSingleInnerEntryBytes \in Nat
    BY LimitTypes, LimitsAreNatural DEF LimitInv
  <2> HIDE DEF h, t, b
  <2>2. h + t + b <= MaxSingleSoBytes + 2 * MaxSingleInnerEntryBytes BY <2>1
  <2> QED BY <2>2 DEF MemoryBounded, Held, h, t, b
<1>2. ScanInv /\ LimitInv => WorkBounded BY WorkFollows
<1>3. ScanInv /\ LimitInv => WithinLimits BY <1>1, <1>2 DEF WithinLimits
<1> QED BY <1>3, LimitsInvariant, PTL

(* The ELF analysed in place of a library that is an archive is the best   *)
(* one in it, in whatever order the entries come and whichever fail.       *)
THEOREM BestElfIsKept == Spec => []BestElf
<1>1. BestInv => BestElf BY DEF BestInv
<1> QED BY <1>1, LimitsInvariant, PTL
=============================================================================
