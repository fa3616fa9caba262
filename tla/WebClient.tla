------------------------------ MODULE WebClient ------------------------------
(***************************************************************************)
(* The page that web_server.py serves: what a user may click, choose, drop *)
(* and reload while the answers of /status and /analyze are under way.     *)
(* The server is external: each request is answered once, in any order and *)
(* at any time, or breaks off.                                             *)
(***************************************************************************)
EXTENDS Naturals, FiniteSets

CONSTANTS
  Files,        \* what a user may choose or drop
  Apks,         \* those whose name ends in .apk or .hap
  NoFile, NoScan,
  MaxSubmits    \* scans of one user: a bound for TLC

Langs == {"zh", "en"}

ASSUME FilesAssumption ==
  /\ Apks \subseteq Files /\ NoFile \notin Files
  /\ NoScan \notin [n : Nat, file : Apks, lang : Langs]

VARIABLES
  currentLang,
  lastResult,       \* the scan whose result is kept, or NoScan
  selectedFile,
  inputFile,        \* apkInput.files[0]
  engineState,      \* what the engine card says
  busy,             \* setBusy: the submit and the language buttons are disabled
  resultsSection,   \* is it visible, and what do summary and resultList hold
  statusCall,       \* the fetch of /status is under way
  analyzeCalls,     \* the fetches of /analyze under way
  submits

files    == <<selectedFile, inputFile>>
requests == <<statusCall, analyzeCalls, submits>>
page_vars == <<currentLang, lastResult, files, engineState, busy, resultsSection, requests>>

(* What summary and resultList hold: the labels are in lang, the findings  *)
(* of a scan in the language of its request.                               *)
Blank == [kind |-> "nothing", lang |-> "zh", scan |-> NoScan]
FreshPage ==
  /\ currentLang' = "zh" /\ lastResult' = NoScan /\ selectedFile' = NoFile
  /\ engineState' = "checking" /\ busy' = FALSE
  /\ resultsSection' = [visible |-> FALSE, content |-> Blank]
  /\ statusCall' = TRUE /\ analyzeCalls' = {}

PageInit ==
  /\ currentLang = "zh" /\ lastResult = NoScan /\ selectedFile = NoFile /\ inputFile = NoFile
  /\ engineState = "checking" /\ busy = FALSE
  /\ resultsSection = [visible |-> FALSE, content |-> Blank]
  /\ statusCall = TRUE /\ analyzeCalls = {} /\ submits = 0

-----------------------------------------------------------------------------
(* The user. *)

(* The answers under way are lost; a browser may restore the file input. *)
Reload == FreshPage /\ inputFile' \in {NoFile, inputFile} /\ UNCHANGED submits

(* A cancelled chooser leaves the input empty. *)
ChooseFile ==
  /\ inputFile' \in (Files \cup {NoFile}) \ {inputFile} /\ selectedFile' = inputFile'
  /\ UNCHANGED <<currentLang, lastResult, engineState, busy, resultsSection, requests>>

DropFile ==
  /\ selectedFile' \in Files
  /\ UNCHANGED <<inputFile, currentLang, lastResult, engineState, busy, resultsSection, requests>>

AlwaysEnabled == TRUE                                              \* mutant
ButtonsEnabled == ~busy

(* The text of an error stays as it is, in the language it was written in. *)
switchLang(language) ==
  /\ ButtonsEnabled
  /\ currentLang' = language
  /\ lastResult' = NoScan
  /\ resultsSection' =
       IF lastResult = NoScan THEN resultsSection
       ELSE [resultsSection EXCEPT
               !.content = [kind |-> "notice", lang |-> language, scan |-> NoScan]]
  /\ UNCHANGED <<files, engineState, busy, requests>>

Chosen == IF selectedFile # NoFile THEN selectedFile ELSE inputFile

Submit ==
  /\ ButtonsEnabled /\ Chosen \in Apks /\ submits < MaxSubmits
  /\ submits' = submits + 1
  /\ analyzeCalls' = analyzeCalls \cup {[n |-> submits + 1, file |-> Chosen, lang |-> currentLang]}
  /\ lastResult' = NoScan /\ busy' = TRUE
  /\ resultsSection' = [resultsSection EXCEPT !.visible = FALSE]
  /\ UNCHANGED <<files, currentLang, engineState, statusCall>>

-----------------------------------------------------------------------------
(* The server. *)

(* Broken off, or not JSON: the catch of the fetch. *)
StatusAnswered ==
  /\ statusCall /\ statusCall' = FALSE
  /\ engineState' \in {"ready", "missing"}
  /\ UNCHANGED <<files, currentLang, lastResult, busy, resultsSection, analyzeCalls, submits>>

(* Only the answers of the scan itself carry an engine. *)
updateEngineState == engineState' \in {engineState, "ready", "missing"}

Finished(scan, kind) ==
  /\ resultsSection' =
       [visible |-> TRUE, content |-> [kind |-> kind, lang |-> currentLang, scan |-> scan]]
  /\ UNCHANGED <<files, currentLang, statusCall, submits>>

(* The finally of the submit handler. *)
OnSuccess(kind) == kind # "results"                                \* mutant
Finally(kind) == FALSE

displayResults(scan) ==
  /\ scan \in analyzeCalls /\ analyzeCalls' = analyzeCalls \ {scan}
  /\ engineState' = "ready" /\ lastResult' = scan /\ busy' = Finally("results")
  /\ Finished(scan, "results")

showError(scan) ==
  /\ scan \in analyzeCalls /\ analyzeCalls' = analyzeCalls \ {scan}
  /\ updateEngineState /\ busy' = Finally("error") /\ UNCHANGED lastResult
  /\ Finished(scan, "error")

AnalyzeAnswered == \E scan \in analyzeCalls : displayResults(scan) \/ showError(scan)

PageNext ==
  \/ Reload \/ ChooseFile \/ DropFile \/ Submit
  \/ \E language \in Langs : switchLang(language)
  \/ StatusAnswered \/ AnalyzeAnswered

(* The server answers /analyze, or the connection breaks: the timeouts of  *)
(* the socket and of the scanner see to it.  Users may do nothing.         *)
PageSpec == PageInit /\ [][PageNext]_page_vars /\ WF_page_vars(AnalyzeAnswered)

-----------------------------------------------------------------------------
(* The results on the screen are those of the scan started last, and their *)
(* findings are in the language of the labels around them, whenever the    *)
(* language was switched, a file dropped or the page reloaded.             *)
ResultsAreCurrent ==
  LET content == resultsSection.content
  IN  /\ content.kind = "results" /\ resultsSection.visible =>
           /\ lastResult = content.scan /\ content.scan.n = submits
           /\ content.scan.lang = currentLang /\ content.lang = currentLang
      /\ Cardinality(analyzeCalls) <= 1

(* Every scan ends in something the user sees, its result or an error, and *)
(* the page can be used again; unless the user has reloaded it.            *)
Concluded(n) ==
  /\ ~busy
  /\ \/ resultsSection.content = Blank
     \/ /\ resultsSection.visible /\ resultsSection.content.kind \in {"results", "error"}
        /\ resultsSection.content.scan.n = n
EveryScanConcludes == \A n \in 1 .. MaxSubmits : busy /\ submits = n ~> Concluded(n)
=============================================================================
