----------------------------- MODULE ScanService -----------------------------
(***************************************************************************)
(* The upload service of web_server.py: one accept loop, a daemon thread   *)
(* per connection, a semaphore of connection slots and one of scan slots,  *)
(* the temporary disk that uploads fill, the scanner process with its      *)
(* deadline, and the responses on a connection.  A handler thread is the   *)
(* connection it serves.                                                   *)
(*                                                                         *)
(* A file is the number of upload chunks in it, a response its status and  *)
(* whether all of it was written.  The disk has other users too, the       *)
(* output files of scanners among them: what is free is at most what       *)
(* uploads leave of it.  Of cgi.FieldStorage nothing is assumed but that   *)
(* it spools what it reads: it does not hold a form to its Content-Length. *)
(* A definition marked "mutant" is not used: it is a way the code could    *)
(* have been wrong.                                                        *)
(***************************************************************************)
EXTENDS Integers, Sequences, FiniteSets

CONSTANTS
  Conns,        \* connections of clients; an identity is reused once closed
  MaxConns,     \* MAX_ACTIVE_CONNECTIONS
  MaxScans,     \* MAX_CONCURRENT_SCANS
  MaxUpload,    \* MAX_UPLOAD_BYTES, in chunks
  DiskSize,     \* the temporary disk, in chunks
  Reserve,      \* MIN_FREE_DISK_RESERVE_BYTES, in chunks
  MaxFaults     \* bound: server deaths and failed unlinks in a behaviour

ASSUME ServiceAssumption ==
  /\ IsFiniteSet(Conns)
  /\ MaxConns \in Nat \ {0} /\ MaxScans \in Nat \ {0} /\ MaxUpload \in Nat \ {0}
  /\ Reserve \in Nat /\ DiskSize \in Nat /\ Reserve <= DiskSize
  /\ MaxFaults \in Nat

VARIABLES
  up,           \* the server process runs
  phase,        \* where the handler of each connection is
  connPermits,  \* the value of _connection_slots
  scanPermits,  \* the value of SCAN_SLOTS
  job,          \* what a handler inside handle_analyze has on disk and running
  pending,      \* how handle_analyze is being left: normally or by an exception
  sent,         \* the responses on each connection, in order
  uploadBytes,  \* disk used by uploads, those left behind included
  excess,       \* of it, what lies beyond the Content-Length of its request
  leaked,       \* disk used by copies nobody will unlink
  orphans,      \* number of scanners that outlived the server that started them
  faults        \* deaths and failed unlinks so far

permits == <<connPermits, scanPermits>>
replies == <<pending, sent>>
disk    == <<uploadBytes, excess, leaked>>
world   == <<up, orphans, faults>>
vars    == <<phase, permits, job, replies, disk, world>>

-----------------------------------------------------------------------------
(* The phases between SCAN_SLOTS.acquire and SCAN_SLOTS.release. *)
ScanPhases ==
  {"admitted", "upload", "silent", "copy", "scan", "cleanup", "except", "release"}
Phases == ScanPhases \cup {"idle", "accepted", "head", "closing"}

ScanHolders == {c \in Conns : phase[c] \in ScanPhases}
ConnHolders == {c \in Conns : phase[c] # "idle"}

(* request: Content-Length; spool: the temporary file of FieldStorage;     *)
(* copy: the NamedTemporaryFile; child: the scanner.                       *)
NoJob == [request |-> 0, spool |-> 0, copy |-> 0, child |-> "none"]

NoLength  == -1      \* no Content-Length
BadHeader == -2      \* not multipart/form-data, or a length that is no number
Lengths   == BadHeader .. MaxUpload + 1

(* What shutil.disk_usage(tempfile.gettempdir()).free may answer. *)
FreeReadings == 0 .. DiskSize - uploadBytes
DiskFull == uploadBytes >= DiskSize

(* The upload is spooled, then copied. *)
SpooledOnly(length) == length + Reserve                            \* mutant
required_free_bytes(length) == 2 * length + Reserve

(* The checks of handle_analyze before it reads the body. *)
RequestStatus(length, free) ==
  CASE length = NoLength -> "411"
    [] length \in {BadHeader, 0} -> "400"
    [] length > MaxUpload -> "413"
    [] OTHER -> IF free < required_free_bytes(length) THEN "507" ELSE "ok"

Goto(c, from, to) == up /\ phase[c] = from /\ phase' = [phase EXCEPT ![c] = to]

(* What a file of n chunks, and the files of a job, have beyond the length *)
(* that was declared.                                                      *)
Over(n, length) == IF length \in 1 .. n THEN n - length ELSE 0
Beyond(j) == Over(j.spool, j.request) + Over(j.copy, j.request)

(* The job of c becomes j; the disk follows the files. *)
SetJob(c, j) ==
  /\ job' = [job EXCEPT ![c] = j]
  /\ uploadBytes' = uploadBytes + (j.spool + j.copy) - (job[c].spool + job[c].copy)
  /\ excess' = excess + Beyond(j) - Beyond(job[c])

(* The handler of c is gone, and with it the spool, which has no name.  A  *)
(* copy stays, and a scanner lives on.                                     *)
Forget(c) ==
  /\ job' = [job EXCEPT ![c] = NoJob]
  /\ uploadBytes' = uploadBytes - job[c].spool
  /\ excess' = excess - Over(job[c].spool, job[c].request)
  /\ leaked' = leaked + (IF pending[c] = "unlink" THEN 0 ELSE job[c].copy)
  /\ orphans' = orphans + (IF job[c].child = "running" THEN 1 ELSE 0)
  /\ pending' = [pending EXCEPT ![c] = "return"]
  /\ sent' = [sent EXCEPT ![c] = <<>>]

Response(status, whole) == [status |-> status, whole |-> whole]

(* A response on c; whole says whether the client was there to the end. *)
Say(c, status, whole) == sent' = [sent EXCEPT ![c] = Append(@, Response(status, whole))]

(* A response inside handle_analyze, where a failing write raises. *)
SendJson(c, status) ==
  \E leaving \in {"return", "timeout", "gone"} :
    Say(c, status, leaving = "return") /\ pending' = [pending EXCEPT ![c] = leaving]

Init ==
  /\ up = TRUE /\ orphans = 0 /\ faults = 0
  /\ phase = [c \in Conns |-> "idle"]
  /\ connPermits = MaxConns /\ scanPermits = MaxScans
  /\ job = [c \in Conns |-> NoJob]
  /\ pending = [c \in Conns |-> "return"]
  /\ sent = [c \in Conns |-> <<>>]
  /\ uploadBytes = 0 /\ excess = 0 /\ leaked = 0

-----------------------------------------------------------------------------
(* The accept loop takes one connection at a time. *)

MainFree == \A d \in Conns : phase[d] # "accepted"

Accept(c) ==
  /\ MainFree /\ connPermits > 0
  /\ Goto(c, "idle", "accepted")
  /\ connPermits' = connPermits - 1
  /\ sent' = [sent EXCEPT ![c] = <<>>]
  /\ UNCHANGED <<scanPermits, job, pending, disk, world>>

(* No connection slot: a bare 503, and the connection is shut. *)
Overloaded(c) ==
  /\ up /\ MainFree /\ connPermits = 0 /\ phase[c] = "idle"
  /\ \E whole \in BOOLEAN : sent' = [sent EXCEPT ![c] = <<Response("503", whole)>>]
  /\ UNCHANGED <<phase, permits, job, pending, disk, world>>

StartThread(c) ==
  /\ Goto(c, "accepted", "head")
  /\ UNCHANGED <<permits, job, replies, disk, world>>

(* The thread cannot be started: the slot is returned, the loop goes on. *)
StartFailsLeaky(c) ==                                              \* mutant
  Goto(c, "accepted", "idle") /\ UNCHANGED <<permits, job, replies, disk, world>>
StartFails(c) ==
  /\ Goto(c, "accepted", "idle")
  /\ connPermits' = connPermits + 1
  /\ UNCHANGED <<scanPermits, job, replies, disk, world>>

(* The finally of process_request_thread, and the end of the thread. *)
ReleaseConn(c) ==
  /\ Goto(c, "closing", "idle")
  /\ connPermits' = connPermits + 1
  /\ Forget(c)
  /\ UNCHANGED <<scanPermits, up, faults>>

-----------------------------------------------------------------------------
(* do_GET, and do_POST up to the scan slot. *)

(* No request within the idle timeout, or the client is gone. *)
HeadFails(c) ==
  /\ Goto(c, "head", "closing")
  /\ UNCHANGED <<permits, job, replies, disk, world>>

Answer(c) ==
  /\ Goto(c, "head", "closing")
  /\ \E status \in {"page", "404"}, whole \in BOOLEAN : Say(c, status, whole)
  /\ UNCHANGED <<permits, job, pending, disk, world>>

AlmostFull == scanPermits <= 1                                     \* mutant
ScanSlotsFull == scanPermits = 0

RefuseScan(c) ==
  /\ ScanSlotsFull
  /\ Goto(c, "head", "closing")
  /\ \E whole \in BOOLEAN : Say(c, "429", whole)
  /\ UNCHANGED <<permits, job, pending, disk, world>>

(* The slot is taken before the request is looked at. *)
AdmitScan(c) ==
  /\ ~ScanSlotsFull
  /\ Goto(c, "head", "admitted")
  /\ scanPermits' = scanPermits - 1
  /\ \E length \in Lengths : job' = [job EXCEPT ![c].request = length]
  /\ UNCHANGED <<connPermits, replies, disk, world>>

-----------------------------------------------------------------------------
(* handle_analyze.  Every way out of it leads through "cleanup". *)

RejectRequest(c) ==
  /\ Goto(c, "admitted", "cleanup")
  /\ \E free \in FreeReadings :
       /\ RequestStatus(job[c].request, free) # "ok"
       /\ SendJson(c, RequestStatus(job[c].request, free))
  /\ UNCHANGED <<permits, job, disk, world>>

(* The disk is looked at once, and written to later. *)
StartUpload(c) ==
  /\ \E free \in FreeReadings : RequestStatus(job[c].request, free) = "ok"
  /\ Goto(c, "admitted", "upload")
  /\ UNCHANGED <<permits, job, replies, disk, world>>

(* FieldStorage spools what the client sends: a part may be longer than    *)
(* the Content-Length.                                                     *)
ReceiveChunk(c) ==
  /\ up /\ phase[c] = "upload" /\ ~DiskFull
  /\ SetJob(c, [job[c] EXCEPT !.spool = @ + 1])
  /\ UNCHANGED <<phase, permits, replies, leaked, world>>

(* The form ended, or the client stopped early, which FieldStorage takes   *)
(* for its end: the copy is created.                                       *)
UploadEnds(c) ==
  /\ Goto(c, "upload", "copy")
  /\ UNCHANGED <<permits, job, replies, disk, world>>

(* No apk in the form, or another extension. *)
RejectForm(c) ==
  /\ Goto(c, "upload", "cleanup")
  /\ SendJson(c, "400")
  /\ UNCHANGED <<permits, job, disk, world>>

(* The timeout of the socket is one of every read: a client that sends a   *)
(* byte in time, again and again, is never silent for all of it.           *)
ClientFallsSilent(c) ==
  /\ Goto(c, "upload", "silent")
  /\ UNCHANGED <<permits, job, replies, disk, world>>
ClientResets(c) ==
  /\ Goto(c, "upload", "cleanup")
  /\ pending' = [pending EXCEPT ![c] = "gone"]
  /\ UNCHANGED <<permits, job, sent, disk, world>>
NeverTimesOut(c) == FALSE                                          \* mutant
UploadTimeout(c) ==
  /\ Goto(c, "silent", "cleanup")
  /\ pending' = [pending EXCEPT ![c] = "timeout"]
  /\ UNCHANGED <<permits, job, sent, disk, world>>

(* The apk part is as much of the form as it may be. *)
CopyAll(c) ==                                                      \* mutant
  /\ up /\ phase[c] = "copy" /\ job[c].copy < job[c].spool /\ ~DiskFull
  /\ SetJob(c, [job[c] EXCEPT !.copy = @ + 1])
  /\ UNCHANGED <<phase, permits, replies, leaked, world>>
CopyChunk(c) ==
  /\ up /\ phase[c] = "copy"
  /\ job[c].copy < job[c].spool /\ job[c].copy < MaxUpload /\ ~DiskFull
  /\ SetJob(c, [job[c] EXCEPT !.copy = @ + 1])
  /\ UNCHANGED <<phase, permits, replies, leaked, world>>

(* One chunk more than MAX_UPLOAD_BYTES is read, and not written. *)
RejectSize(c) ==
  /\ job[c].copy = MaxUpload /\ job[c].copy < job[c].spool
  /\ Goto(c, "copy", "cleanup")
  /\ SendJson(c, "413")
  /\ UNCHANGED <<permits, job, disk, world>>

(* An empty file, or one without a ZIP signature. *)
RejectAndGoOn(c) ==                                                \* mutant
  /\ up /\ phase[c] = "copy" /\ SendJson(c, "400")
  /\ UNCHANGED <<phase, permits, job, disk, world>>
RejectFile(c) ==
  /\ Goto(c, "copy", "cleanup")
  /\ SendJson(c, "400")
  /\ UNCHANGED <<permits, job, disk, world>>

(* Anything raised before the scanner runs: a full disk, a form that       *)
(* cannot be parsed, a file that cannot be created or read.                *)
WorkFails(c) ==
  /\ \E from \in {"admitted", "upload", "copy"} : Goto(c, from, "cleanup")
  /\ pending' = [pending EXCEPT ![c] = "error"]
  /\ UNCHANGED <<permits, job, sent, disk, world>>

-----------------------------------------------------------------------------
(* run_obfuscan.  A result is sent with status 200: "report" with          *)
(* error: False, "failure" with error: True.                               *)

(* No executable, or one that cannot be started. *)
NoEngine(c) ==
  /\ job[c].copy > 0
  /\ Goto(c, "copy", "cleanup")
  /\ SendJson(c, "failure")
  /\ UNCHANGED <<permits, job, disk, world>>

StartScanner(c) ==
  /\ job[c].copy > 0
  /\ Goto(c, "copy", "scan")
  /\ job' = [job EXCEPT ![c].child = "running"]
  /\ UNCHANGED <<permits, replies, disk, world>>

(* "done" is status 0 with a report within MAX_SCANNER_STDOUT_BYTES that   *)
(* is whole JSON; on a full disk the report can be truncated.              *)
ScannerExits(c) ==
  /\ job[c].child = "running"
  /\ \E exit \in {"done", "oversized", "truncated", "failed"} :
       job' = [job EXCEPT ![c].child = exit]
  /\ UNCHANGED <<phase, permits, replies, disk, world>>

(* subprocess.run's deadline: kill, wait, TimeoutExpired.  The scanner may *)
(* have ended since it was last polled.                                    *)
LeftRunning(c) == job[c].child                                      \* mutant
AfterKill(c) == IF job[c].child = "running" THEN "killed" ELSE job[c].child
NoDeadline(c) == FALSE                                             \* mutant
ScanTimeout(c) ==
  /\ Goto(c, "scan", "cleanup")
  /\ job' = [job EXCEPT ![c].child = AfterKill(c)]
  /\ SendJson(c, "failure")
  /\ UNCHANGED <<permits, disk, world>>

(* Size, exit status and JSON of a scanner that ended. *)
SizeOnly(c) == IF job[c].child = "oversized" THEN "failure" ELSE "report"   \* mutant
ScanResult(c) == IF job[c].child = "done" THEN "report" ELSE "failure"

ScanEnds(c) ==
  /\ job[c].child # "running"
  /\ Goto(c, "scan", "cleanup")
  /\ SendJson(c, ScanResult(c))
  /\ UNCHANGED <<permits, job, disk, world>>

-----------------------------------------------------------------------------
(* The finally of handle_analyze, then the except and finally of do_POST.  *)
(* An exception keeps the frame, and with it the spool, until its handler  *)
(* is done.                                                                *)

NoExcept(c) == "release"                                           \* mutant
AfterFinally(c) == IF pending[c] = "return" THEN "release" ELSE "except"

Spooled(c) == IF pending[c] = "return" THEN 0 ELSE job[c].spool
UnlinkOnSuccess(c) ==                                              \* mutant
  /\ Goto(c, "cleanup", AfterFinally(c))
  /\ SetJob(c, [job[c] EXCEPT !.spool = Spooled(c),
                              !.copy = IF pending[c] = "return" THEN 0 ELSE @])
  /\ UNCHANGED <<permits, replies, leaked, world>>
Cleanup(c) ==
  /\ Goto(c, "cleanup", AfterFinally(c))
  /\ SetJob(c, [job[c] EXCEPT !.spool = Spooled(c), !.copy = 0])
  /\ UNCHANGED <<permits, replies, leaked, world>>

(* os.unlink raises: the file stays on disk, and the new exception takes   *)
(* the place of the way out that was under way.                            *)
UnlinkFails(c) ==
  /\ faults < MaxFaults /\ job[c].copy > 0
  /\ Goto(c, "cleanup", "except")
  /\ pending' = [pending EXCEPT ![c] = "unlink"]
  /\ leaked' = leaked + job[c].copy
  /\ faults' = faults + 1
  /\ UNCHANGED <<permits, job, sent, uploadBytes, excess, up, orphans>>

(* 408 for a timeout, nothing for a client that is gone, 500 otherwise. *)
SilentExceptions == {"gone"}

HandleException(c) ==
  /\ Goto(c, "except", "release")
  /\ IF pending[c] \in SilentExceptions THEN UNCHANGED sent
     ELSE \E whole \in BOOLEAN :
            Say(c, IF pending[c] = "timeout" THEN "408" ELSE "500", whole)
  /\ SetJob(c, [job[c] EXCEPT !.spool = 0])
  /\ UNCHANGED <<permits, pending, leaked, world>>

ReleaseScan(c) ==
  /\ Goto(c, "release", "closing")
  /\ scanPermits' = scanPermits + 1
  /\ UNCHANGED <<connPermits, job, replies, disk, world>>

-----------------------------------------------------------------------------
(* The server dies: interrupted, as server_close does not wait for daemon  *)
(* threads, or killed.  Its threads vanish one by one, which nobody sees.  *)

ServerDies ==
  /\ up /\ faults < MaxFaults
  /\ up' = FALSE /\ faults' = faults + 1
  /\ UNCHANGED <<phase, permits, job, replies, disk, orphans>>

Vanish(c) ==
  /\ ~up /\ phase[c] # "idle"
  /\ phase' = [phase EXCEPT ![c] = "idle"]
  /\ Forget(c)
  /\ UNCHANGED <<permits, up, faults>>

(* A new process: fresh semaphores, the disk as it was left. *)
Restart ==
  /\ ~up /\ ConnHolders = {}
  /\ up' = TRUE
  /\ connPermits' = MaxConns /\ scanPermits' = MaxScans
  /\ UNCHANGED <<phase, job, replies, disk, orphans, faults>>

OrphanExits ==
  /\ orphans > 0
  /\ orphans' = orphans - 1
  /\ UNCHANGED <<phase, permits, job, replies, disk, up, faults>>

-----------------------------------------------------------------------------
(* What the server does by itself: local steps, which may raise, and the   *)
(* timeouts that end a wait for a client or a scanner.                     *)
Serve(c) ==
  \/ StartThread(c) \/ ReleaseConn(c) \/ HeadFails(c)
  \/ RejectRequest(c) \/ StartUpload(c) \/ UploadTimeout(c)
  \/ CopyChunk(c) \/ RejectSize(c) \/ RejectFile(c)
  \/ NoEngine(c) \/ StartScanner(c) \/ ScanTimeout(c) \/ ScanEnds(c)
  \/ Cleanup(c) \/ HandleException(c) \/ ReleaseScan(c)

(* What needs a client. *)
Hear(c) ==
  \/ Accept(c) \/ Overloaded(c) \/ Answer(c) \/ RefuseScan(c) \/ AdmitScan(c)
  \/ ReceiveChunk(c) \/ UploadEnds(c) \/ RejectForm(c)
  \/ ClientFallsSilent(c) \/ ClientResets(c)

(* What may go wrong besides. *)
Fail(c) == StartFails(c) \/ WorkFails(c) \/ UnlinkFails(c)

Next ==
  \/ \E c \in Conns : Hear(c) \/ Serve(c) \/ Fail(c) \/ ScannerExits(c) \/ Vanish(c)
  \/ ServerDies \/ Restart \/ OrphanExits

Spec == Init /\ [][Next]_vars

(* Threads are scheduled, timeouts fire, a dead process is torn down; of   *)
(* clients, scanners and a restart nothing is assumed.  A request line and *)
(* headers are of limited size, each read of which has its timeout, so the *)
(* wait for them ends; a form may take for ever.                           *)
Fairness == \A c \in Conns : WF_vars(Serve(c)) /\ WF_vars(Vanish(c))

FairSpec == Spec /\ Fairness

-----------------------------------------------------------------------------
Statuses == {"page", "404", "429", "503", "400", "411", "413", "507", "408", "500",
             "report", "failure"}
Responses == [status : Statuses, whole : BOOLEAN]
Leavings == {"return", "timeout", "gone", "error", "unlink"}
Jobs == [request : Lengths, spool : Nat, copy : Nat,
         child : {"none", "running", "done", "oversized", "truncated", "failed", "killed"}]

(* Every variable has the type its comment gives it. *)
TypeOK ==
  /\ up \in BOOLEAN
  /\ phase \in [Conns -> Phases]
  /\ connPermits \in Int /\ scanPermits \in Int
  /\ job \in [Conns -> Jobs]
  /\ pending \in [Conns -> Leavings]
  /\ sent \in [Conns -> Seq(Responses)]
  /\ uploadBytes \in Int /\ excess \in Int /\ leaked \in Nat /\ orphans \in Nat /\ faults \in Nat

(* Every exit of process_request, process_request_thread and do_POST       *)
(* returns the slot it took exactly once: while the server runs, the free  *)
(* slots of a semaphore and the handlers inside it add up to its size, so  *)
(* no slot is lost and BoundedSemaphore.release never raises.              *)
SlotsConserved ==
  up => /\ connPermits >= 0 /\ connPermits + Cardinality(ConnHolders) = MaxConns
        /\ scanPermits >= 0 /\ scanPermits + Cardinality(ScanHolders) = MaxScans

(* When a scan slot is given back nothing of its request is left: the      *)
(* spool is off the disk and the scanner gone on every way out of          *)
(* handle_analyze, and so is the copy, unless os.unlink itself failed.     *)
NothingOutlivesTheSlot ==
  \A c \in Conns : phase[c] \notin ScanPhases \ {"release"} =>
    /\ job[c].spool = 0 /\ job[c].child # "running"
    /\ job[c].copy # 0 => pending[c] = "unlink"

(* A report comes from a scanner that ended by itself, with status 0 and   *)
(* its whole output: never from one that was killed at the deadline,       *)
(* failed, wrote too much or ran into the full disk.                       *)
ReportsAreWhole ==
  \A c \in Conns : phase[c] = "cleanup" =>
    \A i \in DOMAIN sent[c] : sent[c][i].status = "report" => job[c].child = "done"

(* A connection carries a second response only after the first was cut     *)
(* short, or when the file could not be unlinked after the first was sent; *)
(* it is then 408 or 500, and there is never a third.                      *)
OneResponse ==
  \A c \in Conns :
    /\ Len(sent[c]) <= 2
    /\ Len(sent[c]) = 2 =>
         /\ sent[c][2].status \in {"408", "500"}
         /\ sent[c][1].whole => pending[c] = "unlink"

(* What a client reads is one response, and a report only if it is one.    *)
ResponsesAreWhole == ReportsAreWhole /\ OneResponse

(* With one scan slot the disk check is enough for what it was asked:      *)
(* uploads, and what deaths and failed unlinks left of them, reach into    *)
(* the reserve by no more than forms exceeded their Content-Length,        *)
(* whatever was written between the check and the last byte.               *)
ReserveKept == MaxScans = 1 => DiskSize - (uploadBytes - excess) >= Reserve

(* With more, the check of one request does not see what the others may    *)
(* still write: uploads reach further by at most two full uploads for      *)
(* every other slot.                                                       *)
OverdraftBounded ==
  DiskSize - (uploadBytes - excess) >= Reserve - 2 * MaxUpload * (MaxScans - 1)

(* What is left behind is bounded, however long the forms: a death or a    *)
(* failed unlink leaves at most one full upload, and one scanner, for each *)
(* scan slot.                                                              *)
LeakBounded ==
  /\ leaked <= faults * MaxScans * MaxUpload
  /\ orphans <= faults * MaxScans

(* Uploads fill the disk no further than that, living and left behind.     *)
DiskBounded == OverdraftBounded /\ LeakBounded

(* Only an upload that never ends keeps a slot: every other handler ends,  *)
(* and both its slots are back, however long its scanner would run and     *)
(* wherever its client falls silent.                                       *)
SlotsReturned ==
  \A c \in Conns : []<>(phase[c] = "idle") \/ <>[](phase[c] = "upload")

(* The semaphore, the thread and the handler implement the admission that  *)
(* ScanAdmission promises: inside are the handlers between acquire and     *)
(* release, and 429 is only ever said when all slots are taken.            *)
Refused == {c \in Conns : \E i \in 1 .. Len(sent[c]) : sent[c][i].status = "429"}

Admission == INSTANCE ScanAdmission
               WITH Requests <- Conns, Capacity <- MaxScans,
                    active <- ScanHolders, refused <- Refused
AdmissionSpec == Admission!Spec
=============================================================================
