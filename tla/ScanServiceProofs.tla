-------------------------- MODULE ScanServiceProofs --------------------------
(***************************************************************************)
(* Proofs about the service and what is around it: Deploy, the scripts it  *)
(* is started and stopped with, for any number of scripts, identifiers,    *)
(* runs and faults; ScanService, for every set of connections and every    *)
(* size; WebClient, the page it serves, for every set of files.            *)
(***************************************************************************)
EXTENDS ScanService, WebClient, Deploy, FiniteSetTheorems, TLAPS

(***************************************************************************)
(* The scripts: Deploy.                                                    *)
(***************************************************************************)
-----------------------------------------------------------------------------
(* The parts of the inductive invariant.                                   *)

\* Scripts that have not overlapped run one at a time.
Alone ==
    ~overlapped => \A s, t \in Scripts : pc[s] \notin Ended /\ pc[t] \notin Ended => s = t

\* An identifier that a start holds is not one of another program, and one that
\* a stop has looked at is not either, unless it was given away since.
Identity ==
    \A s \in Scripts :
        /\ pc[s] \in Holding => seen[s] \in Pids /\ seen[s] \notin Strangers
        /\ pc[s] = "stop" => seen[s] \in Pids /\ (seen[s] \in Unrelated => s \in reissued)

\* What a script that runs alone knows of the state file, line by line.
Knows(s) ==
    /\ pc[s] \in {"look", "query", "stop"} => seen[s] = stateFile
    /\ pc[s] = "clear" => stateFile \notin Servers
    /\ pc[s] \in {"spawn", "record"} => stateFile = None
    /\ pc[s] \in {"exited?", "probe", "kill", "unrecord"} => seen[s] = stateFile
    /\ pc[s] = "unrecord" => seen[s] \notin Servers
Knowledge == ~overlapped => \A s \in Scripts : Knows(s)

\* The servers that no start holds and no state file names that is to stay: a
\* query that fails condemns the file while its server runs.
Doomed == IF \E s \in Scripts : pc[s] = "remove" THEN {stateFile} ELSE {}
Exposed == Servers \ (Held \cup ({stateFile} \ Doomed))

FewLost == ~overlapped => Cardinality(Exposed) <= interrupted + misread

DInv == DeployTypeOK /\ Alone /\ Identity /\ Knowledge /\ FewLost

-----------------------------------------------------------------------------
(* How a step changes the processes.                                       *)

\* A process that ends takes its entry, and nothing else, out of the table.
LEMMA GoneFacts ==
    ASSUME NEW p, running' = Without(p)
    PROVE  /\ Live' = Live \ {p}
           /\ \A q \in Live' : running'[q] = running[q]
           /\ running' = [q \in Live' |-> running'[q]]
           /\ Servers' = Servers \ {p}
           /\ Strangers' = Strangers \ {p}
           /\ Unrelated' = Unrelated \ {p}
BY DEF Without, Live, Servers, Strangers, Unrelated

\* A process that begins, or goes on in another state, changes its own entry.
LEMMA WithFacts ==
    ASSUME NEW p, NEW as, running' = With(p, as)
    PROVE  /\ Live' = Live \cup {p}
           /\ \A q \in Live' : running'[q] = IF q = p THEN as ELSE running[q]
           /\ running' = [q \in Live' |-> running'[q]]
           /\ as \in {"starting", "serving"} => /\ Servers' = Servers \cup {p}
                                              /\ Strangers' = Strangers \ {p}
                                              /\ Unrelated' = Unrelated \ {p}
           /\ as \in {"namesake", "other"} => /\ Servers' = Servers \ {p}
                                            /\ Strangers' = Strangers \cup {p}
                                            /\ Unrelated' \subseteq Unrelated \cup {p}
BY DEF With, Live, Servers, Strangers, Unrelated

\* A script that goes on changes its own place only.
LEMMA MoveFacts ==
    ASSUME DeployTypeOK, NEW s \in Scripts, NEW from, NEW to, Move(s, from, to)
    PROVE  /\ pc[s] = from /\ pc'[s] = to
           /\ DOMAIN pc' = Scripts
           /\ \A t \in Scripts \ {s} : pc'[t] = pc[t]
BY DEF Move, DeployTypeOK

\* There are finitely many servers, and what is exposed or lost is among them.
LEMMA LostIsFinite ==
    ASSUME DeployTypeOK
    PROVE  IsFiniteSet(Servers) /\ IsFiniteSet(Exposed) /\ Lost \subseteq Exposed
BY DeployAssumption, FS_Subset DEF DeployTypeOK, Lost, Exposed, Servers, Live

\* Fewer servers are exposed, or as many, as long as nothing is counted.
LEMMA ExposedShrinks ==
    ASSUME DeployTypeOK, FewLost, ~overlapped, interrupted' = interrupted, misread' = misread,
           Exposed' \subseteq Exposed
    PROVE  FewLost'
<1>1. /\ Cardinality(Exposed') <= Cardinality(Exposed)
      /\ Cardinality(Exposed') \in Nat /\ Cardinality(Exposed) \in Nat
  BY LostIsFinite, FS_Subset, FS_CardinalityType
<1>2. Cardinality(Exposed) <= interrupted + misread /\ interrupted \in Nat /\ misread \in Nat
  BY DEF FewLost, DeployTypeOK
<1> QED BY <1>1, <1>2 DEF FewLost

\* One more is exposed, and one mishap more is counted.
LEMMA ExposedGrows ==
    ASSUME DeployTypeOK, FewLost, ~overlapped, interrupted' + misread' = interrupted + misread + 1,
           NEW p, Exposed' \subseteq Exposed \cup {p}
    PROVE  FewLost'
<1>1. /\ IsFiniteSet(Exposed \cup {p})
      /\ Cardinality(Exposed \cup {p}) <= Cardinality(Exposed) + 1
      /\ Cardinality(Exposed) \in Nat
  <2>1. IsFiniteSet(Exposed)
    BY LostIsFinite
  <2>2. Cardinality(Exposed) \in Nat
    BY <2>1, FS_CardinalityType
  <2>3. /\ IsFiniteSet(Exposed \cup {p})
        /\ Cardinality(Exposed \cup {p}) \in {Cardinality(Exposed), Cardinality(Exposed) + 1}
    BY <2>1, FS_AddElement
  <2> QED BY <2>2, <2>3
<1>2. /\ Cardinality(Exposed') <= Cardinality(Exposed \cup {p})
      /\ Cardinality(Exposed') \in Nat /\ Cardinality(Exposed \cup {p}) \in Nat
  BY <1>1, FS_Subset, FS_CardinalityType
<1>3. Cardinality(Exposed) <= interrupted + misread /\ interrupted \in Nat /\ misread \in Nat
  BY DEF FewLost, DeployTypeOK
<1> QED BY <1>1, <1>2, <1>3 DEF FewLost

LEMMA InitD == DeployInit => DInv
<1> SUFFICES ASSUME DeployInit PROVE DInv
  OBVIOUS
<1>1. Live = {} /\ Servers = {} /\ Exposed = {}
  BY DEF DeployInit, Live, Servers, Exposed
<1>2. DeployTypeOK
  <2>1. pc \in [Scripts -> States] /\ seen \in [Scripts -> Pids \cup {None}]
    BY DEF DeployInit, States, Ended
  <2>2. /\ runs \in 0..MaxRuns /\ interrupted \in 0..MaxMishaps
        /\ misread \in 0..MaxMishaps /\ died \in 0..MaxMishaps
    BY DeployAssumption DEF DeployInit
  <2>3. running = [p \in Live |-> running[p]]
    BY <1>1 DEF DeployInit
  <2> QED BY <1>1, <2>1, <2>2, <2>3 DEF DeployInit, DeployTypeOK
<1>3. Alone /\ Identity /\ Knowledge
  BY DEF DeployInit, Alone, Identity, Knowledge, Knows, Ended, Holding
<1>4. FewLost
  BY <1>1, FS_EmptySet DEF DeployInit, FewLost
<1> QED BY <1>2, <1>3, <1>4 DEF DInv

-----------------------------------------------------------------------------
(* A step of one script, and a step of the machine.                        *)

\* What the scripts hold changes only where the script that moves is.
LEMMA HeldFacts ==
    ASSUME NEW s \in Scripts, \A t \in Scripts \ {s} : pc'[t] = pc[t] /\ seen'[t] = seen[t]
    PROVE  /\ \A h \in Held : h \in Held' \/ (pc[s] \in Holding /\ h = seen[s])
           /\ pc'[s] \in Holding => seen'[s] \in Held'
BY DEF Held

\* What keeps a server of ours from being lost to a script at this place, which
\* runs alone: the identifier it holds, and the file unless it removes it.
Kept(place, id, file) ==
    (IF place \in Holding THEN {id} ELSE {}) \cup (IF place = "remove" THEN {} ELSE {file})

LEMMA AloneKeeps ==
    ASSUME DInv, ~overlapped, NEW s \in Scripts, pc[s] \notin Ended,
           \A t \in Scripts \ {s} : pc'[t] = pc[t]
    PROVE  /\ Exposed = Servers \ Kept(pc[s], seen[s], stateFile)
           /\ Exposed' = Servers' \ Kept(pc'[s], seen'[s], stateFile')
<1>1. \A t \in Scripts \ {s} : pc[t] \notin Holding \cup {"remove"}
  BY DEF DInv, Alone, Ended, Holding
<1>2. /\ Held = IF pc[s] \in Holding THEN {seen[s]} ELSE {}
      /\ Held' = IF pc'[s] \in Holding THEN {seen'[s]} ELSE {}
  BY <1>1 DEF Held
<1>3. /\ Doomed = IF pc[s] = "remove" THEN {stateFile} ELSE {}
      /\ Doomed' = IF pc'[s] = "remove" THEN {stateFile'} ELSE {}
  BY <1>1 DEF Doomed
<1> QED BY <1>2, <1>3 DEF Exposed, Kept

\* A script that goes on with less to keep by itself keeps what there is.
LEMMA KeepsAll ==
    ASSUME DInv, NEW s \in Scripts, pc[s] \notin Ended,
           \A t \in Scripts \ {s} : pc'[t] = pc[t],
           UNCHANGED <<overlapped, interrupted, misread>>,
           ~overlapped => Servers' \cap Kept(pc[s], seen[s], stateFile)
                            \subseteq Kept(pc'[s], seen'[s], stateFile'),
           ~overlapped => Servers' \ Servers \subseteq Kept(pc'[s], seen'[s], stateFile')
    PROVE  FewLost'
<1>1. CASE overlapped
  BY <1>1 DEF FewLost
<1>2. CASE ~overlapped
  <2>1. Exposed' \subseteq Exposed
    BY <1>2, AloneKeeps
  <2> QED BY <1>2, <2>1, ExposedShrinks DEF DInv
<1> QED BY <1>1, <1>2

\* A running script that makes a step keeps the invariant if it knows what it
\* has to at its new place and leaves no server behind.
LEMMA ScriptStep ==
    ASSUME DInv, NEW s \in Scripts,
           pc[s] \notin Ended,
           \A t \in Scripts \ {s} : pc'[t] = pc[t] /\ seen'[t] = seen[t],
           overlapped' = overlapped, reissued' = reissued,
           Strangers' \subseteq Strangers, Unrelated' \subseteq Unrelated,
           pc'[s] \in Holding => seen'[s] \in Pids /\ seen'[s] \notin Strangers',
           pc'[s] = "stop" => seen'[s] \in Pids /\ seen'[s] \notin Unrelated',
           ~overlapped => Knows(s)' /\ FewLost'
    PROVE  Alone' /\ Identity' /\ Knowledge' /\ FewLost'
<1>1. Alone'
  BY DEF DInv, Alone
<1>2. Identity'
  BY DEF DInv, Identity
<1>3. Knowledge'
  <2> SUFFICES ASSUME ~overlapped, NEW t \in Scripts, t # s PROVE Knows(t)'
    BY DEF Knowledge
  <2>1. pc'[t] \in Ended
    BY DEF DInv, Alone
  <2> QED BY <2>1 DEF Knows, Ended
<1>4. FewLost'
  BY DEF FewLost
<1> QED BY <1>1, <1>2, <1>3, <1>4

\* Servers end and other programs come and go, but for the identifiers held.
LEMMA MachineStep ==
    ASSUME DInv, UNCHANGED <<pc, seen, stateFile, interrupted, misread, overlapped>>,
           Servers' \subseteq Servers,
           Strangers' \cap Held \subseteq Strangers,
           reissued \subseteq reissued',
           \A q \in Unrelated' \ Unrelated :
               \A s \in Scripts : pc[s] = "stop" /\ seen[s] = q => s \in reissued'
    PROVE  Alone' /\ Identity' /\ Knowledge' /\ FewLost'
<1>1. Alone'
  BY DEF DInv, Alone
<1>2. Identity'
  BY DEF DInv, Identity, Held
<1>3. Knowledge'
  BY DEF DInv, Knowledge, Knows
<1>4. FewLost'
  <2>1. Exposed' \subseteq Exposed
    BY DEF Exposed, Doomed, Held
  <2> QED BY <2>1, ExposedShrinks DEF DInv, FewLost
<1> QED BY <1>1, <1>2, <1>3, <1>4

\* The table of processes is well formed after a process has begun or ended.
LEMMA TableTyped ==
    ASSUME DeployTypeOK, NEW p \in Pids, NEW as \in {"starting", "serving", "namesake", "other"},
           running' = With(p, as) \/ running' = Without(p)
    PROVE  /\ Live' \subseteq Pids
           /\ \A q \in Live' : running'[q] \in {"starting", "serving", "namesake", "other"}
           /\ running' = [q \in Live' |-> running'[q]]
<1>1. CASE running' = With(p, as)
  <2>1. /\ Live' = Live \cup {p}
        /\ \A q \in Live' : running'[q] = IF q = p THEN as ELSE running[q]
        /\ running' = [q \in Live' |-> running'[q]]
    BY <1>1 DEF With, Live
  <2> QED BY <2>1 DEF DeployTypeOK
<1>2. CASE running' = Without(p)
  BY <1>2, GoneFacts DEF DeployTypeOK
<1> QED BY <1>1, <1>2

\* So is the port, when a process is gone.
LEMMA GoneTyped ==
    ASSUME DeployTypeOK, NEW p \in Pids, Gone(p)
    PROVE  /\ Live' \subseteq Pids
           /\ \A q \in Live' : running'[q] \in {"starting", "serving", "namesake", "other"}
           /\ running' = [q \in Live' |-> running'[q]]
           /\ port' \in {q \in Live' : running'[q] # "starting"} \cup {None}
           /\ Live' = Live \ {p} /\ Servers' = Servers \ {p}
<1>1. /\ Live' \subseteq Pids
      /\ \A q \in Live' : running'[q] \in {"starting", "serving", "namesake", "other"}
      /\ running' = [q \in Live' |-> running'[q]]
  BY TableTyped DEF Gone
<1>2. Live' = Live \ {p} /\ Servers' = Servers \ {p} /\ \A q \in Live' : running'[q] = running[q]
  BY GoneFacts DEF Gone
<1>3. port' \in {q \in Live' : running'[q] # "starting"} \cup {None}
  BY <1>2 DEF Gone, DeployTypeOK
<1> QED BY <1>1, <1>2, <1>3


-----------------------------------------------------------------------------
\* Steps of scripts that leave the processes alone.
Quiet(s) ==
    \/ ReadState(s) \/ LookUp(s) \/ ClearStale(s) \/ Record(s) \/ CheckExited(s) \/ Probe(s)
    \/ Unrecord(s) \/ ReadTarget(s) \/ Query(s) \/ Decline(s) \/ RemoveState(s)

LEMMA QuietTyped ==
    ASSUME DeployTypeOK, NEW s \in Scripts, Quiet(s) \/ QueryFails(s)
    PROVE  /\ DeployTypeOK'
           /\ UNCHANGED <<running, port, overlapped, interrupted, reissued>>
           /\ \A t \in Scripts \ {s} : pc'[t] = pc[t] /\ seen'[t] = seen[t]
<1>1. UNCHANGED <<running, port, runs, interrupted, died, overlapped, reissued>>
  BY DEF Quiet, ReadState, LookUp, ClearStale, Record, CheckExited, Probe, Unrecord, ReadTarget,
         Query, QueryFails, Decline, RemoveState, tally
<1>2. seen' \in [Scripts -> Pids \cup {None}] /\ \A t \in Scripts \ {s} : seen'[t] = seen[t]
  BY DEF DeployTypeOK, Quiet, ReadState, LookUp, ClearStale, Record, CheckExited, Probe, Unrecord, ReadTarget,
         Query, QueryFails, Decline, RemoveState
<1>3. pc' \in [Scripts -> States] /\ \A t \in Scripts \ {s} : pc'[t] = pc[t]
  <2>1. CASE Quiet(s)
    BY <2>1 DEF DeployTypeOK, Quiet, ReadState, LookUp, ClearStale, Record, CheckExited, Probe,
         Unrecord, ReadTarget, Query, Decline, RemoveState, Move, States, Ended, Holding
  <2>2. CASE QueryFails(s)
    BY <2>2 DEF DeployTypeOK, QueryFails, Move, States
  <2> QED BY <2>1, <2>2
<1>4. stateFile' \in Pids \cup {None}
  BY DEF DeployTypeOK, Quiet, ReadState, LookUp, ClearStale, Record, CheckExited, Probe, Unrecord, ReadTarget,
         Query, QueryFails, Decline, RemoveState
<1>5. misread' \in 0..MaxMishaps
  <2>1. CASE Quiet(s)
    BY <2>1 DEF DeployTypeOK, Quiet, ReadState, LookUp, ClearStale, Record, CheckExited, Probe, Unrecord, ReadTarget,
         Query, QueryFails, Decline, RemoveState, tally
  <2>2. CASE QueryFails(s)
    BY <2>2, DeployAssumption DEF DeployTypeOK, QueryFails
  <2> QED BY <2>1, <2>2
<1>6. Live' = Live
  BY <1>1 DEF Live
<1> QED BY <1>1, <1>2, <1>3, <1>4, <1>5, <1>6 DEF DeployTypeOK

LEMMA QuietStep == ASSUME DInv, NEW s \in Scripts, Quiet(s) PROVE DInv'
<1> USE DEF DInv
<1>1. /\ DeployTypeOK'
      /\ UNCHANGED <<running, port, overlapped, interrupted, misread, reissued>>
      /\ \A t \in Scripts \ {s} : pc'[t] = pc[t] /\ seen'[t] = seen[t]
  <2>1. misread' = misread
    BY DEF Quiet, ReadState, LookUp, ClearStale, Record, CheckExited, Probe, Unrecord, ReadTarget,
         Query, QueryFails, Decline, RemoveState, tally
  <2> QED BY <2>1, QuietTyped
<1>2. /\ Live' = Live /\ Servers' = Servers /\ Strangers' = Strangers
      /\ Unrelated' = Unrelated
  BY <1>1 DEF Live, Servers, Strangers, Unrelated
<1>3. None \notin Servers /\ Servers \subseteq Live
  BY DeployAssumption DEF DeployTypeOK, Servers
<1>4. Identity /\ (~overlapped => Knows(s))
  BY DEF Knowledge
<1>5. pc \in [Scripts -> States] /\ seen \in [Scripts -> Pids \cup {None}]
  BY DEF DeployTypeOK
<1> DEFINE Goal ==
      /\ pc[s] \notin Ended
      /\ pc'[s] \in Holding => seen'[s] \in Pids /\ seen'[s] \notin Strangers
      /\ pc'[s] = "stop" => seen'[s] \in Pids /\ seen'[s] \notin Unrelated
      /\ ~overlapped => /\ Knows(s)'
                        /\ Servers \cap Kept(pc[s], seen[s], stateFile)
                             \subseteq Kept(pc'[s], seen'[s], stateFile')
<1>6. SUFFICES Goal
  <2>1. ASSUME Goal PROVE FewLost'
    BY <1>1, <1>2, <2>1, KeepsAll
  <2> QED BY <1>1, <1>2, <2>1, ScriptStep
<1>a. CASE ReadState(s)
  <2>1. /\ pc[s] = "read" /\ pc'[s] = IF stateFile = None THEN "spawn" ELSE "look"
        /\ stateFile' = stateFile /\ seen'[s] = stateFile
    BY <1>a, <1>5 DEF ReadState, Move
  <2> QED BY <2>1, <1>2, <1>3 DEF Knows, Kept, Ended, Holding
<1>b. CASE LookUp(s)
  <2>1. /\ pc[s] = "look" /\ pc'[s] = IF seen[s] \in Live THEN "refused" ELSE "clear"
        /\ stateFile' = stateFile /\ seen' = seen
    BY <1>b, <1>5 DEF LookUp, Move
  <2> QED BY <2>1, <1>2, <1>3, <1>4 DEF Knows, Kept, Ended, Holding
<1>c. CASE ClearStale(s)
  <2>1. /\ pc[s] = "clear" /\ pc'[s] = IF stateFile = None THEN "failed" ELSE "spawn"
        /\ stateFile' = None /\ seen' = seen
    BY <1>c, <1>5 DEF ClearStale, Move
  <2> QED BY <2>1, <1>2, <1>4 DEF Knows, Kept, Ended, Holding
<1>d. CASE Record(s)
  <2>1. pc[s] = "record" /\ pc'[s] = "exited?" /\ stateFile' = seen[s] /\ seen' = seen
    BY <1>d, <1>5 DEF Record, Move
  <2>2. seen[s] \in Pids /\ seen[s] \notin Strangers
    BY <2>1, <1>4 DEF Identity, Holding
  <2> QED BY <2>1, <2>2, <1>2, <1>3, <1>4 DEF Knows, Kept, Ended, Holding
<1>e. CASE CheckExited(s)
  <2>1. /\ pc[s] = "exited?" /\ pc'[s] = IF seen[s] \in Live THEN "probe" ELSE "kill"
        /\ stateFile' = stateFile /\ seen' = seen
    BY <1>e, <1>5 DEF CheckExited, Move
  <2>2. seen[s] \in Pids /\ seen[s] \notin Strangers
    BY <2>1, <1>4 DEF Identity, Holding
  <2> QED BY <2>1, <2>2, <1>2, <1>4 DEF Knows, Kept, Ended, Holding
<1>f. CASE Probe(s)
  <2>1. /\ pc[s] = "probe" /\ pc'[s] \in {"healthy", "exited?", "kill"}
        /\ stateFile' = stateFile /\ seen' = seen
    BY <1>f, <1>5 DEF Probe, Move
  <2>2. seen[s] \in Pids /\ seen[s] \notin Strangers
    BY <2>1, <1>4 DEF Identity, Holding
  <2> QED BY <2>1, <2>2, <1>2, <1>4 DEF Knows, Kept, Ended, Holding
<1>g. CASE Unrecord(s)
  <2>1. pc[s] = "unrecord" /\ pc'[s] = "unhealthy" /\ stateFile' = None /\ seen' = seen
    BY <1>g, <1>5 DEF Unrecord, Move
  <2> QED BY <2>1, <1>2, <1>4 DEF Knows, Kept, Ended, Holding
<1>h. CASE ReadTarget(s)
  <2>1. /\ pc[s] = "stop read" /\ pc'[s] = IF stateFile = None THEN "stopped" ELSE "query"
        /\ stateFile' = stateFile /\ seen'[s] = stateFile
    BY <1>h, <1>5 DEF ReadTarget, Move
  <2> QED BY <2>1, <1>2 DEF Knows, Kept, Ended, Holding
<1>i. CASE Query(s)
  <2>1. /\ pc[s] = "query" /\ stateFile' = stateFile /\ seen' = seen
        /\ \/ seen[s] \notin Live /\ pc'[s] = "remove"
           \/ pc'[s] = "refused"
           \/ seen[s] \in Live \ Unrelated /\ pc'[s] = "stop"
    BY <1>i, <1>5 DEF Query, Move
  <2>2. Live \subseteq Pids
    BY DEF DeployTypeOK
  <2> QED BY <2>1, <2>2, <1>2, <1>3, <1>4 DEF Knows, Kept, Ended, Holding
<1>j. CASE Decline(s)
  <2>1. pc[s] = "stop" /\ pc'[s] = "stopped" /\ stateFile' = stateFile /\ seen' = seen
    BY <1>j, <1>5 DEF Decline, Move
  <2> QED BY <2>1, <1>2 DEF Knows, Kept, Ended, Holding
<1>k. CASE RemoveState(s)
  <2>1. /\ pc[s] = "remove" /\ pc'[s] \in {"failed", "stopped"}
        /\ stateFile' = None /\ seen' = seen
    BY <1>k, <1>5 DEF RemoveState, Move
  <2> QED BY <2>1, <1>2, <1>4 DEF Knows, Kept, Ended, Holding
<1> QED BY <1>a, <1>b, <1>c, <1>d, <1>e, <1>f, <1>g, <1>h, <1>i, <1>j, <1>k DEF Quiet

\* A query that fails exposes the server that the state file names, if any.
LEMMA QueryFailsStep == ASSUME DInv, NEW s \in Scripts, QueryFails(s) PROVE DInv'
<1> USE DEF DInv
<1>1. /\ DeployTypeOK'
      /\ UNCHANGED <<running, port, overlapped, interrupted, reissued>>
      /\ \A t \in Scripts \ {s} : pc'[t] = pc[t] /\ seen'[t] = seen[t]
  BY QuietTyped
<1>2. /\ Live' = Live /\ Servers' = Servers /\ Strangers' = Strangers
      /\ Unrelated' = Unrelated
  BY <1>1 DEF Live, Servers, Strangers, Unrelated
<1>3. /\ pc[s] = "query" /\ pc'[s] = "remove" /\ misread' = misread + 1
      /\ stateFile' = stateFile /\ seen' = seen
  BY DEF QueryFails, Move, DeployTypeOK
<1>4. ASSUME ~overlapped PROVE FewLost'
  <2>1. Exposed' \subseteq Exposed \cup {stateFile}
    BY <1>1, <1>2, <1>3, <1>4, AloneKeeps DEF Kept, Ended, Holding
  <2>2. interrupted' + misread' = interrupted + misread + 1
    BY <1>1, <1>3 DEF DeployTypeOK
  <2> QED BY <1>4, <2>1, <2>2, ExposedGrows
<1> QED BY <1>1, <1>2, <1>3, <1>4, ScriptStep DEF Knows, Ended, Holding

\* Start begins a server, under an identifier nobody holds.
LEMMA SpawnStep == ASSUME DInv, NEW s \in Scripts, Spawn(s) PROVE DInv'
<1> USE DEF DInv
<1>1. PICK p \in Free : running' = With(p, "starting") /\ seen' = [seen EXCEPT ![s] = p]
  BY DEF Spawn
<1>2. p \in Pids /\ p \notin Live
  BY <1>1 DEF Free
<1>3. /\ pc[s] = "spawn" /\ pc' = [pc EXCEPT ![s] = "record"]
      /\ UNCHANGED <<port, stateFile, runs, interrupted, misread, died, overlapped, reissued>>
  BY DEF Spawn, Move, tally
<1>4. /\ pc'[s] = "record" /\ seen'[s] = p
      /\ \A t \in Scripts \ {s} : pc'[t] = pc[t] /\ seen'[t] = seen[t]
      /\ pc' \in [Scripts -> States] /\ seen' \in [Scripts -> Pids \cup {None}]
  BY <1>1, <1>2, <1>3 DEF DeployTypeOK, States, Holding
<1>5. /\ Servers' = Servers \cup {p} /\ Live' = Live \cup {p}
      /\ Strangers' = Strangers \ {p} /\ Unrelated' = Unrelated \ {p}
      /\ \A q \in Live : running'[q] = running[q]
  BY <1>1, <1>2, WithFacts
<1>6. DeployTypeOK'
  <2>1. /\ Live' \subseteq Pids
        /\ \A q \in Live' : running'[q] \in {"starting", "serving", "namesake", "other"}
        /\ running' = [q \in Live' |-> running'[q]]
    BY <1>1, <1>2, TableTyped
  <2>2. port' \in {q \in Live' : running'[q] # "starting"} \cup {None}
    BY <1>3, <1>5 DEF DeployTypeOK
  <2> QED BY <1>3, <1>4, <2>1, <2>2 DEF DeployTypeOK
<1>7. ~overlapped => Knows(s)' /\ stateFile = None /\ None \notin Servers'
  <2>1. ~overlapped => stateFile = None
    BY <1>3 DEF Knowledge, Knows
  <2>2. None \notin Servers'
    BY <1>2, <1>5, DeployAssumption DEF DeployTypeOK, Servers
  <2> QED BY <2>1, <2>2, <1>3, <1>4 DEF Knows
<1>8. FewLost'
  BY <1>3, <1>4, <1>5, <1>7, KeepsAll DEF Kept, Ended, Holding
<1> QED BY <1>2, <1>3, <1>4, <1>5, <1>6, <1>7, <1>8, ScriptStep DEF Ended

\* The two scripts end the process they hold.
LEMMA EndingStep == ASSUME DInv, NEW s \in Scripts, KillUnhealthy(s) \/ StopProcess(s) PROVE DInv'
<1> USE DEF DInv
<1>1. /\ UNCHANGED <<stateFile, seen, runs, interrupted, misread, died, overlapped, reissued>>
      /\ \/ pc[s] = "kill" /\ pc' = [pc EXCEPT ![s] = "unrecord"] /\ seen[s] \in Live /\ Gone(seen[s])
         \/ /\ pc[s] = "kill" /\ pc' = [pc EXCEPT ![s] = "unrecord"]
            /\ seen[s] \notin Live /\ UNCHANGED <<running, port>>
         \/ pc[s] = "stop" /\ pc' = [pc EXCEPT ![s] = "remove"] /\ seen[s] \in Live /\ Gone(seen[s])
         \/ pc[s] = "stop" /\ pc' = [pc EXCEPT ![s] = "failed"] /\ UNCHANGED <<running, port>>
  BY DEF KillUnhealthy, StopProcess, Move, tally
<1>2. seen[s] \in Pids
  BY <1>1 DEF Identity, Holding
<1>3. /\ pc' \in [Scripts -> States]
      /\ \A t \in Scripts \ {s} : pc'[t] = pc[t]
      /\ pc[s] \notin Ended
      /\ pc'[s] \in {"unrecord", "remove", "failed"}
  BY <1>1 DEF DeployTypeOK, States, Ended, Holding
<1>4. /\ DeployTypeOK'
      /\ Servers' \subseteq Servers /\ Strangers' \subseteq Strangers
      /\ Unrelated' \subseteq Unrelated
      /\ pc'[s] # "failed" => seen[s] \notin Servers'
  <2>1. CASE Gone(seen[s])
    BY <2>1, <1>1, <1>2, <1>3, GoneTyped, GoneFacts DEF DeployTypeOK, Gone
  <2>2. CASE UNCHANGED <<running, port>>
    <3>1. /\ Servers' = Servers /\ Live' = Live /\ Strangers' = Strangers
          /\ Unrelated' = Unrelated
      BY <2>2 DEF Servers, Live, Strangers, Unrelated
    <3>2. pc'[s] # "failed" => (seen[s] \in Live /\ Gone(seen[s])) \/ seen[s] \notin Live
      BY <1>1, <1>3 DEF DeployTypeOK
    <3>3. Gone(seen[s]) => seen[s] \notin Servers'
      BY GoneFacts DEF Gone
    <3>4. Servers \subseteq Live
      BY DEF Servers
    <3> QED BY <2>2, <3>1, <3>2, <3>3, <3>4, <1>1, <1>3 DEF DeployTypeOK
  <2> QED BY <1>1, <2>1, <2>2
<1>5. ~overlapped => seen[s] = stateFile
  BY <1>1 DEF Knowledge, Knows
<1>6. ~overlapped => Knows(s)'
  BY <1>1, <1>3, <1>4, <1>5 DEF Knows
<1>7. FewLost'
  <2>1. /\ Servers' \cap Kept(pc[s], seen[s], stateFile) \subseteq {seen[s], stateFile}
        /\ pc'[s] = "failed" => Kept(pc'[s], seen'[s], stateFile') = {stateFile}
        /\ pc'[s] = "failed" => Kept(pc[s], seen[s], stateFile) = {stateFile}
    BY <1>1, <1>3 DEF Kept, Holding, DeployTypeOK
  <2> QED BY <2>1, <1>1, <1>3, <1>4, <1>5, KeepsAll
<1>8. pc'[s] \in Holding => seen'[s] \in Pids /\ seen'[s] \notin Strangers'
  BY <1>1, <1>2, <1>3, <1>4 DEF Identity, Holding, DeployTypeOK
<1> QED BY <1>1, <1>3, <1>4, <1>6, <1>7, <1>8, ScriptStep

\* A number below its bound may be counted on.
LEMMA OneMore ==
    ASSUME NEW n, NEW bound \in Nat, n \in 0..bound, n < bound
    PROVE  n + 1 \in 0..bound
OBVIOUS

\* A script that begins next to another one overlaps with it.
LEMMA RunStep == ASSUME DInv, NEW s \in Scripts, RunStart(s) \/ RunStop(s) PROVE DInv'
<1> USE DEF DInv
<1>1. PICK first \in {"read", "stop read"} : Run(s, first)
  BY DEF RunStart, RunStop
<1>2. /\ pc[s] \in Ended /\ pc' \in [Scripts -> States] /\ pc'[s] = first
      /\ seen' \in [Scripts -> Pids \cup {None}]
      /\ \A t \in Scripts \ {s} : pc'[t] = pc[t] /\ seen'[t] = seen[t]
      /\ UNCHANGED <<running, port, stateFile, interrupted, misread, died>>
      /\ reissued' = reissued \ {s}
  BY <1>1 DEF Run, DeployTypeOK, States
<1>3. /\ Servers' = Servers /\ Live' = Live /\ Strangers' = Strangers
      /\ Unrelated' = Unrelated
  BY <1>2 DEF Servers, Live, Strangers, Unrelated
<1>4. DeployTypeOK'
  <2>1. runs' \in 0..MaxRuns
    <3>1. runs \in 0..MaxRuns /\ runs < MaxRuns /\ runs' = runs + 1
      BY <1>1 DEF Run, DeployTypeOK
    <3> QED BY <3>1, OneMore, DeployAssumption
  <2>2. overlapped' \in BOOLEAN
    <3>1. overlapped' = (overlapped \/ \E t \in Scripts \ {s} : pc[t] \notin Ended)
      BY <1>1 DEF Run
    <3>2. (overlapped \/ \E t \in Scripts \ {s} : pc[t] \notin Ended) \in BOOLEAN
      OBVIOUS
    <3> QED BY <3>1, <3>2
  <2> QED BY <1>2, <1>3, <2>1, <2>2 DEF DeployTypeOK
<1>5. ~overlapped' => ~overlapped /\ \A t \in Scripts \ {s} : pc[t] \in Ended
  BY <1>1 DEF Run
<1>6. Alone'
  BY <1>2, <1>5 DEF Alone
<1>7. Identity'
  BY <1>2, <1>3 DEF Identity, Holding
<1>8. Knowledge'
  <2> SUFFICES ASSUME ~overlapped', NEW t \in Scripts PROVE Knows(t)'
    BY DEF Knowledge
  <2> QED BY <1>2, <1>5 DEF Knows, Ended
<1>9. FewLost'
  <2>1. \A h \in Held : h \in Held'
    BY <1>2, HeldFacts DEF Ended, Holding
  <2>2. Doomed' \subseteq Doomed
    BY <1>1, <1>2 DEF Doomed, RunStart, RunStop
  <2>3. Exposed' \subseteq Exposed
    BY <2>1, <2>2, <1>2, <1>3 DEF Exposed
  <2> QED BY <2>3, <1>2, <1>5, ExposedShrinks DEF FewLost
<1> QED BY <1>4, <1>6, <1>7, <1>8, <1>9

\* A script that is stopped half way loses the server it holds, and no other.
LEMMA InterruptStep == ASSUME DInv, NEW s \in Scripts, Interrupt(s) PROVE DInv'
<1> USE DEF DInv
<1>1. /\ pc[s] \notin Ended /\ pc' \in [Scripts -> States] /\ pc'[s] = "interrupted"
      /\ \A t \in Scripts \ {s} : pc'[t] = pc[t] /\ seen'[t] = seen[t]
      /\ UNCHANGED <<running, port, stateFile, seen, runs, misread, died, overlapped, reissued>>
      /\ interrupted < MaxMishaps /\ interrupted' = interrupted + 1
  BY DEF Interrupt, DeployTypeOK, States, Ended
<1>2. /\ Servers' = Servers /\ Live' = Live /\ Strangers' = Strangers
      /\ Unrelated' = Unrelated
  BY <1>1 DEF Servers, Live, Strangers, Unrelated
<1>3. DeployTypeOK'
  <2>1. interrupted' \in 0..MaxMishaps
    BY <1>1, DeployAssumption DEF DeployTypeOK
  <2> QED BY <1>1, <1>2, <2>1 DEF DeployTypeOK
<1>4. ~overlapped => FewLost'
  <2> SUFFICES ASSUME ~overlapped PROVE FewLost'
    OBVIOUS
  <2>1. Exposed' \subseteq Exposed \cup {seen[s]}
    BY <1>1, <1>2, AloneKeeps DEF Kept, Holding
  <2>2. interrupted' + misread' = interrupted + misread + 1
    BY <1>1 DEF DeployTypeOK
  <2> QED BY <2>1, <2>2, ExposedGrows
<1> QED BY <1>1, <1>2, <1>3, <1>4, ScriptStep DEF Knows, Ended, Holding

\* Servers bind or fail to and end; other programs come and go.
LEMMA ProcessStep == ASSUME DInv, NEW p \in Pids, Bind(p) \/ ServerEnds(p) \/ OtherProcess(p) PROVE DInv'
<1> USE DEF DInv
<1>1. UNCHANGED <<stateFile, pc, seen, runs, interrupted, misread, overlapped>>
  BY DEF Bind, ServerEnds, OtherProcess, OtherBegins, NamesakeBegins, Begins, OtherListens,
         OtherEnds, tally
<1>2. died' \in 0..MaxMishaps /\ reissued \subseteq reissued' /\ reissued' \subseteq Scripts
  <2>1. died' \in 0..MaxMishaps
    BY DeployAssumption
       DEF Bind, ServerEnds, OtherProcess, OtherBegins, NamesakeBegins, Begins, OtherListens,
           OtherEnds, tally, DeployTypeOK
  <2>2. reissued \subseteq reissued' /\ reissued' \subseteq Scripts
    BY DEF Bind, ServerEnds, OtherProcess, OtherBegins, NamesakeBegins, Begins, OtherListens,
           OtherEnds, tally, DeployTypeOK
  <2> QED BY <2>1, <2>2
<1>3. CASE Gone(p)
  <2>1. DeployTypeOK'
    BY <1>1, <1>2, <1>3, GoneTyped DEF DeployTypeOK
  <2>2. /\ Servers' = Servers \ {p} /\ Strangers' = Strangers \ {p}
        /\ Unrelated' = Unrelated \ {p}
    BY <1>3, GoneFacts DEF Gone
  <2> QED BY <1>1, <1>2, <2>1, <2>2, MachineStep
<1>4. CASE running[p] = "starting" /\ p \in Live /\ running' = With(p, "serving") /\ port' = p
  <2>1. /\ Live' = Live /\ Servers' = Servers /\ running'[p] = "serving"
        /\ Strangers' = Strangers /\ Unrelated' = Unrelated
    BY <1>4, WithFacts DEF Servers, Strangers, Unrelated
  <2>2. /\ \A q \in Live' : running'[q] \in {"starting", "serving", "namesake", "other"}
        /\ running' = [q \in Live' |-> running'[q]]
    BY <1>4, TableTyped
  <2>3. DeployTypeOK'
    BY <1>1, <1>2, <1>4, <2>1, <2>2 DEF DeployTypeOK
  <2> QED BY <1>1, <1>2, <2>1, <2>3, MachineStep
<1>5. CASE OtherListens(p)
  <2>1. /\ Live' = Live /\ Servers' = Servers /\ running' = running
        /\ Strangers' = Strangers /\ Unrelated' = Unrelated
    BY <1>5 DEF OtherListens, Live, Servers, Strangers, Unrelated
  <2>2. port' \in {q \in Live' : running'[q] # "starting"} \cup {None}
    BY <1>5, <2>1 DEF OtherListens, Strangers, Servers
  <2>3. DeployTypeOK'
    BY <1>1, <1>2, <2>1, <2>2 DEF DeployTypeOK
  <2> QED BY <1>1, <1>2, <2>1, <2>3, MachineStep
<1>6. ASSUME NEW as \in {"namesake", "other"}, Begins(p, as) PROVE DInv'
  <2>1. /\ p \in Free /\ running' = With(p, as) /\ port' = port
        /\ reissued' = reissued \cup {s \in Scripts : pc[s] = "stop" /\ seen[s] = p}
    BY <1>6 DEF Begins
  <2>2. p \notin Live /\ p \notin Held
    BY <2>1 DEF Free
  <2>3. /\ Servers' = Servers /\ Live' = Live \cup {p}
        /\ Strangers' = Strangers \cup {p} /\ Unrelated' \subseteq Unrelated \cup {p}
        /\ \A q \in Live : running'[q] = running[q]
    <3>1. /\ Servers' = Servers \ {p} /\ Live' = Live \cup {p}
          /\ Strangers' = Strangers \cup {p} /\ Unrelated' \subseteq Unrelated \cup {p}
      BY <2>1, WithFacts
    <3>2. \A q \in Live' : running'[q] = IF q = p THEN as ELSE running[q]
      BY <2>1, WithFacts
    <3>3. p \notin Servers
      BY <2>2 DEF Servers
    <3> QED BY <3>1, <3>2, <3>3, <2>2
  <2>4. DeployTypeOK'
    <3>1. /\ Live' \subseteq Pids
          /\ \A q \in Live' : running'[q] \in {"starting", "serving", "namesake", "other"}
          /\ running' = [q \in Live' |-> running'[q]]
      BY <2>1, TableTyped
    <3>2. port' \in {q \in Live' : running'[q] # "starting"} \cup {None}
      BY <2>1, <2>3 DEF DeployTypeOK
    <3> QED BY <3>1, <3>2, <1>1, <1>2 DEF DeployTypeOK
  <2> QED BY <1>1, <2>1, <2>2, <2>3, <2>4, MachineStep
<1> QED BY <1>3, <1>4, <1>5, <1>6
        DEF Bind, ServerEnds, OtherProcess, OtherBegins, NamesakeBegins, OtherEnds

-----------------------------------------------------------------------------
LEMMA StutterD == ASSUME DInv, UNCHANGED deploy_vars PROVE DInv'
<1>1. /\ Live' = Live /\ Servers' = Servers /\ Held' = Held /\ Exposed' = Exposed
      /\ Strangers' = Strangers /\ Unrelated' = Unrelated
  BY DEF deploy_vars, Live, Servers, Held, Doomed, Exposed, Strangers, Unrelated
<1> QED BY <1>1 DEF deploy_vars, DInv, DeployTypeOK, Alone, Identity, Knowledge, Knows, FewLost

LEMMA NextD == ASSUME DInv, [DeployNext]_deploy_vars PROVE DInv'
<1>1. CASE UNCHANGED deploy_vars
  BY <1>1, StutterD
<1>2. ASSUME NEW s \in Scripts, RunStart(s) \/ RunStop(s) \/ StartStep(s) \/ StopStep(s) \/ Interrupt(s)
      PROVE  DInv'
  BY <1>2, RunStep, InterruptStep, SpawnStep, EndingStep, QuietStep, QueryFailsStep
     DEF StartStep, StopStep, Quiet
<1>3. ASSUME NEW p \in Pids, Bind(p) \/ ServerEnds(p) \/ OtherProcess(p)
      PROVE  DInv'
  BY <1>3, ProcessStep
<1> QED BY <1>1, <1>2, <1>3 DEF DeployNext

\* What the scripts know and hold stays true, whatever is run next to them.
THEOREM DeployInvariant == DeploySpec => []DInv
<1> QED BY InitD, NextD, PTL DEF DeploySpec

\* Scripts that run one at a time lose no more servers than scripts were
\* interrupted and queries failed: of all the servers that run, the state file
\* names the rest.
THEOREM ServersAreNotLost == DeploySpec => []LostOnlyByMishaps
<1>1. DInv => LostOnlyByMishaps
  <2> SUFFICES ASSUME DInv, ~overlapped PROVE Cardinality(Lost) <= interrupted + misread
    BY DEF LostOnlyByMishaps
  <2>1. Cardinality(Exposed) <= interrupted + misread /\ interrupted \in Nat /\ misread \in Nat
    BY DEF DInv, FewLost, DeployTypeOK
  <2>2. /\ Cardinality(Lost) <= Cardinality(Exposed)
        /\ Cardinality(Lost) \in Nat /\ Cardinality(Exposed) \in Nat
    BY LostIsFinite, FS_Subset, FS_CardinalityType DEF DInv
  <2> QED BY <2>1, <2>2
<1> QED BY <1>1, DeployInvariant, PTL

\* A step of one script, or of the machine, in which s moves.
LEMMA WhoMoves ==
    ASSUME DInv, [DeployNext]_deploy_vars, NEW s \in Scripts, pc'[s] # pc[s]
    PROVE  RunStart(s) \/ RunStop(s) \/ StartStep(s) \/ StopStep(s) \/ Interrupt(s)
<1>1. CASE UNCHANGED deploy_vars
  BY <1>1 DEF deploy_vars
<1>2. ASSUME NEW t \in Scripts, t # s,
             RunStart(t) \/ RunStop(t) \/ StartStep(t) \/ StopStep(t) \/ Interrupt(t)
      PROVE  pc'[s] = pc[s]
  <2>1. pc \in [Scripts -> States]
    BY DEF DInv, DeployTypeOK
  <2>2. CASE RunStart(t) \/ RunStop(t) \/ Interrupt(t)
    BY <1>2, <2>1, <2>2 DEF RunStart, RunStop, Run, Interrupt
  <2>3. CASE StartStep(t)
    BY <1>2, <2>1, <2>3 DEF StartStep, ReadState, LookUp, ClearStale, Spawn, Record, CheckExited,
         Probe, KillUnhealthy, Unrecord, Move
  <2>4. CASE StopStep(t)
    BY <1>2, <2>1, <2>4 DEF StopStep, ReadTarget, Query, QueryFails, Decline, StopProcess,
         RemoveState, Move
  <2> QED BY <1>2, <2>2, <2>3, <2>4
<1>3. ASSUME NEW q \in Pids, Bind(q) \/ ServerEnds(q) \/ OtherProcess(q)
      PROVE  pc'[s] = pc[s]
  BY <1>3 DEF Bind, ServerEnds, OtherProcess, OtherBegins, NamesakeBegins, Begins, OtherListens,
       OtherEnds
<1> QED BY <1>1, <1>2, <1>3 DEF DeployNext

\* Stop ends a program with another command line only if that one was given the
\* identifier after the look at it, and Start never ends one.
THEOREM OthersAreLeftAlone == DeploySpec => OthersOnlyByReissue
<1>1. ASSUME DInv, [DeployNext]_deploy_vars, NEW s \in Scripts, pc'[s] # pc[s],
             NEW p \in Unrelated, p \notin DOMAIN running'
      PROVE  pc[s] = "stop" /\ seen[s] = p /\ s \in reissued
  <2>1. p \in Live /\ p \in Strangers
    BY <1>1 DEF Unrelated, Strangers, Servers
  <2>2. RunStart(s) \/ RunStop(s) \/ StartStep(s) \/ StopStep(s) \/ Interrupt(s)
    BY <1>1, WhoMoves
  <2>3. CASE KillUnhealthy(s) \/ StopProcess(s)
    <3>1. seen[s] \in Live /\ running' = Without(seen[s])
      BY <2>1, <2>3, <1>1 DEF KillUnhealthy, StopProcess, Gone, Live
    <3>2. p = seen[s]
      BY <3>1, <2>1, <1>1, GoneFacts DEF Live
    <3>3. CASE KillUnhealthy(s)
      BY <3>2, <3>3, <2>1, <1>1 DEF KillUnhealthy, Move, DInv, Identity, Holding
    <3>4. CASE StopProcess(s)
      BY <3>2, <3>4, <1>1 DEF StopProcess, Move, DInv, Identity
    <3> QED BY <2>3, <3>3, <3>4
  <2>4. CASE Spawn(s)
    BY <2>4, <2>1, <1>1, WithFacts DEF Spawn, Live
  <2>5. CASE running' = running
    BY <2>5, <2>1, <1>1 DEF Live
  <2> QED BY <2>2, <2>3, <2>4, <2>5
    DEF StartStep, StopStep, RunStart, RunStop, Run, Interrupt, ReadState, LookUp, ClearStale, Record,
        CheckExited, Probe, Unrecord, ReadTarget, Query, QueryFails, Decline, RemoveState
<1>2. DInv /\ [DeployNext]_deploy_vars =>
        [\A s \in Scripts : pc'[s] # pc[s] =>
           \A p \in Unrelated : p \notin DOMAIN running' =>
             pc[s] = "stop" /\ seen[s] = p /\ s \in reissued]_deploy_vars
  BY <1>1
<1> QED BY <1>2, DeployInvariant, PTL DEF DeploySpec, OthersOnlyByReissue

\* As long as scripts run to their end, one at a time, and see the processes,
\* the server reported as healthy is recorded, and no other one of ours answers.
THEOREM HealthIsTrue == DeploySpec => HealthyIsRecorded
<1>1. ASSUME DInv, [DeployNext]_deploy_vars, NEW s \in Scripts,
             pc[s] = "probe", pc'[s] = "healthy", ~overlapped, ~(interrupted > 0), ~(misread > 0)
      PROVE  stateFile = seen[s] /\ port \in {seen[s]} \cup Strangers
  <2>1. stateFile = seen[s]
    BY <1>1 DEF DInv, Knowledge, Knows
  <2>2. Servers \subseteq {seen[s]}
    <3>1. interrupted = 0 /\ misread = 0
      BY <1>1 DEF DInv, DeployTypeOK
    <3>2. IsFiniteSet(Exposed) /\ Cardinality(Exposed) \in Nat /\ Cardinality(Exposed) <= 0
      BY <1>1, <3>1, LostIsFinite, FS_CardinalityType DEF DInv, FewLost
    <3>3. Exposed = {}
      BY <3>2, FS_EmptySet
    <3>4. \A t \in Scripts : pc[t] \in Holding => t = s
      BY <1>1 DEF DInv, Alone, Ended, Holding
    <3>5. Held \subseteq {seen[s]}
      BY <3>4 DEF Held
    <3> QED BY <2>1, <3>3, <3>5 DEF Exposed
  <2>3. port \in Live \cup {None}
    BY <1>1 DEF DInv, DeployTypeOK
  <2>4. Probe(s)
    <3>1. RunStart(s) \/ RunStop(s) \/ StartStep(s) \/ StopStep(s) \/ Interrupt(s)
      BY <1>1, WhoMoves
    <3>2. pc \in [Scripts -> States]
      BY <1>1 DEF DInv, DeployTypeOK
    <3> QED BY <3>1, <3>2, <1>1
      DEF StartStep, StopStep, RunStart, RunStop, Run, Interrupt, ReadState, LookUp, ClearStale,
          Spawn, Record, CheckExited, KillUnhealthy, Unrecord, ReadTarget, Query, QueryFails,
          Decline, StopProcess, RemoveState, Move, Ended
  <2>5. port # None
    BY <2>4, <1>1 DEF Probe, Move, DInv, DeployTypeOK
  <2> QED BY <2>1, <2>2, <2>3, <2>5 DEF Strangers
<1>2. DInv /\ [DeployNext]_deploy_vars =>
        [\A s \in Scripts :
           pc[s] = "probe" /\ pc'[s] = "healthy" =>
           \/ overlapped \/ interrupted > 0 \/ misread > 0
           \/ stateFile = seen[s] /\ port \in {seen[s]} \cup Strangers]_deploy_vars
  BY <1>1
<1> QED BY <1>2, DeployInvariant, PTL DEF DeploySpec, HealthyIsRecorded

(***************************************************************************)
(* The service: ScanService.                                               *)
(***************************************************************************)
USE DEF permits, replies, disk, world, vars

-----------------------------------------------------------------------------
(* Types.                                                                  *)

LEMMA ResponseType ==
  ASSUME NEW status \in Statuses, NEW whole \in BOOLEAN
  PROVE  Response(status, whole) \in Responses
BY DEF Response, Responses

LEMMA SayType ==
  ASSUME TypeOK, NEW c \in Conns, NEW status \in Statuses, NEW whole \in BOOLEAN,
         Say(c, status, whole)
  PROVE  sent' \in [Conns -> Seq(Responses)]
<1>1. sent \in [Conns -> Seq(Responses)] /\ sent[c] \in Seq(Responses)
  BY DEF TypeOK
<1>2. Append(sent[c], Response(status, whole)) \in Seq(Responses)
  BY <1>1, ResponseType
<1>3. QED
  BY <1>1, <1>2 DEF Say

LEMMA SendJsonType ==
  ASSUME TypeOK, NEW c \in Conns, NEW status \in Statuses, SendJson(c, status)
  PROVE  /\ sent' \in [Conns -> Seq(Responses)]
         /\ pending' \in [Conns -> Leavings]
<1>1. PICK leaving \in {"return", "timeout", "gone"} :
        /\ Say(c, status, leaving = "return")
        /\ pending' = [pending EXCEPT ![c] = leaving]
  BY DEF SendJson
<1>2. QED
  BY <1>1, SayType DEF TypeOK, Leavings

LEMMA OverType ==
  ASSUME NEW n \in Nat, NEW length \in Int
  PROVE  Over(n, length) \in Nat /\ Over(n, length) <= n
BY DEF Over

LEMMA BeyondType ==
  ASSUME NEW j \in Jobs
  PROVE  Beyond(j) \in Nat
<1>1. j.spool \in Nat /\ j.copy \in Nat /\ j.request \in Int
  BY ServiceAssumption DEF Jobs, Lengths, BadHeader
<1>2. Over(j.spool, j.request) \in Nat /\ Over(j.copy, j.request) \in Nat
  BY <1>1, OverType
<1>3. QED
  BY <1>2 DEF Beyond

LEMMA SetJobType ==
  ASSUME TypeOK, NEW c \in Conns, NEW j \in Jobs, SetJob(c, j)
  PROVE  job' \in [Conns -> Jobs] /\ uploadBytes' \in Int /\ excess' \in Int
<1>1. job \in [Conns -> Jobs] /\ job[c] \in Jobs
  BY DEF TypeOK
<1>2. /\ j.spool \in Nat /\ j.copy \in Nat
      /\ job[c].spool \in Nat /\ job[c].copy \in Nat
  BY <1>1 DEF Jobs
<1>3. job' \in [Conns -> Jobs]
  BY <1>1 DEF SetJob
<1>4. uploadBytes' \in Int
  BY <1>2 DEF TypeOK, SetJob
<1>5. Beyond(j) \in Int /\ Beyond(job[c]) \in Int
  BY <1>1, BeyondType
<1>6. excess' \in Int
  BY <1>5 DEF TypeOK, SetJob
<1>7. QED
  BY <1>3, <1>4, <1>6

LEMMA GotoType ==
  ASSUME TypeOK, NEW c \in Conns, NEW from, NEW to \in Phases, Goto(c, from, to)
  PROVE  phase' \in [Conns -> Phases]
BY DEF TypeOK, Goto

LEMMA ForgetType ==
  ASSUME TypeOK, NEW c \in Conns, Forget(c)
  PROVE  /\ job' \in [Conns -> Jobs] /\ uploadBytes' \in Int /\ excess' \in Int
         /\ leaked' \in Nat /\ orphans' \in Nat
         /\ pending' \in [Conns -> Leavings] /\ sent' \in [Conns -> Seq(Responses)]
<1>1. /\ job[c] \in Jobs /\ NoJob \in Jobs
      /\ job[c].spool \in Nat /\ job[c].copy \in Nat /\ job[c].request \in Int
  BY ServiceAssumption DEF TypeOK, Jobs, NoJob, Lengths, BadHeader
<1>2. job' \in [Conns -> Jobs]
  BY <1>1 DEF Forget, TypeOK
<1>3. uploadBytes' \in Int
  BY <1>1 DEF Forget, TypeOK
<1>4. excess' \in Int
  <2>1. Over(job[c].spool, job[c].request) \in Nat
    BY <1>1, OverType
  <2>2. QED
    BY <2>1 DEF Forget, TypeOK
<1>5. leaked' \in Nat /\ orphans' \in Nat
  BY <1>1 DEF Forget, TypeOK
<1>6. pending' \in [Conns -> Leavings] /\ sent' \in [Conns -> Seq(Responses)]
  BY DEF Forget, TypeOK, Leavings
<1>7. QED
  BY <1>2, <1>3, <1>4, <1>5, <1>6

(* The steps of Hear, Serve, Fail and ScannerExits, one by one. *)
ConnStep(c) == Hear(c) \/ Serve(c) \/ Fail(c) \/ ScannerExits(c)

LEMMA ConnStepType ==
  ASSUME TypeOK, NEW c \in Conns, ConnStep(c)
  PROVE  TypeOK'
<1> USE ServiceAssumption
<1> DEFINE J == job[c]
<1>j. /\ J \in Jobs /\ NoJob \in Jobs
      /\ J.request \in Lengths /\ J.spool \in Nat /\ J.copy \in Nat
  BY DEF TypeOK, Jobs, NoJob, Lengths, BadHeader
<1>s. ASSUME NEW free, RequestStatus(J.request, free) # "ok"
      PROVE  RequestStatus(J.request, free) \in Statuses
  BY <1>s DEF RequestStatus, Statuses
<1>r. ScanResult(c) \in Statuses
  BY DEF ScanResult, Statuses
<1>a. AfterFinally(c) \in Phases
  BY DEF AfterFinally, Phases, ScanPhases
<1>1. CASE Accept(c)
  BY <1>1, GotoType DEF Accept, TypeOK, Phases, ScanPhases
<1>2. CASE Overloaded(c)
  BY <1>2, ResponseType DEF Overloaded, TypeOK, Statuses
<1>3. CASE Answer(c)
  BY <1>3, GotoType, SayType DEF Answer, TypeOK, Phases, Statuses
<1>4. CASE RefuseScan(c)
  BY <1>4, GotoType, SayType DEF RefuseScan, TypeOK, Phases, Statuses
<1>5. CASE AdmitScan(c)
  <2>1. PICK length \in Lengths : job' = [job EXCEPT ![c].request = length]
    BY <1>5 DEF AdmitScan
  <2>2. [J EXCEPT !.request = length] \in Jobs
    BY <1>j DEF Jobs
  <2>3. job' \in [Conns -> Jobs]
    BY <2>1, <2>2 DEF TypeOK
  <2>4. phase' \in [Conns -> Phases]
    BY <1>5, GotoType DEF AdmitScan, Phases, ScanPhases
  <2>5. scanPermits' = scanPermits - 1 /\ UNCHANGED <<connPermits, replies, disk, world>>
    BY <1>5 DEF AdmitScan
  <2>6. QED
    BY <2>3, <2>4, <2>5 DEF TypeOK
<1>6. CASE ReceiveChunk(c)
  <2>1. [J EXCEPT !.spool = @ + 1] \in Jobs
    BY <1>j DEF Jobs
  <2>2. QED
    BY <1>6, <2>1, SetJobType DEF ReceiveChunk, TypeOK
<1>7. CASE UploadEnds(c)
  BY <1>7, GotoType DEF UploadEnds, TypeOK, Phases, ScanPhases
<1>8. CASE RejectForm(c)
  BY <1>8, GotoType, SendJsonType DEF RejectForm, TypeOK, Phases, ScanPhases, Statuses
<1>9. CASE StartThread(c)
  BY <1>9, GotoType DEF StartThread, TypeOK, Phases
<1>10. CASE ReleaseConn(c)
  BY <1>10, GotoType, ForgetType DEF ReleaseConn, TypeOK, Phases
<1>11. CASE HeadFails(c)
  BY <1>11, GotoType DEF HeadFails, TypeOK, Phases
<1>12. CASE RejectRequest(c)
  <2>1. PICK free \in FreeReadings :
          /\ RequestStatus(J.request, free) # "ok"
          /\ SendJson(c, RequestStatus(J.request, free))
    BY <1>12 DEF RejectRequest
  <2>2. RequestStatus(J.request, free) \in Statuses
    BY <2>1, <1>s
  <2>3. /\ Goto(c, "admitted", "cleanup")
        /\ UNCHANGED <<permits, job, disk, world>>
    BY <1>12 DEF RejectRequest
  <2>4. QED
    BY <2>1, <2>2, <2>3, GotoType, SendJsonType DEF TypeOK, Phases, ScanPhases
<1>13. CASE StartUpload(c)
  BY <1>13, GotoType DEF StartUpload, TypeOK, Phases, ScanPhases
<1>14. CASE ClientFallsSilent(c) \/ ClientResets(c) \/ UploadTimeout(c)
  BY <1>14, GotoType
     DEF ClientFallsSilent, ClientResets, UploadTimeout, TypeOK, Phases, ScanPhases, Leavings
<1>15. CASE CopyChunk(c)
  <2>1. [J EXCEPT !.copy = @ + 1] \in Jobs
    BY <1>j DEF Jobs
  <2>2. QED
    BY <1>15, <2>1, SetJobType DEF CopyChunk, TypeOK
<1>16. CASE RejectSize(c) \/ RejectFile(c)
  BY <1>16, GotoType, SendJsonType
     DEF RejectSize, RejectFile, TypeOK, Phases, ScanPhases, Statuses
<1>17. CASE WorkFails(c)
  BY <1>17, GotoType DEF WorkFails, TypeOK, Phases, ScanPhases, Leavings
<1>18. CASE NoEngine(c)
  BY <1>18, GotoType, SendJsonType DEF NoEngine, TypeOK, Phases, ScanPhases, Statuses
<1>19. CASE StartScanner(c)
  BY <1>19, <1>j, GotoType DEF StartScanner, TypeOK, Phases, ScanPhases, Jobs
<1>20. CASE ScanTimeout(c)
  <2>1. [J EXCEPT !.child = AfterKill(c)] \in Jobs
    BY <1>j DEF Jobs, AfterKill
  <2>2. job' \in [Conns -> Jobs]
    BY <1>20, <2>1 DEF ScanTimeout, TypeOK
  <2>3. QED
    BY <1>20, <2>2, GotoType, SendJsonType DEF ScanTimeout, TypeOK, Phases, ScanPhases, Statuses
<1>21. CASE ScanEnds(c)
  BY <1>21, <1>r, GotoType, SendJsonType DEF ScanEnds, TypeOK, Phases, ScanPhases
<1>22. CASE Cleanup(c)
  <2>1. [J EXCEPT !.spool = Spooled(c), !.copy = 0] \in Jobs
    BY <1>j DEF Jobs, Spooled
  <2>2. QED
    BY <1>22, <2>1, <1>a, GotoType, SetJobType DEF Cleanup, TypeOK
<1>23. CASE HandleException(c)
  <2>1. sent' \in [Conns -> Seq(Responses)]
    BY <1>23, SayType DEF HandleException, TypeOK, Statuses
  <2>2. [J EXCEPT !.spool = 0] \in Jobs
    BY <1>j DEF Jobs
  <2>3. QED
    BY <1>23, <2>1, <2>2, GotoType, SetJobType DEF HandleException, TypeOK, Phases, ScanPhases
<1>24. CASE ReleaseScan(c)
  BY <1>24, GotoType DEF ReleaseScan, TypeOK, Phases
<1>25. CASE StartFails(c)
  BY <1>25, GotoType DEF StartFails, TypeOK, Phases
<1>26. CASE UnlinkFails(c)
  <2>1. phase' \in [Conns -> Phases]
    BY <1>26, GotoType DEF UnlinkFails, Phases, ScanPhases
  <2>2. pending' \in [Conns -> Leavings] /\ leaked' \in Nat /\ faults' \in Nat
    <3>1. /\ pending' = [pending EXCEPT ![c] = "unlink"]
          /\ leaked' = leaked + J.copy /\ faults' = faults + 1
      BY <1>26 DEF UnlinkFails
    <3>2. QED
      BY <3>1, <1>j DEF TypeOK, Leavings
  <2>3. UNCHANGED <<permits, job, sent, uploadBytes, excess, up, orphans>>
    BY <1>26 DEF UnlinkFails
  <2>4. QED
    BY <2>1, <2>2, <2>3 DEF TypeOK
<1>27. CASE ScannerExits(c)
  <2>1. PICK exit \in {"done", "oversized", "truncated", "failed"} :
          job' = [job EXCEPT ![c].child = exit]
    BY <1>27 DEF ScannerExits
  <2>2. [J EXCEPT !.child = exit] \in Jobs
    BY <1>j DEF Jobs
  <2>3. job' \in [Conns -> Jobs]
    BY <2>1, <2>2 DEF TypeOK
  <2>4. QED
    BY <1>27, <2>3 DEF ScannerExits, TypeOK
<1>28. QED
  BY <1>1, <1>2, <1>3, <1>4, <1>5, <1>6, <1>7, <1>8, <1>9, <1>10, <1>11, <1>12, <1>13,
     <1>14, <1>15, <1>16, <1>17, <1>18, <1>19, <1>20, <1>21, <1>22, <1>23, <1>24, <1>25,
     <1>26, <1>27 DEF ConnStep, Hear, Serve, Fail

LEMMA TypeStep == TypeOK /\ [Next]_vars => TypeOK'
<1>1. ASSUME TypeOK, NEW c \in Conns, Vanish(c) PROVE TypeOK'
  <2>1. phase' \in [Conns -> Phases]
    BY <1>1 DEF Vanish, TypeOK, Phases
  <2>2. QED
    BY <1>1, <2>1, ForgetType DEF Vanish, TypeOK
<1>2. ASSUME TypeOK, ServerDies PROVE TypeOK'
  <2>1. /\ up' = FALSE /\ faults' = faults + 1
        /\ UNCHANGED <<phase, permits, job, replies, disk, orphans>>
    BY <1>2 DEF ServerDies
  <2>2. up' \in BOOLEAN
    BY <2>1
  <2>3. faults' \in Nat
    BY <1>2, <2>1 DEF TypeOK
  <2>4. QED
    BY <1>2, <2>1, <2>2, <2>3 DEF TypeOK
<1>3. ASSUME TypeOK, Restart PROVE TypeOK'
  BY <1>3, ServiceAssumption DEF Restart, TypeOK
<1>4. ASSUME TypeOK, OrphanExits PROVE TypeOK'
  <2>1. /\ orphans > 0 /\ orphans' = orphans - 1
        /\ UNCHANGED <<phase, permits, job, replies, disk, up, faults>>
    BY <1>4 DEF OrphanExits
  <2>2. orphans' \in Nat
    BY <1>4, <2>1 DEF TypeOK
  <2>3. QED
    BY <1>4, <2>1, <2>2 DEF TypeOK
<1>5. ASSUME TypeOK, UNCHANGED vars PROVE TypeOK'
  BY <1>5 DEF TypeOK
<1>6. QED
  BY <1>1, <1>2, <1>3, <1>4, <1>5, ConnStepType DEF Next, ConnStep

LEMMA InitType == Init => TypeOK
BY ServiceAssumption DEF Init, TypeOK, Phases, Jobs, NoJob, Leavings, Lengths, BadHeader

(* The variables of the service keep their types: whatever requests come,  *)
(* fail, time out or are cut off by the death of the server.               *)
THEOREM TypeCorrect == Spec => []TypeOK
BY InitType, TypeStep, PTL DEF Spec

-----------------------------------------------------------------------------
(* Slots.                                                                  *)

One(x, S) == IF x \in S THEN 1 ELSE 0
AtWork == Phases \ {"idle"}

(* Those whose phase, by the function p, is in S. *)
Inside(p, S) == {d \in Conns : p[d] \in S}

(* One handler moves: the holders of a slot change by that handler alone. *)
LEMMA InsideMoves ==
  ASSUME NEW p \in [Conns -> Phases], NEW c \in Conns, NEW to \in Phases, NEW S
  PROVE  /\ IsFiniteSet(Inside(p, S))
         /\ Cardinality(Inside(p, S)) \in Nat
         /\ Cardinality(Inside([p EXCEPT ![c] = to], S))
              = Cardinality(Inside(p, S)) - One(p[c], S) + One(to, S)
<1> DEFINE q == [p EXCEPT ![c] = to]
<1>1. IsFiniteSet(Inside(p, S)) /\ Cardinality(Inside(p, S)) \in Nat
  BY ServiceAssumption, FS_Subset, FS_CardinalityType DEF Inside
<1>2. CASE p[c] \in S <=> to \in S
  <2>1. Inside(q, S) = Inside(p, S)
    BY <1>2 DEF Inside
  <2>2. One(p[c], S) = One(to, S)
    BY <1>2 DEF One
  <2>3. QED
    BY <1>1, <2>1, <2>2 DEF One
<1>3. CASE p[c] \notin S /\ to \in S
  <2>1. Inside(q, S) = Inside(p, S) \cup {c} /\ c \notin Inside(p, S)
    BY <1>3 DEF Inside
  <2>2. Cardinality(Inside(q, S)) = Cardinality(Inside(p, S)) + 1
    BY <1>1, <2>1, FS_AddElement
  <2>3. QED
    BY <1>1, <1>3, <2>2 DEF One
<1>4. CASE p[c] \in S /\ to \notin S
  <2>1. Inside(q, S) = Inside(p, S) \ {c} /\ c \in Inside(p, S)
    BY <1>4 DEF Inside
  <2>2. Cardinality(Inside(q, S)) = Cardinality(Inside(p, S)) - 1
    BY <1>1, <2>1, FS_RemoveElement
  <2>3. QED
    BY <1>1, <1>4, <2>2 DEF One
<1>5. QED
  BY <1>1, <1>2, <1>3, <1>4

(* A step of one connection moves its handler, and settles both semaphores *)
(* by what the move enters and leaves.                                     *)
Settles(c) ==
  /\ phase' = [phase EXCEPT ![c] = phase'[c]] /\ phase'[c] \in Phases
  /\ connPermits' = connPermits + One(phase[c], AtWork) - One(phase'[c], AtWork)
  /\ scanPermits' = scanPermits + One(phase[c], ScanPhases) - One(phase'[c], ScanPhases)
  /\ phase[c] \notin AtWork /\ phase'[c] \in AtWork => connPermits > 0
  /\ phase[c] \notin ScanPhases /\ phase'[c] \in ScanPhases => scanPermits # 0
  /\ up' = up

LEMMA Moves ==
  ASSUME TypeOK, NEW c \in Conns, NEW from, NEW to \in Phases, Goto(c, from, to),
         up' = up,
         connPermits' = connPermits + One(from, AtWork) - One(to, AtWork),
         scanPermits' = scanPermits + One(from, ScanPhases) - One(to, ScanPhases),
         from \notin AtWork /\ to \in AtWork => connPermits > 0,
         from \notin ScanPhases /\ to \in ScanPhases => scanPermits # 0
  PROVE  Settles(c)
<1>1. phase[c] = from /\ phase' = [phase EXCEPT ![c] = to] /\ phase'[c] = to
  BY DEF Goto, TypeOK
<1>2. QED
  BY <1>1 DEF Settles

LEMMA Stays ==
  ASSUME TypeOK, NEW c \in Conns, UNCHANGED <<phase, permits>>, up' = up
  PROVE  Settles(c)
<1>1. phase[c] \in Phases /\ phase' = [phase EXCEPT ![c] = phase'[c]]
  BY DEF TypeOK
<1>2. connPermits' = connPermits /\ scanPermits' = scanPermits /\ phase'[c] = phase[c]
  OBVIOUS
<1>3. connPermits \in Int /\ scanPermits \in Int
  BY DEF TypeOK
<1>4. QED
  BY <1>1, <1>2, <1>3 DEF Settles, One

(* A move that enters and leaves no slot. *)
LEMMA MovesWithin ==
  ASSUME TypeOK, NEW c \in Conns, NEW from \in AtWork, NEW to \in AtWork,
         Goto(c, from, to), UNCHANGED permits, up' = up,
         from \in ScanPhases <=> to \in ScanPhases
  PROVE  Settles(c)
<1>1. connPermits \in Int /\ scanPermits \in Int
  BY DEF TypeOK
<1>2. connPermits' = connPermits /\ scanPermits' = scanPermits
  OBVIOUS
<1>3. One(from, AtWork) = One(to, AtWork) /\ One(from, ScanPhases) = One(to, ScanPhases)
  BY DEF One
<1>4. One(from, AtWork) \in Int /\ One(from, ScanPhases) \in Int /\ to \in Phases
  BY DEF One, AtWork
<1>5. QED
  BY <1>1, <1>2, <1>3, <1>4, Moves

LEMMA InsideSettles ==
  ASSUME TypeOK, NEW c \in Conns, Settles(c), NEW S
  PROVE  /\ Cardinality(Inside(phase', S))
              = Cardinality(Inside(phase, S)) - One(phase[c], S) + One(phase'[c], S)
         /\ Cardinality(Inside(phase, S)) \in Nat
<1>1. PICK to \in Phases : to = phase'[c]
  BY DEF Settles
<1>2. phase' = [phase EXCEPT ![c] = to]
  BY <1>1 DEF Settles
<1>3. phase \in [Conns -> Phases]
  BY DEF TypeOK
<1>4. /\ Cardinality(Inside([phase EXCEPT ![c] = to], S))
           = Cardinality(Inside(phase, S)) - One(phase[c], S) + One(to, S)
      /\ Cardinality(Inside(phase, S)) \in Nat
  BY <1>3, InsideMoves, Zenon
<1>5. QED
  BY <1>1, <1>2, <1>4, Zenon

LEMMA ConnStepSettles ==
  ASSUME TypeOK, NEW c \in Conns, ConnStep(c)
  PROVE  Settles(c)
<1>t. connPermits \in Int /\ scanPermits \in Int
  BY DEF TypeOK
<1>i. One("idle", AtWork) = 0 /\ One("accepted", AtWork) = 1 /\ One("closing", AtWork) = 1
  BY DEF One, AtWork, Phases
<1>o. /\ One("idle", ScanPhases) = 0 /\ One("accepted", ScanPhases) = 0
      /\ One("closing", ScanPhases) = 0
  BY DEF One, ScanPhases
<1>1. CASE Accept(c)
  BY <1>1, <1>t, <1>i, <1>o, Moves DEF Accept, Phases, AtWork, ScanPhases
<1>2. CASE StartFails(c)
  BY <1>2, <1>t, <1>i, <1>o, Moves DEF StartFails, Phases, AtWork, ScanPhases
<1>3. CASE ReleaseConn(c)
  BY <1>3, <1>t, <1>i, <1>o, Moves DEF ReleaseConn, Phases, AtWork, ScanPhases
<1>4. CASE AdmitScan(c)
  <2>1. /\ One("head", AtWork) = 1 /\ One("admitted", AtWork) = 1
        /\ One("head", ScanPhases) = 0 /\ One("admitted", ScanPhases) = 1
        /\ "head" \in AtWork /\ "admitted" \in Phases
    BY DEF One, AtWork, Phases, ScanPhases
  <2>2. /\ Goto(c, "head", "admitted") /\ up' = up
        /\ connPermits' = connPermits /\ scanPermits' = scanPermits - 1 /\ scanPermits # 0
    BY <1>4 DEF AdmitScan, ScanSlotsFull
  <2>3. /\ connPermits' = connPermits + One("head", AtWork) - One("admitted", AtWork)
        /\ scanPermits' = scanPermits + One("head", ScanPhases) - One("admitted", ScanPhases)
    BY <1>t, <2>1, <2>2
  <2>4. QED
    BY <2>1, <2>2, <2>3, Moves
<1>5. CASE ReleaseScan(c)
  <2>1. /\ One("release", AtWork) = 1 /\ One("release", ScanPhases) = 1
        /\ "release" \in AtWork /\ "release" \in ScanPhases /\ "closing" \in Phases
    BY DEF One, AtWork, Phases, ScanPhases
  <2>2. /\ Goto(c, "release", "closing") /\ up' = up
        /\ connPermits' = connPermits /\ scanPermits' = scanPermits + 1
    BY <1>5 DEF ReleaseScan
  <2>3. /\ connPermits' = connPermits + One("release", AtWork) - One("closing", AtWork)
        /\ scanPermits' = scanPermits + One("release", ScanPhases) - One("closing", ScanPhases)
    BY <1>t, <1>i, <1>o, <2>1, <2>2
  <2>4. QED
    BY <2>1, <2>2, <2>3, Moves
<1>6. CASE Overloaded(c) \/ ReceiveChunk(c) \/ CopyChunk(c) \/ ScannerExits(c)
  BY <1>6, Stays DEF Overloaded, ReceiveChunk, CopyChunk, ScannerExits
<1>7. CASE Answer(c) \/ RefuseScan(c) \/ HeadFails(c) \/ StartThread(c)
  BY <1>7, MovesWithin DEF Answer, RefuseScan, HeadFails, StartThread, Phases, AtWork, ScanPhases
<1>8. CASE \/ RejectRequest(c) \/ StartUpload(c) \/ UploadEnds(c) \/ RejectForm(c)
           \/ ClientFallsSilent(c) \/ ClientResets(c) \/ UploadTimeout(c)
  BY <1>8, MovesWithin
     DEF RejectRequest, StartUpload, UploadEnds, RejectForm, ClientFallsSilent, ClientResets,
         UploadTimeout, Phases, AtWork, ScanPhases
<1>9. CASE RejectSize(c) \/ RejectFile(c) \/ WorkFails(c) \/ NoEngine(c) \/ StartScanner(c)
  BY <1>9, MovesWithin
     DEF RejectSize, RejectFile, WorkFails, NoEngine, StartScanner, Phases, AtWork, ScanPhases
<1>10. CASE ScanTimeout(c) \/ ScanEnds(c) \/ UnlinkFails(c) \/ HandleException(c)
  BY <1>10, MovesWithin
     DEF ScanTimeout, ScanEnds, UnlinkFails, HandleException, Phases, AtWork, ScanPhases
<1>11. CASE Cleanup(c)
  BY <1>11, MovesWithin DEF Cleanup, AfterFinally, Phases, AtWork, ScanPhases
<1>12. QED
  BY <1>1, <1>2, <1>3, <1>4, <1>5, <1>6, <1>7, <1>8, <1>9, <1>10, <1>11
     DEF ConnStep, Hear, Serve, Fail

LEMMA HoldersAreInside ==
  ASSUME TypeOK
  PROVE  ConnHolders = Inside(phase, AtWork) /\ ScanHolders = Inside(phase, ScanPhases)
BY DEF TypeOK, ConnHolders, ScanHolders, Inside, AtWork

LEMMA NobodyInside ==
  ASSUME NEW p, p = [c \in Conns |-> "idle"]
  PROVE  /\ Cardinality({c \in Conns : p[c] # "idle"}) = 0
         /\ Cardinality({c \in Conns : p[c] \in ScanPhases}) = 0
<1>1. {c \in Conns : p[c] # "idle"} = {} /\ {c \in Conns : p[c] \in ScanPhases} = {}
  BY DEF ScanPhases
<1>2. QED
  BY <1>1, FS_EmptySet

LEMMA SlotsInit == Init => SlotsConserved
<1>1. ASSUME Init PROVE Cardinality(ConnHolders) = 0 /\ Cardinality(ScanHolders) = 0
  BY <1>1, NobodyInside DEF Init, ConnHolders, ScanHolders
<1>2. QED
  BY <1>1, ServiceAssumption DEF Init, SlotsConserved

LEMMA SlotsStep == TypeOK /\ TypeOK' /\ SlotsConserved /\ [Next]_vars => SlotsConserved'
<1>1. ASSUME TypeOK, TypeOK', SlotsConserved, NEW c \in Conns, ConnStep(c), up'
      PROVE  SlotsConserved'
  <2>1. Settles(c) /\ up
    BY <1>1, ConnStepSettles DEF Settles
  <2>2. /\ Cardinality(ConnHolders)' = Cardinality(ConnHolders)
             - One(phase[c], AtWork) + One(phase'[c], AtWork)
        /\ Cardinality(ConnHolders) \in Nat
    <3>1. ConnHolders' = Inside(phase', AtWork) /\ ConnHolders = Inside(phase, AtWork)
      BY <1>1, HoldersAreInside DEF TypeOK, ConnHolders, Inside, AtWork
    <3>2. QED
      BY <1>1, <2>1, <3>1, InsideSettles
  <2>3. /\ Cardinality(ScanHolders)' = Cardinality(ScanHolders)
             - One(phase[c], ScanPhases) + One(phase'[c], ScanPhases)
        /\ Cardinality(ScanHolders) \in Nat
    <3>1. ScanHolders' = Inside(phase', ScanPhases) /\ ScanHolders = Inside(phase, ScanPhases)
      BY DEF ScanHolders, Inside
    <3>2. QED
      BY <1>1, <2>1, <3>1, InsideSettles
  <2>4. /\ connPermits \in Int /\ connPermits >= 0
        /\ connPermits + Cardinality(ConnHolders) = MaxConns
        /\ scanPermits \in Int /\ scanPermits >= 0
        /\ scanPermits + Cardinality(ScanHolders) = MaxScans
        /\ MaxConns \in Nat /\ MaxScans \in Nat
    BY <1>1, <2>1, ServiceAssumption DEF TypeOK, SlotsConserved
  <2>5. /\ connPermits' >= 0 /\ connPermits' + Cardinality(ConnHolders)' = MaxConns
        /\ scanPermits' >= 0 /\ scanPermits' + Cardinality(ScanHolders)' = MaxScans
    BY <2>1, <2>2, <2>3, <2>4 DEF Settles, One
  <2>6. QED
    BY <2>5 DEF SlotsConserved
<1>2. ASSUME TypeOK, Restart PROVE SlotsConserved'
  <2>1. phase' = [c \in Conns |-> "idle"] /\ connPermits' = MaxConns /\ scanPermits' = MaxScans
    BY <1>2 DEF Restart, TypeOK, ConnHolders
  <2>2. Cardinality(ConnHolders)' = 0 /\ Cardinality(ScanHolders)' = 0
    BY <2>1, NobodyInside DEF ConnHolders, ScanHolders
  <2>3. QED
    BY <2>1, <2>2, ServiceAssumption DEF SlotsConserved
<1>3. ASSUME NEW c \in Conns, Vanish(c) PROVE SlotsConserved'
  BY <1>3 DEF Vanish, SlotsConserved
<1>4. ASSUME ServerDies PROVE SlotsConserved'
  BY <1>4 DEF ServerDies, SlotsConserved
<1>5. ASSUME SlotsConserved, OrphanExits \/ UNCHANGED vars PROVE SlotsConserved'
  BY <1>5 DEF OrphanExits, SlotsConserved, ConnHolders, ScanHolders
<1>6. ASSUME ~up' PROVE SlotsConserved'
  BY <1>6 DEF SlotsConserved
<1>7. QED
  BY <1>1, <1>2, <1>3, <1>4, <1>5, <1>6 DEF Next, ConnStep

(* Every slot that is taken is returned exactly once, on every path, for   *)
(* any number of connections and slots.                                    *)
THEOREM SlotsAreConserved == Spec => []SlotsConserved
BY InitType, TypeStep, SlotsInit, SlotsStep, PTL DEF Spec

-----------------------------------------------------------------------------
(* What a handler leaves behind.                                           *)

(* What of the job of c is left, by where its handler is: nothing before   *)
(* it is admitted, no copy after the finally of handle_analyze unless it   *)
(* could not be unlinked, no spool after the except of do_POST, and a      *)
(* scanner only while subprocess.run waits for it.                         *)
Tidied(c) ==
  /\ phase[c] \in {"idle", "accepted", "head"} => job[c] = NoJob
  /\ phase[c] \in {"except", "release", "closing"} /\ job[c].copy # 0 => pending[c] = "unlink"
  /\ phase[c] \in {"release", "closing"} => job[c].spool = 0
  /\ phase[c] # "scan" => job[c].child # "running"

AllTidied == \A c \in Conns : Tidied(c)

(* A step of c changes nothing of another handler. *)
OthersKept(c) ==
  \A d \in Conns \ {c} : job'[d] = job[d] /\ phase'[d] = phase[d] /\ pending'[d] = pending[d]

LEMMA ConnStepTidy ==
  ASSUME TypeOK, AllTidied, NEW c \in Conns, ConnStep(c)
  PROVE  OthersKept(c) /\ Tidied(c)'
<1>p. /\ phase \in [Conns -> Phases] /\ job \in [Conns -> Jobs] /\ pending \in [Conns -> Leavings]
      /\ job[c] \in Jobs
  BY DEF TypeOK
<1>k. Tidied(c)
  BY DEF AllTidied
<1>n. NoJob.spool = 0 /\ NoJob.copy = 0 /\ NoJob.child # "running"
  BY DEF NoJob
<1>1. CASE Accept(c) \/ StartFails(c) \/ Overloaded(c) \/ StartThread(c)
  BY <1>1, <1>p, <1>k, <1>n
     DEF Accept, StartFails, Overloaded, StartThread, Goto, OthersKept, Tidied
<1>2. CASE Answer(c) \/ RefuseScan(c) \/ HeadFails(c)
  BY <1>2, <1>p, <1>k, <1>n DEF Answer, RefuseScan, HeadFails, Goto, OthersKept, Tidied
<1>3. CASE ReleaseConn(c)
  BY <1>3, <1>p, <1>n DEF ReleaseConn, Forget, Goto, OthersKept, Tidied
<1>4. CASE ReleaseScan(c)
  BY <1>4, <1>p, <1>k DEF ReleaseScan, Goto, OthersKept, Tidied
<1>5. CASE StartUpload(c) \/ UploadEnds(c) \/ ClientFallsSilent(c) \/ ClientResets(c)
           \/ UploadTimeout(c) \/ WorkFails(c)
  BY <1>5, <1>p, <1>k
     DEF StartUpload, UploadEnds, ClientFallsSilent, ClientResets, UploadTimeout, WorkFails,
         Goto, OthersKept, Tidied
<1>6. CASE \/ RejectRequest(c) \/ RejectForm(c) \/ RejectSize(c) \/ RejectFile(c)
           \/ NoEngine(c) \/ ScanEnds(c)
  <2>1. /\ UNCHANGED job
        /\ \E from : Goto(c, from, "cleanup")
        /\ \E status : SendJson(c, status)
        /\ job[c].child # "running"
    BY <1>6, <1>k
       DEF RejectRequest, RejectForm, RejectSize, RejectFile, NoEngine, ScanEnds, Goto, Tidied
  <2>2. QED
    BY <2>1, <1>p DEF SendJson, Goto, OthersKept, Tidied
<1>7. CASE AdmitScan(c)
  <2>1. PICK length : job' = [job EXCEPT ![c].request = length]
    BY <1>7 DEF AdmitScan
  <2>2. phase[c] = "head" /\ phase' = [phase EXCEPT ![c] = "admitted"] /\ pending' = pending
    BY <1>7 DEF AdmitScan, Goto
  <2>3. job'[c].child = job[c].child /\ \A d \in Conns \ {c} : job'[d] = job[d]
    BY <2>1, <1>p DEF Jobs
  <2>4. QED
    BY <2>2, <2>3, <1>p, <1>k DEF OthersKept, Tidied
<1>8. CASE ReceiveChunk(c) \/ CopyChunk(c)
  <2>1. PICK j : /\ j = [job[c] EXCEPT !.spool = @ + 1] \/ j = [job[c] EXCEPT !.copy = @ + 1]
                 /\ SetJob(c, j)
    BY <1>8 DEF ReceiveChunk, CopyChunk
  <2>2. job'[c] = j /\ j.child = job[c].child /\ \A d \in Conns \ {c} : job'[d] = job[d]
    BY <2>1, <1>p DEF SetJob, Jobs
  <2>3. UNCHANGED <<phase, pending>> /\ phase[c] \in {"upload", "copy"}
    BY <1>8 DEF ReceiveChunk, CopyChunk
  <2>4. QED
    BY <2>2, <2>3, <1>k DEF OthersKept, Tidied
<1>9. CASE StartScanner(c) \/ ScannerExits(c)
  <2>1. PICK child : job' = [job EXCEPT ![c].child = child]
    BY <1>9 DEF StartScanner, ScannerExits
  <2>2. UNCHANGED pending /\ phase'[c] = "scan" /\ \A d \in Conns \ {c} : phase'[d] = phase[d]
    BY <1>9, <1>p, <1>k DEF StartScanner, ScannerExits, Goto, Tidied
  <2>3. \A d \in Conns \ {c} : job'[d] = job[d]
    BY <2>1, <1>p
  <2>4. QED
    BY <2>2, <2>3 DEF OthersKept, Tidied
<1>10. CASE ScanTimeout(c)
  <2>1. /\ job' = [job EXCEPT ![c].child = AfterKill(c)]
        /\ Goto(c, "scan", "cleanup") /\ SendJson(c, "failure")
    BY <1>10 DEF ScanTimeout
  <2>2. AfterKill(c) # "running"
    BY DEF AfterKill
  <2>3. job'[c].child # "running" /\ \A d \in Conns \ {c} : job'[d] = job[d]
    BY <2>1, <2>2, <1>p DEF Jobs
  <2>4. QED
    BY <2>1, <2>3, <1>p DEF SendJson, Goto, OthersKept, Tidied
<1>11. CASE Cleanup(c)
  <2> DEFINE j == [job[c] EXCEPT !.spool = Spooled(c), !.copy = 0]
  <2>1. Goto(c, "cleanup", AfterFinally(c)) /\ SetJob(c, j) /\ UNCHANGED pending
    BY <1>11 DEF Cleanup
  <2>2. /\ j.copy = 0 /\ j.child = job[c].child
        /\ AfterFinally(c) \in {"release", "except"}
        /\ AfterFinally(c) = "release" => j.spool = 0
    BY <1>p DEF Jobs, AfterFinally, Spooled
  <2> HIDE DEF j
  <2>3. job'[c] = j /\ \A d \in Conns \ {c} : job'[d] = job[d]
    BY <2>1, <1>p DEF SetJob
  <2>4. phase'[c] = AfterFinally(c) /\ phase[c] = "cleanup"
        /\ \A d \in Conns \ {c} : phase'[d] = phase[d]
    BY <2>1, <1>p DEF Goto
  <2>5. QED
    BY <2>1, <2>2, <2>3, <2>4, <1>k DEF OthersKept, Tidied
<1>12. CASE UnlinkFails(c)
  <2>1. /\ job' = job /\ phase[c] = "cleanup" /\ phase' = [phase EXCEPT ![c] = "except"]
        /\ pending' = [pending EXCEPT ![c] = "unlink"]
    BY <1>12 DEF UnlinkFails, Goto
  <2>2. QED
    BY <2>1, <1>p, <1>k DEF OthersKept, Tidied
<1>13. CASE HandleException(c)
  <2> DEFINE j == [job[c] EXCEPT !.spool = 0]
  <2>1. Goto(c, "except", "release") /\ SetJob(c, j) /\ UNCHANGED pending
    BY <1>13 DEF HandleException
  <2>2. j.copy = job[c].copy /\ j.child = job[c].child /\ j.spool = 0
    BY <1>p DEF Jobs
  <2> HIDE DEF j
  <2>3. job'[c] = j /\ \A d \in Conns \ {c} : job'[d] = job[d]
    BY <2>1, <1>p DEF SetJob
  <2>4. phase'[c] = "release" /\ phase[c] = "except" /\ \A d \in Conns \ {c} : phase'[d] = phase[d]
    BY <2>1, <1>p DEF Goto
  <2>5. QED
    BY <2>1, <2>2, <2>3, <2>4, <1>k DEF OthersKept, Tidied
<1>14. QED
  BY <1>1, <1>2, <1>3, <1>4, <1>5, <1>6, <1>7, <1>8, <1>9, <1>10, <1>11, <1>12, <1>13
     DEF ConnStep, Hear, Serve, Fail

LEMMA TidyStep == TypeOK /\ AllTidied /\ [Next]_vars => AllTidied'
<1>1. ASSUME TypeOK, AllTidied, NEW c \in Conns, ConnStep(c) PROVE AllTidied'
  <2>1. OthersKept(c) /\ Tidied(c)'
    BY <1>1, ConnStepTidy
  <2>2. QED
    BY <1>1, <2>1 DEF OthersKept, Tidied, AllTidied
<1>2. ASSUME TypeOK, AllTidied, NEW c \in Conns, Vanish(c) PROVE AllTidied'
  BY <1>2 DEF TypeOK, Vanish, Forget, NoJob, Tidied, AllTidied
<1>3. ASSUME AllTidied, ServerDies \/ Restart \/ OrphanExits \/ UNCHANGED vars PROVE AllTidied'
  BY <1>3 DEF ServerDies, Restart, OrphanExits, Tidied, AllTidied
<1>4. QED
  BY <1>1, <1>2, <1>3 DEF Next, ConnStep

LEMMA TidyInit == Init => AllTidied
BY DEF Init, NoJob, Tidied, AllTidied

LEMMA TidyFollows == TypeOK /\ AllTidied => NothingOutlivesTheSlot
<1> SUFFICES ASSUME TypeOK, AllTidied, NEW c \in Conns, phase[c] \notin ScanPhases \ {"release"}
             PROVE  /\ job[c].spool = 0 /\ job[c].child # "running"
                    /\ job[c].copy # 0 => pending[c] = "unlink"
  BY DEF NothingOutlivesTheSlot
<1>1. phase[c] \in {"idle", "accepted", "head", "release", "closing"}
  BY DEF TypeOK, Phases, ScanPhases
<1>2. QED
  BY <1>1 DEF NoJob, Tidied, AllTidied

(* A scan slot is never returned while the spool or the scanner of its     *)
(* request is left, nor a copy that could be unlinked, whatever failed or  *)
(* timed out on the way.                                                   *)
THEOREM SlotsAreReturnedClean == Spec => []NothingOutlivesTheSlot
BY InitType, TypeStep, TidyInit, TidyStep, TidyFollows, PTL DEF Spec

-----------------------------------------------------------------------------
(* The disk: what the handlers may still write.                            *)

(* What the files of a job have within the length that was declared. *)
Within(n, length) == n - Over(n, length)
OnDisk(j) == Within(j.spool, j.request) + Within(j.copy, j.request)

(* What uploads use of the disk but for what exceeds its declared length. *)
Used == uploadBytes - excess

LEMMA WithinBounds ==
  ASSUME NEW n \in Nat, NEW length \in Int
  PROVE  /\ Within(n, length) \in Nat /\ Within(n, length) <= n
         /\ length >= 1 => /\ Within(n, length) <= length
                           /\ n < length => /\ Within(n, length) < length
                                            /\ Within(n + 1, length) = Within(n, length) + 1
                           /\ n >= length => Within(n + 1, length) = Within(n, length)
BY DEF Within, Over

LEMMA OnDiskBounds ==
  ASSUME NEW j \in Jobs
  PROVE  /\ j.spool \in Nat /\ j.copy \in Nat /\ j.request \in Int
         /\ Within(j.spool, j.request) \in Nat /\ Within(j.copy, j.request) \in Nat
         /\ OnDisk(j) \in Nat /\ OnDisk(j) = j.spool + j.copy - Beyond(j)
         /\ Beyond(j) \in Nat
         /\ j.request >= 1 => OnDisk(j) <= 2 * j.request
<1>1. j.spool \in Nat /\ j.copy \in Nat /\ j.request \in Int
  BY ServiceAssumption DEF Jobs, Lengths, BadHeader
<1>2. /\ Over(j.spool, j.request) \in Nat /\ Over(j.copy, j.request) \in Nat
  BY <1>1, OverType
<1>3. OnDisk(j) = j.spool + j.copy - Beyond(j)
  BY <1>1, <1>2 DEF OnDisk, Within, Beyond
<1>4. /\ Within(j.spool, j.request) \in Nat /\ Within(j.copy, j.request) \in Nat
      /\ j.request >= 1 => /\ Within(j.spool, j.request) <= j.request
                           /\ Within(j.copy, j.request) <= j.request
  BY <1>1, WithinBounds
<1>5. OnDisk(j) \in Nat /\ (j.request >= 1 => OnDisk(j) <= 2 * j.request)
  BY <1>1, <1>4 DEF OnDisk
<1>6. QED
  BY <1>1, <1>3, <1>4, <1>5, BeyondType

LEMMA UsedType == TypeOK => Used \in Int
BY DEF TypeOK, Used

LEMMA SetJobUses ==
  ASSUME TypeOK, NEW c \in Conns, NEW j \in Jobs, SetJob(c, j)
  PROVE  /\ job'[c] = j
         /\ Used' = Used + OnDisk(j) - OnDisk(job[c])
<1>1. job \in [Conns -> Jobs] /\ job[c] \in Jobs /\ uploadBytes \in Int /\ excess \in Int
  BY DEF TypeOK
<1>2. /\ j.spool \in Nat /\ j.copy \in Nat /\ Beyond(j) \in Nat
      /\ OnDisk(j) = j.spool + j.copy - Beyond(j)
  BY OnDiskBounds
<1>3. /\ job[c].spool \in Nat /\ job[c].copy \in Nat /\ Beyond(job[c]) \in Nat
      /\ OnDisk(job[c]) = job[c].spool + job[c].copy - Beyond(job[c])
  BY <1>1, OnDiskBounds
<1>4. /\ uploadBytes' = uploadBytes + (j.spool + j.copy) - (job[c].spool + job[c].copy)
      /\ excess' = excess + Beyond(j) - Beyond(job[c])
  BY DEF SetJob
<1>5. Used' = Used + OnDisk(j) - OnDisk(job[c])
  BY <1>1, <1>2, <1>3, <1>4 DEF Used
<1>6. QED
  BY <1>1, <1>5 DEF SetJob

(* Files that are taken off the disk free it. *)
LEMMA FewerFiles ==
  ASSUME TypeOK, NEW c \in Conns, NEW j \in Jobs, SetJob(c, j), j.request = job[c].request,
         j.spool \in {0, job[c].spool}, j.copy \in {0, job[c].copy}
  PROVE  Used' <= Used /\ job'[c].copy \in {0, job[c].copy}
<1>1. job[c] \in Jobs /\ Used \in Int
  BY UsedType DEF TypeOK
<1>2. /\ Within(job[c].spool, job[c].request) \in Nat /\ Within(job[c].copy, job[c].request) \in Nat
      /\ OnDisk(job[c]) \in Nat /\ job[c].request \in Int
  BY <1>1, OnDiskBounds
<1>3. Within(0, job[c].request) = 0
  BY <1>2 DEF Within, Over
<1>4. /\ Within(j.spool, j.request) \in {0, Within(job[c].spool, job[c].request)}
      /\ Within(j.copy, j.request) \in {0, Within(job[c].copy, job[c].request)}
  BY <1>3
<1>5. OnDisk(j) <= OnDisk(job[c]) /\ OnDisk(j) \in Nat
  BY <1>2, <1>4 DEF OnDisk
<1>6. job'[c] = j /\ Used' = Used + OnDisk(j) - OnDisk(job[c])
  BY SetJobUses
<1>7. QED
  BY <1>1, <1>2, <1>5, <1>6

LEMMA ForgetUses ==
  ASSUME TypeOK, NEW c \in Conns, Forget(c)
  PROVE  /\ job'[c] = NoJob
         /\ Used' = Used - Within(job[c].spool, job[c].request) /\ Used' <= Used
<1>1. /\ job \in [Conns -> Jobs] /\ job[c] \in Jobs /\ uploadBytes \in Int /\ excess \in Int
  BY DEF TypeOK
<1>2. /\ job[c].spool \in Nat /\ job[c].request \in Int
      /\ Within(job[c].spool, job[c].request) \in Nat
  BY <1>1, OnDiskBounds
<1>3. /\ uploadBytes' = uploadBytes - job[c].spool
      /\ excess' = excess - Over(job[c].spool, job[c].request) /\ job'[c] = NoJob
  BY <1>1 DEF Forget
<1>4. Over(job[c].spool, job[c].request) \in Nat
  BY <1>2, OverType
<1>5. QED
  BY <1>1, <1>2, <1>3, <1>4 DEF Used, Within

-----------------------------------------------------------------------------
(* The excess covers what forms have beyond their declared length.         *)

(* One element for every unit of f. *)
Column(f, c) == {c} \X (1 .. f[c])
Pile(f) == UNION {Column(f, c) : c \in Conns}

LEMMA ColumnIsFinite ==
  ASSUME NEW f \in [Conns -> Nat], NEW c \in Conns
  PROVE  IsFiniteSet(Column(f, c)) /\ Cardinality(Column(f, c)) = f[c]
<1> DEFINE n == f[c]
<1>1. n \in Nat
  OBVIOUS
<1> HIDE DEF n
<1>2. IsFiniteSet(1 .. n) /\ Cardinality(1 .. n) = n
  BY <1>1, FS_Interval
<1>3. IsFiniteSet({c}) /\ Cardinality({c}) = 1
  BY FS_Singleton
<1>4. IsFiniteSet({c} \X (1 .. n)) /\ Cardinality({c} \X (1 .. n)) = Cardinality({c}) * Cardinality(1 .. n)
  BY <1>2, <1>3, FS_Product
<1>5. Cardinality({c} \X (1 .. n)) = n
  BY <1>1, <1>2, <1>3, <1>4
<1>6. QED
  BY <1>4, <1>5 DEF Column, n

LEMMA PileIsFinite ==
  ASSUME NEW f \in [Conns -> Nat]
  PROVE  IsFiniteSet(Pile(f)) /\ Cardinality(Pile(f)) \in Nat
<1> DEFINE Columns == {Column(f, c) : c \in Conns}
           g == [c \in Conns |-> Column(f, c)]
<1>1. g \in Surjection(Conns, Columns)
  BY DEF Surjection
<1>2. IsFiniteSet(Columns)
  BY <1>1, ServiceAssumption, FS_Surjection
<1>3. \A T \in Columns : IsFiniteSet(T)
  BY ColumnIsFinite
<1> HIDE DEF Columns
<1>4. IsFiniteSet(UNION Columns)
  BY <1>2, <1>3, FS_UNION
<1>5. QED
  BY <1>4, FS_CardinalityType DEF Pile, Columns

(* One column changes. *)
LEMMA PileChanges ==
  ASSUME NEW f \in [Conns -> Nat], NEW c \in Conns, NEW n \in Nat
  PROVE  Cardinality(Pile([f EXCEPT ![c] = n])) = Cardinality(Pile(f)) - f[c] + n
<1> DEFINE g == [f EXCEPT ![c] = n]
           Rest == UNION {Column(f, d) : d \in Conns \ {c}}
<1>1. g \in [Conns -> Nat] /\ g[c] = n /\ f[c] \in Nat
  OBVIOUS
<1>2. Pile(f) = Rest \cup Column(f, c) /\ Pile(g) = Rest \cup Column(g, c)
  BY DEF Pile, Column
<1>3. Rest \cap Column(f, c) = {} /\ Rest \cap Column(g, c) = {}
  BY DEF Column
<1>4. IsFiniteSet(Rest) /\ Cardinality(Rest) \in Nat
  <2>1. Rest \in SUBSET Pile(f)
    BY <1>2
  <2>2. IsFiniteSet(Rest)
    BY <2>1, PileIsFinite, FS_Subset
  <2>3. QED
    BY <2>2, FS_CardinalityType
<1>5. /\ IsFiniteSet(Column(f, c)) /\ Cardinality(Column(f, c)) = f[c]
      /\ IsFiniteSet(Column(g, c)) /\ Cardinality(Column(g, c)) = n
  BY <1>1, ColumnIsFinite
<1> HIDE DEF Rest, g
<1>6. Cardinality(Rest \cup Column(f, c)) = Cardinality(Rest) + f[c] - Cardinality({})
  BY <1>3, <1>4, <1>5, FS_Union
<1>7. Cardinality(Rest \cup Column(g, c)) = Cardinality(Rest) + n - Cardinality({})
  BY <1>3, <1>4, <1>5, FS_Union
<1>8. Cardinality(Pile(g)) = Cardinality(Pile(f)) - f[c] + n
  BY <1>1, <1>2, <1>4, <1>6, <1>7, FS_EmptySet
<1>9. QED
  BY <1>8 DEF g

Beyonds == [d \in Conns |-> Beyond(job[d])]
ExcessFits == Cardinality(Pile(Beyonds)) <= excess

LEMMA BeyondsType == TypeOK => Beyonds \in [Conns -> Nat]
BY BeyondType DEF TypeOK, Beyonds

LEMMA ExcessIsPositive == TypeOK /\ ExcessFits => excess >= 0
<1> SUFFICES ASSUME TypeOK, ExcessFits PROVE excess >= 0
  OBVIOUS
<1> DEFINE n == Cardinality(Pile(Beyonds))
<1>1. n \in Nat /\ n <= excess /\ excess \in Int
  BY BeyondsType, PileIsFinite DEF TypeOK, ExcessFits
<1> HIDE DEF n
<1>2. QED
  BY <1>1

(* The excess follows what the files of c have beyond their length, or     *)
(* more: what a copy has that is left behind stays in it.                  *)
Follows(c) ==
  /\ \A d \in Conns \ {c} : job'[d] = job[d]
  /\ excess' - excess >= Beyond(job'[c]) - Beyond(job[c])

LEMMA ForgetFollows ==
  ASSUME TypeOK, NEW c \in Conns, Forget(c)
  PROVE  Follows(c)
<1>1. job \in [Conns -> Jobs] /\ job[c] \in Jobs /\ excess \in Int
  BY DEF TypeOK
<1>2. job[c].spool \in Nat /\ job[c].copy \in Nat /\ job[c].request \in Int
  BY <1>1, OnDiskBounds
<1>3. Over(job[c].spool, job[c].request) \in Nat /\ Over(job[c].copy, job[c].request) \in Nat
  BY <1>2, OverType
<1>4. job' = [job EXCEPT ![c] = NoJob] /\ excess' = excess - Over(job[c].spool, job[c].request)
  BY DEF Forget
<1>5. Beyond(NoJob) = 0
  BY DEF Beyond, Over, NoJob
<1>6. job'[c] = NoJob /\ \A d \in Conns \ {c} : job'[d] = job[d]
  BY <1>1, <1>4
<1>7. Beyond(job'[c]) - Beyond(job[c])
        = 0 - (Over(job[c].spool, job[c].request) + Over(job[c].copy, job[c].request))
  BY <1>5, <1>6 DEF Beyond
<1>8. QED
  BY <1>1, <1>3, <1>4, <1>6, <1>7 DEF Follows

LEMMA ConnStepFollows ==
  ASSUME TypeOK, AllTidied, NEW c \in Conns, ConnStep(c)
  PROVE  Follows(c)
<1>p. job \in [Conns -> Jobs] /\ job[c] \in Jobs /\ excess \in Int /\ Beyond(job[c]) \in Int
  BY BeyondType DEF TypeOK
<1>o. \A d \in Conns \ {c} : job'[d] = job[d]
  BY ConnStepTidy DEF OthersKept
<1>b. job'[c] \in Jobs /\ Beyond(job'[c]) \in Int
  BY ConnStepType, BeyondType DEF TypeOK
<1>s. ASSUME Beyond(job'[c]) = Beyond(job[c]), excess' = excess PROVE Follows(c)
  BY <1>s, <1>p, <1>o DEF Follows
<1>1. CASE ReceiveChunk(c) \/ CopyChunk(c) \/ Cleanup(c) \/ HandleException(c)
  <2>1. PICK j : SetJob(c, j)
    BY <1>1 DEF ReceiveChunk, CopyChunk, Cleanup, HandleException
  <2>2. job'[c] = j /\ excess' = excess + Beyond(j) - Beyond(job[c])
    BY <2>1, <1>p DEF SetJob
  <2>3. QED
    BY <2>2, <1>p, <1>b, <1>o DEF Follows
<1>2. CASE ReleaseConn(c)
  BY <1>2, ForgetFollows DEF ReleaseConn
<1>3. CASE AdmitScan(c)
  <2>1. PICK length \in Lengths : job' = [job EXCEPT ![c].request = length]
    BY <1>3 DEF AdmitScan
  <2>2. job[c] = NoJob /\ excess' = excess
    BY <1>3 DEF AdmitScan, Goto, AllTidied, Tidied
  <2>3. job'[c].spool = 0 /\ job'[c].copy = 0 /\ job[c].spool = 0 /\ job[c].copy = 0
    BY <2>1, <2>2, <1>p DEF NoJob
  <2>4. \A length1 : Over(0, length1) = 0
    BY DEF Over
  <2>5. Beyond(job'[c]) = Beyond(job[c])
    BY <2>3, <2>4 DEF Beyond
  <2>6. QED
    BY <2>2, <2>5, <1>s
<1>4. CASE StartScanner(c) \/ ScannerExits(c) \/ ScanTimeout(c)
  <2>1. PICK child : job' = [job EXCEPT ![c].child = child]
    BY <1>4 DEF StartScanner, ScannerExits, ScanTimeout
  <2>2. /\ job'[c].spool = job[c].spool /\ job'[c].copy = job[c].copy
        /\ job'[c].request = job[c].request
    BY <2>1, <1>p DEF Jobs
  <2>3. excess' = excess
    BY <1>4 DEF StartScanner, ScannerExits, ScanTimeout
  <2>4. QED
    BY <2>2, <2>3, <1>s DEF Beyond
<1>5. CASE UNCHANGED <<job, excess>>
  BY <1>5, <1>s
<1>6. CASE \/ Accept(c) \/ Overloaded(c) \/ Answer(c) \/ RefuseScan(c) \/ RejectForm(c)
           \/ StartThread(c) \/ HeadFails(c) \/ RejectRequest(c) \/ StartUpload(c)
           \/ UploadEnds(c) \/ ClientFallsSilent(c) \/ ClientResets(c) \/ UploadTimeout(c)
  BY <1>6, <1>5
     DEF Accept, Overloaded, Answer, RefuseScan, RejectForm, StartThread, HeadFails,
         RejectRequest, StartUpload, UploadEnds, ClientFallsSilent, ClientResets, UploadTimeout
<1>7. CASE \/ RejectSize(c) \/ RejectFile(c) \/ WorkFails(c) \/ NoEngine(c) \/ ScanEnds(c)
           \/ ReleaseScan(c) \/ StartFails(c) \/ UnlinkFails(c)
  BY <1>7, <1>5
     DEF RejectSize, RejectFile, WorkFails, NoEngine, ScanEnds, ReleaseScan, StartFails, UnlinkFails
<1>8. QED
  BY <1>1, <1>2, <1>3, <1>4, <1>6, <1>7 DEF ConnStep, Hear, Serve, Fail

LEMMA FollowsFits ==
  ASSUME TypeOK, TypeOK', ExcessFits, NEW c \in Conns, Follows(c)
  PROVE  ExcessFits'
<1> DEFINE f == Beyonds  n == Beyond(job'[c])
<1>1. f \in [Conns -> Nat] /\ n \in Nat /\ f[c] = Beyond(job[c]) /\ f[c] \in Nat
  BY BeyondsType, BeyondType DEF TypeOK, Beyonds
<1>2. Beyonds' = [f EXCEPT ![c] = n]
  BY DEF Beyonds, Follows
<1>3. excess' - excess >= n - f[c] /\ excess \in Int /\ excess' \in Int
  BY <1>1 DEF Follows, TypeOK
<1>4. Cardinality(Pile(f)) \in Nat /\ Cardinality(Pile(f)) <= excess
  BY <1>1, PileIsFinite DEF ExcessFits
<1> HIDE DEF f, n
<1>5. Cardinality(Pile([f EXCEPT ![c] = n])) = Cardinality(Pile(f)) - f[c] + n
  BY <1>1, PileChanges
<1> DEFINE old == Cardinality(Pile(f))  new == Cardinality(Pile([f EXCEPT ![c] = n]))  k == f[c]
           before == excess  after == excess'
<1>6. /\ old \in Nat /\ old <= before /\ new = old - k + n /\ after - before >= n - k
      /\ before \in Int /\ after \in Int /\ k \in Nat /\ n \in Nat
  BY <1>1, <1>3, <1>4, <1>5
<1> HIDE DEF old, new, k, before, after
<1>7. new <= after
  BY <1>6
<1>8. QED
  BY <1>2, <1>7 DEF new, after, ExcessFits

LEMMA ExcessStep == TypeOK /\ AllTidied /\ ExcessFits /\ [Next]_vars => ExcessFits'
<1> SUFFICES ASSUME TypeOK, AllTidied, ExcessFits, [Next]_vars PROVE ExcessFits'
  OBVIOUS
<1>t. TypeOK'
  BY TypeStep
<1>1. ASSUME NEW c \in Conns, ConnStep(c) PROVE ExcessFits'
  BY <1>1, <1>t, ConnStepFollows, FollowsFits
<1>2. ASSUME NEW c \in Conns, Vanish(c) PROVE ExcessFits'
  BY <1>2, <1>t, ForgetFollows, FollowsFits DEF Vanish
<1>3. CASE ServerDies \/ Restart \/ OrphanExits \/ UNCHANGED vars
  BY <1>3 DEF ServerDies, Restart, OrphanExits, ExcessFits, Beyonds
<1>4. QED
  BY <1>1, <1>2, <1>3 DEF Next, ConnStep

LEMMA ExcessInit == Init => ExcessFits
<1> SUFFICES ASSUME Init PROVE ExcessFits
  OBVIOUS
<1>1. \A c \in Conns : Beyonds[c] = 0
  BY DEF Init, NoJob, Beyonds, Beyond, Over
<1>2. Pile(Beyonds) = {}
  BY <1>1 DEF Pile, Column
<1>3. QED
  BY <1>2, FS_EmptySet DEF Init, ExcessFits

-----------------------------------------------------------------------------
(* What the handlers may still write.                                      *)

(* The files of c fit the size limit and the phase. *)
JobFits(c) ==
  /\ job[c].copy <= MaxUpload
  /\ phase[c] = "admitted" => job[c].spool = 0 /\ job[c].copy = 0
  /\ phase[c] \in {"upload", "copy"} => job[c].request \in 1 .. MaxUpload

JobsFit == \A c \in Conns : JobFits(c)

(* The chunks that the handler of c was granted and has not written. *)
Owes(c) ==
  IF phase[c] \in {"upload", "copy"} THEN 2 * job[c].request - OnDisk(job[c]) ELSE 0

Chunks == Conns \X (1 .. 2 * MaxUpload)
Owed == {o \in Chunks : o[2] <= Owes(o[1])}

(* What is written and what is owed reach into the reserve by at most two  *)
(* uploads for every other slot.                                           *)
OwedFits ==
  Used + Cardinality(Owed) <= DiskSize - Reserve + 2 * MaxUpload * (MaxScans - 1)

(* The steps after which c writes no more. *)
Rests(c) ==
  \/ Accept(c) \/ Answer(c) \/ RefuseScan(c) \/ RejectForm(c) \/ StartThread(c)
  \/ ReleaseConn(c) \/ HeadFails(c) \/ RejectRequest(c) \/ ClientFallsSilent(c)
  \/ ClientResets(c) \/ UploadTimeout(c) \/ RejectSize(c) \/ RejectFile(c) \/ WorkFails(c)
  \/ NoEngine(c) \/ StartScanner(c) \/ ScanTimeout(c) \/ ScanEnds(c)
  \/ Cleanup(c) \/ HandleException(c) \/ ReleaseScan(c) \/ StartFails(c) \/ UnlinkFails(c)

(* They leave at least as much free, and the copy as it is or off the disk. *)
LEMMA RestsWritesNothing ==
  ASSUME TypeOK, NEW c \in Conns, Rests(c)
  PROVE  /\ phase'[c] \notin {"admitted", "upload", "copy"}
         /\ job'[c].copy \in {0, job[c].copy}
         /\ Used' <= Used
<1>p. phase \in [Conns -> Phases] /\ job \in [Conns -> Jobs] /\ job[c] \in Jobs
  BY DEF TypeOK
<1>t. uploadBytes \in Int /\ excess \in Int /\ Used \in Int
  BY UsedType DEF TypeOK
<1>u. ASSUME UNCHANGED <<uploadBytes, excess>> PROVE Used' <= Used
  BY <1>u, <1>t DEF Used
<1>1. CASE \/ Accept(c) \/ Answer(c) \/ RefuseScan(c) \/ RejectForm(c) \/ StartThread(c)
           \/ HeadFails(c) \/ RejectRequest(c)
  BY <1>1, <1>p, <1>u
     DEF Accept, Answer, RefuseScan, RejectForm, StartThread, HeadFails, RejectRequest, Goto
<1>2. CASE \/ ClientFallsSilent(c) \/ ClientResets(c) \/ UploadTimeout(c) \/ RejectSize(c)
           \/ RejectFile(c) \/ WorkFails(c)
  BY <1>2, <1>p, <1>u
     DEF ClientFallsSilent, ClientResets, UploadTimeout, RejectSize, RejectFile, WorkFails, Goto
<1>3. CASE NoEngine(c) \/ ScanEnds(c) \/ ReleaseScan(c) \/ StartFails(c) \/ UnlinkFails(c)
  BY <1>3, <1>p, <1>u DEF NoEngine, ScanEnds, ReleaseScan, StartFails, UnlinkFails, Goto
<1>4. CASE StartScanner(c) \/ ScanTimeout(c)
  <2>1. phase'[c] \in {"scan", "cleanup"} /\ UNCHANGED <<uploadBytes, excess>>
    BY <1>4, <1>p DEF StartScanner, ScanTimeout, Goto
  <2>2. \E child : job' = [job EXCEPT ![c].child = child]
    BY <1>4 DEF StartScanner, ScanTimeout
  <2>3. job'[c].copy = job[c].copy
    BY <2>2, <1>p DEF Jobs
  <2>4. QED
    BY <2>1, <2>3, <1>u
<1>5. CASE Cleanup(c) \/ HandleException(c)
  <2>1. phase'[c] \in {"release", "except"}
    BY <1>5, <1>p DEF Cleanup, HandleException, AfterFinally, Goto
  <2>2. PICK j : /\ \/ j = [job[c] EXCEPT !.spool = Spooled(c), !.copy = 0]
                    \/ j = [job[c] EXCEPT !.spool = 0]
                 /\ SetJob(c, j)
    BY <1>5 DEF Cleanup, HandleException
  <2>3. /\ j \in Jobs /\ j.request = job[c].request
        /\ j.spool \in {0, job[c].spool} /\ j.copy \in {0, job[c].copy}
    <3>1. Spooled(c) \in {0, job[c].spool} /\ Spooled(c) \in Nat
      BY <1>p DEF Spooled, Jobs
    <3>2. CASE j = [job[c] EXCEPT !.spool = Spooled(c), !.copy = 0]
      BY <3>1, <3>2, <1>p DEF Jobs
    <3>3. CASE j = [job[c] EXCEPT !.spool = 0]
      BY <3>3, <1>p DEF Jobs
    <3>4. QED
      BY <2>2, <3>2, <3>3
  <2>4. QED
    BY <2>1, <2>2, <2>3, FewerFiles
<1>6. CASE ReleaseConn(c)
  <2>1. phase'[c] = "idle" /\ Forget(c)
    BY <1>6, <1>p DEF ReleaseConn, Goto
  <2>2. QED
    BY <2>1, ForgetUses DEF NoJob
<1>7. QED
  BY <1>1, <1>2, <1>3, <1>4, <1>5, <1>6 DEF Rests

(* The step of c keeps the files of c within its request. *)
LEMMA OwnFit ==
  ASSUME TypeOK, AllTidied, NEW c \in Conns, ConnStep(c), JobFits(c)
  PROVE  JobFits(c)'
<1> DEFINE J == job[c]
<1>t. /\ MaxUpload \in Nat \ {0} /\ J \in Jobs
      /\ J.spool \in Nat /\ J.copy \in Nat /\ J.request \in Lengths
  BY ServiceAssumption DEF TypeOK, Jobs
<1>p. phase \in [Conns -> Phases] /\ job \in [Conns -> Jobs]
  BY DEF TypeOK
<1>1. CASE ReceiveChunk(c)
  <2>1. phase' = phase /\ phase[c] = "upload" /\ SetJob(c, [J EXCEPT !.spool = @ + 1])
    BY <1>1 DEF ReceiveChunk
  <2>2. job'[c].copy = J.copy /\ job'[c].request = J.request
    BY <2>1, <1>t, <1>p DEF SetJob, Jobs
  <2>3. QED
    BY <2>1, <2>2, <1>t DEF JobFits
<1>2. CASE CopyChunk(c)
  <2>1. /\ phase' = phase /\ phase[c] = "copy" /\ J.copy < MaxUpload
        /\ SetJob(c, [J EXCEPT !.copy = @ + 1])
    BY <1>2 DEF CopyChunk
  <2>2. job'[c].copy = J.copy + 1 /\ job'[c].request = J.request
    BY <2>1, <1>t, <1>p DEF SetJob, Jobs
  <2>3. QED
    BY <2>1, <2>2, <1>t DEF JobFits
<1>3. CASE StartUpload(c)
  <2>1. PICK free \in FreeReadings : RequestStatus(J.request, free) = "ok"
    BY <1>3 DEF StartUpload
  <2>2. phase'[c] = "upload" /\ job' = job
    BY <1>3, <1>p DEF StartUpload, Goto
  <2>3. J.request # -1 /\ J.request # -2 /\ J.request # 0 /\ ~(J.request > MaxUpload)
    BY <2>1 DEF RequestStatus, NoLength, BadHeader
  <2>4. J.request \in 1 .. MaxUpload
    BY <1>t, <2>3 DEF Lengths, BadHeader
  <2>5. QED
    BY <2>2, <2>4, <1>t DEF JobFits
<1>4. CASE AdmitScan(c)
  <2>1. J.spool = 0 /\ J.copy = 0 /\ phase'[c] = "admitted"
    BY <1>4, <1>p DEF AdmitScan, Goto, AllTidied, Tidied, NoJob
  <2>2. PICK length : job' = [job EXCEPT ![c].request = length]
    BY <1>4 DEF AdmitScan
  <2>3. job'[c].spool = 0 /\ job'[c].copy = 0
    BY <2>1, <2>2, <1>p DEF Jobs
  <2>4. QED
    BY <2>1, <2>3, <1>t DEF JobFits
<1>5. CASE UploadEnds(c)
  BY <1>5, <1>p, <1>t DEF UploadEnds, Goto, JobFits
<1>6. CASE ScannerExits(c)
  <2>1. PICK exit : job' = [job EXCEPT ![c].child = exit]
    BY <1>6 DEF ScannerExits
  <2>2. /\ job'[c].spool = J.spool /\ job'[c].copy = J.copy /\ job'[c].request = J.request
        /\ phase' = phase
    BY <1>6, <2>1, <1>p DEF ScannerExits, Jobs
  <2>3. QED
    BY <2>2 DEF JobFits
<1>7. CASE Overloaded(c)
  BY <1>7 DEF Overloaded, JobFits
<1>8. CASE Rests(c)
  BY <1>8, <1>t, RestsWritesNothing DEF JobFits
<1>9. QED
  BY <1>1, <1>2, <1>3, <1>4, <1>5, <1>6, <1>7, <1>8
     DEF ConnStep, Hear, Serve, Fail, Rests

LEMMA JobsFitStep == TypeOK /\ AllTidied /\ JobsFit /\ [Next]_vars => JobsFit'
<1> SUFFICES ASSUME TypeOK, AllTidied, JobsFit, [Next]_vars PROVE JobsFit'
  OBVIOUS
<1>1. ASSUME NEW c \in Conns, ConnStep(c) PROVE JobsFit'
  <2>1. JobFits(c)'
    BY <1>1, OwnFit DEF JobsFit
  <2>2. \A d \in Conns \ {c} : JobFits(d)'
    BY <1>1, ConnStepTidy DEF OthersKept, JobsFit, JobFits
  <2>3. QED
    BY <2>1, <2>2 DEF JobsFit
<1>2. ASSUME NEW c \in Conns, Vanish(c) PROVE JobsFit'
  BY <1>2, ServiceAssumption DEF TypeOK, Vanish, Forget, NoJob, JobsFit, JobFits
<1>3. CASE ServerDies \/ Restart \/ OrphanExits \/ UNCHANGED vars
  BY <1>3 DEF ServerDies, Restart, OrphanExits, JobsFit, JobFits
<1>4. QED
  BY <1>1, <1>2, <1>3 DEF Next, ConnStep

LEMMA TimesMonotone ==
  ASSUME NEW n \in Int, NEW m \in Int, NEW u \in Nat, n <= m
  PROVE  n * u <= u * m
OBVIOUS

(* A chunk more of the spool or the copy is one that was owed, or one      *)
(* beyond the declared length.                                             *)
LEMMA ChunkIsOwed ==
  ASSUME TypeOK, NEW c \in Conns, phase[c] \in {"upload", "copy"}, UNCHANGED phase,
         job[c].request \in 1 .. MaxUpload, NEW j \in Jobs, SetJob(c, j),
         j.request = job[c].request,
         \/ j.spool = job[c].spool + 1 /\ j.copy = job[c].copy
         \/ j.copy = job[c].copy + 1 /\ j.spool = job[c].spool
  PROVE  \/ Used' = Used /\ Owes(c)' = Owes(c)
         \/ Used' = Used + 1 /\ Owes(c) >= 1 /\ Owes(c)' = Owes(c) - 1
<1> DEFINE J == job[c]  R == job[c].request
           S == Within(J.spool, R)  K == Within(J.copy, R)
           s == Within(j.spool, R)  k == Within(j.copy, R)
<1>1. J \in Jobs /\ Used \in Int /\ MaxUpload \in Nat
  BY UsedType, ServiceAssumption DEF TypeOK
<1>2. J.spool \in Nat /\ J.copy \in Nat /\ j.spool \in Nat /\ j.copy \in Nat
  BY <1>1, OnDiskBounds
<1>3. R \in Nat /\ R >= 1
  BY <1>1
<1>4. S \in Nat /\ K \in Nat /\ S <= R /\ K <= R
  BY <1>2, <1>3 DEF Within, Over
<1>5. \/ s = S /\ k = K
      \/ s = S + 1 /\ k = K /\ S < R
      \/ k = K + 1 /\ s = S /\ K < R
  <2>1. \A n \in Nat : \/ Within(n + 1, R) = Within(n, R)
                       \/ Within(n + 1, R) = Within(n, R) + 1 /\ Within(n, R) < R
    BY <1>3 DEF Within, Over
  <2>2. QED
    BY <1>2, <2>1
<1>6. OnDisk(J) = S + K /\ OnDisk(j) = s + k
  BY DEF OnDisk
<1>7. Owes(c) = 2 * R - OnDisk(J) /\ Owes(c)' = 2 * R - OnDisk(j)
      /\ Used' = Used + OnDisk(j) - OnDisk(J)
  <2>1. job'[c] = j /\ Used' = Used + OnDisk(j) - OnDisk(J)
    BY SetJobUses
  <2>2. QED
    BY <2>1 DEF Owes
<1> HIDE DEF J, R, S, K, s, k
<1>8. QED
  BY <1>1, <1>3, <1>4, <1>5, <1>6, <1>7

(* What a step of c does to the free space and to what c is owed: either   *)
(* nothing more is written or owed, or one owed chunk is written, or the   *)
(* free space was looked at.                                               *)
LEMMA StepOwes ==
  ASSUME TypeOK, AllTidied, JobsFit, NEW c \in Conns, ConnStep(c)
  PROVE  /\ \A d \in Conns \ {c} : Owes(d)' = Owes(d)
         /\ \/ Used' <= Used /\ Owes(c)' <= Owes(c)
            \/ Used' = Used + 1 /\ Owes(c) >= 1 /\ Owes(c)' = Owes(c) - 1
            \/ StartUpload(c)
<1> DEFINE J == job[c]
<1>t. uploadBytes \in Int /\ excess \in Int /\ Used \in Int /\ J \in Jobs
  BY UsedType DEF TypeOK
<1>n. J.spool \in Nat /\ J.copy \in Nat /\ J.request \in Int /\ OnDisk(J) \in Nat
  BY <1>t, OnDiskBounds
<1>p. phase \in [Conns -> Phases] /\ job \in [Conns -> Jobs]
  BY DEF TypeOK
<1>f. JobFits(c)
  BY DEF JobsFit
<1>o. Owes(c) \in Nat
  <2>1. J.request >= 1 => OnDisk(J) <= 2 * J.request
    BY <1>t, OnDiskBounds
  <2>2. QED
    BY <2>1, <1>f, <1>n DEF JobFits, Owes
<1>d. \A d \in Conns \ {c} : Owes(d)' = Owes(d)
  BY ConnStepTidy DEF OthersKept, Owes
<1>u. ASSUME UNCHANGED <<uploadBytes, excess>>, Owes(c)' <= Owes(c)
      PROVE  Used' <= Used /\ Owes(c)' <= Owes(c)
  BY <1>u, <1>t DEF Used
<1>1. CASE ReceiveChunk(c) \/ CopyChunk(c)
  <2>1. PICK j : /\ SetJob(c, j) /\ UNCHANGED phase /\ phase[c] \in {"upload", "copy"}
                 /\ \/ j = [J EXCEPT !.spool = @ + 1]
                    \/ j = [J EXCEPT !.copy = @ + 1]
    BY <1>1 DEF ReceiveChunk, CopyChunk
  <2>2. /\ j \in Jobs /\ j.request = J.request
        /\ \/ j.spool = J.spool + 1 /\ j.copy = J.copy
           \/ j.copy = J.copy + 1 /\ j.spool = J.spool
    BY <2>1, <1>t, <1>n DEF Jobs
  <2>3. J.request \in 1 .. MaxUpload
    BY <2>1, <1>f DEF JobFits
  <2>4. \/ Used' = Used /\ Owes(c)' = Owes(c)
        \/ Used' = Used + 1 /\ Owes(c) >= 1 /\ Owes(c)' = Owes(c) - 1
    BY <2>1, <2>2, <2>3, ChunkIsOwed
  <2>5. QED
    BY <2>4, <1>t, <1>o, <1>d
<1>2. CASE UploadEnds(c)
  <2>1. Owes(c)' = Owes(c) /\ UNCHANGED <<uploadBytes, excess>>
    BY <1>2, <1>p DEF UploadEnds, Goto, Owes
  <2>2. QED
    BY <2>1, <1>u, <1>o, <1>d
<1>3. CASE AdmitScan(c)
  <2>1. Owes(c)' = 0 /\ UNCHANGED <<uploadBytes, excess>>
    BY <1>3, <1>p DEF AdmitScan, Goto, Owes
  <2>2. QED
    BY <2>1, <1>u, <1>o, <1>d
<1>4. CASE ScannerExits(c)
  <2>1. PICK exit : job' = [job EXCEPT ![c].child = exit]
    BY <1>4 DEF ScannerExits
  <2>2. /\ job'[c].spool = J.spool /\ job'[c].copy = J.copy /\ job'[c].request = J.request
        /\ phase' = phase /\ UNCHANGED <<uploadBytes, excess>>
    BY <1>4, <2>1, <1>p DEF ScannerExits, Jobs
  <2>3. Owes(c)' = Owes(c)
    BY <2>2 DEF Owes, OnDisk
  <2>4. QED
    BY <2>2, <2>3, <1>u, <1>o, <1>d
<1>5. CASE Overloaded(c)
  <2>1. Owes(c)' = Owes(c) /\ UNCHANGED <<uploadBytes, excess>>
    BY <1>5 DEF Overloaded, Owes
  <2>2. QED
    BY <2>1, <1>u, <1>o, <1>d
<1>6. CASE Rests(c)
  <2>1. Owes(c)' = 0 /\ Used' <= Used
    BY <1>6, RestsWritesNothing DEF Owes
  <2>2. QED
    BY <2>1, <1>o, <1>d
<1>7. QED
  BY <1>1, <1>2, <1>3, <1>4, <1>5, <1>6, <1>d DEF ConnStep, Hear, Serve, Fail, Rests

LEMMA ChunksAreFinite ==
  /\ IsFiniteSet(Chunks) /\ IsFiniteSet(Owed) /\ Cardinality(Owed) \in Nat
  /\ Owed' \subseteq Chunks
<1>1. IsFiniteSet(1 .. 2 * MaxUpload) /\ IsFiniteSet(Conns)
  BY ServiceAssumption, FS_Interval
<1>2. IsFiniteSet(Chunks)
  BY <1>1, FS_Product DEF Chunks
<1>3. Owed \in SUBSET Chunks /\ Owed' \in SUBSET Chunks
  BY DEF Owed, Chunks
<1>4. QED
  BY <1>2, <1>3, FS_Subset, FS_CardinalityType

(* Nothing more is written, and nothing more is owed. *)
OwesNoMore ==
  \A d \in Conns : Owes(d) \in Int /\ Owes(d)' \in Int /\ Owes(d)' <= Owes(d)

LEMMA OwesLess ==
  ASSUME TypeOK, TypeOK', OwedFits, Used' <= Used, OwesNoMore
  PROVE  OwedFits'
<1>1. Owed' \in SUBSET Owed
  BY DEF Owed, Chunks, OwesNoMore
<1>2. Cardinality(Owed)' \in Nat /\ Cardinality(Owed)' <= Cardinality(Owed)
  BY <1>1, ChunksAreFinite, FS_Subset, FS_CardinalityType
<1> DEFINE n == Cardinality(Owed)  m == Cardinality(Owed')  before == Used  used == Used'
           most == DiskSize - Reserve + 2 * MaxUpload * (MaxScans - 1)
<1>3. n \in Nat /\ m \in Nat /\ m <= n /\ before + n <= most /\ most \in Int
  BY <1>2, ChunksAreFinite, ServiceAssumption DEF OwedFits
<1>4. before \in Int /\ used \in Int /\ used <= before
  <2>1. Used \in Int /\ Used' \in Int
    BY DEF TypeOK, Used
  <2>2. QED
    BY <2>1
<1> HIDE DEF n, m, most, used, before
<1>5. used + m <= most
  BY <1>3, <1>4
<1>6. QED
  BY <1>5 DEF m, most, used, OwedFits

(* One of the chunks owed to c is written. *)
LEMMA OwedIsWritten ==
  ASSUME TypeOK, OwedFits, NEW c \in Conns,
         Used' = Used + 1,
         Owes(c) \in 1 .. 2 * MaxUpload, Owes(c)' = Owes(c) - 1,
         \A d \in Conns \ {c} : Owes(d)' = Owes(d)
  PROVE  OwedFits'
<1>1. Owed' = Owed \ {<<c, Owes(c)>>} /\ <<c, Owes(c)>> \in Owed
  BY DEF Owed, Chunks
<1>2. Cardinality(Owed') = Cardinality(Owed) - 1
  BY <1>1, ChunksAreFinite, FS_RemoveElement
<1> DEFINE n == Cardinality(Owed)  m == Cardinality(Owed')  before == Used  used == Used'
           most == DiskSize - Reserve + 2 * MaxUpload * (MaxScans - 1)
<1>3. n \in Nat /\ m = n - 1 /\ before + n <= most /\ most \in Int
  BY <1>2, ChunksAreFinite, ServiceAssumption DEF OwedFits
<1>4. before \in Int /\ used = before + 1
  BY UsedType
<1> HIDE DEF n, m, most, used, before
<1>5. used + m <= most
  BY <1>3, <1>4
<1>6. QED
  BY <1>5 DEF m, most, used, OwedFits

(* The free space is looked at: it is enough for the upload, and the other *)
(* slots are owed two uploads each at most.                                *)
LEMMA GrantFits ==
  ASSUME TypeOK, TypeOK', JobsFit, JobsFit', SlotsConserved, ExcessFits, NEW c \in Conns, StartUpload(c)
  PROVE  OwedFits'
<1> DEFINE U == 2 * MaxUpload
           length == job[c].request
           Others == ScanHolders \ {c}
           Own == {c} \X (1 .. 2 * length)
           Theirs == Others \X (1 .. U)
<1>0. MaxUpload \in Nat \ {0} /\ MaxScans \in Nat \ {0} /\ DiskSize \in Nat /\ Reserve \in Nat
      /\ uploadBytes \in Int /\ excess \in Int /\ excess >= 0
  BY ServiceAssumption, ExcessIsPositive DEF TypeOK
<1>1. /\ up /\ phase[c] = "admitted" /\ phase' = [phase EXCEPT ![c] = "upload"]
      /\ job' = job /\ UNCHANGED <<uploadBytes, excess>>
  BY DEF StartUpload, Goto
<1>2. length \in 1 .. MaxUpload /\ job[c].spool = 0 /\ job[c].copy = 0
  <2>1. phase'[c] = "upload" /\ JobFits(c)'
    BY <1>1 DEF TypeOK, JobsFit
  <2>2. QED
    BY <2>1, <1>1 DEF JobsFit, JobFits
<1>3. Used' + 2 * length <= DiskSize - Reserve /\ Used' \in Int
  <2>1. PICK free \in FreeReadings : RequestStatus(length, free) = "ok"
    BY DEF StartUpload
  <2>2. ~(free < 2 * length + Reserve)
    BY <2>1, <1>2 DEF RequestStatus, NoLength, BadHeader, required_free_bytes
  <2>3. free \in Int /\ free <= DiskSize - uploadBytes
    BY <2>1, <1>0 DEF FreeReadings
  <2>4. Used' = uploadBytes - excess
    BY <1>1 DEF Used
  <2>5. QED
    BY <2>2, <2>3, <2>4, <1>0, <1>2
<1>4. Owed' \subseteq Own \cup Theirs
  <2> SUFFICES ASSUME NEW d \in Conns, NEW k \in 1 .. U, k <= Owes(d)'
               PROVE  <<d, k>> \in Own \cup Theirs
    BY DEF Owed, Chunks
  <2>1. CASE d = c
    <3>1. phase'[c] = "upload" /\ job'[c] = job[c]
      BY <1>1 DEF TypeOK
    <3>2. Over(0, length) = 0
      BY <1>2 DEF Over
    <3>3. OnDisk(job[c]) = 0
      BY <3>2, <1>2 DEF OnDisk, Within
    <3>4. Owes(d)' = 2 * length
      BY <2>1, <3>1, <3>3, <1>0, <1>2 DEF Owes
    <3>5. QED
      BY <3>4, <2>1, <1>2
  <2>2. CASE d # c
    <3>1. phase'[d] \in {"upload", "copy"} /\ phase'[d] = phase[d]
      BY <2>2, <1>1 DEF Owes, TypeOK
    <3>2. d \in Others
      BY <3>1, <2>2 DEF ScanHolders, ScanPhases
    <3>3. QED
      BY <3>2
  <2>3. QED
    BY <2>1, <2>2
<1>5. /\ IsFiniteSet(Others) /\ Cardinality(Others) \in Nat
      /\ Cardinality(Others) <= MaxScans - 1
  <2>1. IsFiniteSet(ScanHolders) /\ c \in ScanHolders
    BY <1>1, ServiceAssumption, FS_Subset DEF ScanHolders, ScanPhases
  <2>2. Cardinality(ScanHolders) <= MaxScans /\ Cardinality(ScanHolders) \in Nat
    BY <2>1, <1>1, <1>0, FS_CardinalityType DEF SlotsConserved, TypeOK
  <2>3. Cardinality(Others) = Cardinality(ScanHolders) - 1 /\ IsFiniteSet(Others)
    BY <2>1, FS_RemoveElement
  <2>4. QED
    BY <2>2, <2>3, <1>0, FS_CardinalityType
<1>6. IsFiniteSet(Own) /\ Cardinality(Own) = 2 * length
  <2>1. IsFiniteSet(1 .. 2 * length) /\ Cardinality(1 .. 2 * length) = 2 * length
    <3> DEFINE n == 2 * length
    <3>1. n \in Nat
      BY <1>2, <1>0
    <3> HIDE DEF n
    <3>2. IsFiniteSet(1 .. n) /\ Cardinality(1 .. n) = n
      BY <3>1, FS_Interval
    <3>3. QED
      BY <3>2 DEF n
  <2>2. IsFiniteSet({c}) /\ Cardinality({c}) = 1
    BY FS_Singleton
  <2>3. \A S, T : IsFiniteSet(S) /\ IsFiniteSet(T) =>
          /\ IsFiniteSet(S \X T) /\ Cardinality(S \X T) = Cardinality(S) * Cardinality(T)
    BY FS_Product
  <2>4. IsFiniteSet(Own) /\ Cardinality(Own) = Cardinality({c}) * Cardinality(1 .. 2 * length)
    BY <2>1, <2>2, <2>3
  <2>5. QED
    BY <2>1, <2>2, <2>4, <1>2
<1>7. IsFiniteSet(Theirs) /\ Cardinality(Theirs) = Cardinality(Others) * U
  <2>1. IsFiniteSet(1 .. U) /\ Cardinality(1 .. U) = U
    BY <1>0, FS_Interval
  <2> HIDE DEF Others, U
  <2>2. QED
    BY <2>1, <1>5, FS_Product
<1>8. Cardinality(Owed') \in Nat /\ Cardinality(Owed') <= 2 * length + Cardinality(Theirs)
      /\ Cardinality(Theirs) \in Nat
  <2>1. /\ IsFiniteSet(Own \cup Theirs)
        /\ Cardinality(Own \cup Theirs)
             = Cardinality(Own) + Cardinality(Theirs) - Cardinality(Own \cap Theirs)
    BY <1>6, <1>7, FS_Union
  <2>2. IsFiniteSet(Own \cap Theirs)
    BY <1>6, FS_Intersection
  <2>3. /\ Cardinality(Own \cap Theirs) \in Nat /\ Cardinality(Own) \in Nat
        /\ Cardinality(Theirs) \in Nat
    BY <2>2, <1>6, <1>7, FS_CardinalityType
  <2>4. Owed' \in SUBSET (Own \cup Theirs)
    BY <1>4
  <2>5. /\ Cardinality(Owed') <= Cardinality(Own \cup Theirs)
        /\ Cardinality(Owed') \in Nat /\ Cardinality(Own \cup Theirs) \in Nat
    BY <2>1, <2>4, FS_Subset, FS_CardinalityType
  <2> HIDE DEF Own, Theirs
  <2>6. QED
    BY <2>1, <2>3, <2>5, <1>6, <1>0, <1>2
<1>9. Cardinality(Theirs) <= U * (MaxScans - 1)
  <2> DEFINE n == Cardinality(Others)
  <2>1. n \in Nat /\ n <= MaxScans - 1 /\ Cardinality(Theirs) = n * U
    BY <1>5, <1>7
  <2> HIDE DEF n
  <2>2. QED
    BY <2>1, <1>0, TimesMonotone
<1>10. QED
  <2> DEFINE m == Cardinality(Owed')  t == Cardinality(Theirs)  k == U * (MaxScans - 1)
  <2>1. /\ m \in Nat /\ t \in Nat /\ m <= 2 * length + t /\ t <= k /\ k \in Int
        /\ length \in Nat
    BY <1>0, <1>2, <1>8, <1>9
  <2> DEFINE used == Used'
  <2>2. used + 2 * length <= DiskSize - Reserve /\ used \in Int
    BY <1>3
  <2> HIDE DEF m, t, k, length, used
  <2>3. used + m <= DiskSize - Reserve + k
    BY <2>1, <2>2, <1>0
  <2>4. QED
    BY <2>3 DEF m, k, used, OwedFits

OwesUploads == \A d \in Conns : Owes(d) \in 0 .. 2 * MaxUpload

LEMMA OwesInRange == TypeOK /\ JobsFit => OwesUploads
<1> SUFFICES ASSUME TypeOK, JobsFit, NEW d \in Conns PROVE Owes(d) \in 0 .. 2 * MaxUpload
  BY DEF OwesUploads
<1>1. /\ MaxUpload \in Nat \ {0} /\ job[d].request \in Int
      /\ OnDisk(job[d]) \in Nat
      /\ job[d].request >= 1 => OnDisk(job[d]) <= 2 * job[d].request
  BY ServiceAssumption, OnDiskBounds DEF TypeOK
<1>2. JobFits(d)
  BY DEF JobsFit
<1>3. QED
  BY <1>1, <1>2 DEF JobFits, Owes

LEMMA OwedStep ==
  TypeOK /\ SlotsConserved /\ AllTidied /\ ExcessFits /\ JobsFit /\ OwedFits /\ [Next]_vars
    => OwedFits'
<1> SUFFICES ASSUME TypeOK, SlotsConserved, AllTidied, ExcessFits, JobsFit, OwedFits,
                    [Next]_vars
             PROVE  OwedFits'
  OBVIOUS
<1>t. TypeOK' /\ JobsFit'
  BY TypeStep, JobsFitStep
<1>u. OwesUploads /\ OwesUploads'
  BY <1>t, OwesInRange, PTL
<1>b. \A d \in Conns : Owes(d) \in 0 .. 2 * MaxUpload /\ Owes(d)' \in 0 .. 2 * MaxUpload
  BY <1>u DEF OwesUploads
<1>i. \A d \in Conns : Owes(d) \in Int /\ Owes(d)' \in Int
  BY <1>b
<1>1. ASSUME NEW c \in Conns, ConnStep(c) PROVE OwedFits'
  <2>1. CASE Used' <= Used /\ Owes(c)' <= Owes(c)
    <3>1. \A d \in Conns : Owes(d)' <= Owes(d)
      BY <1>1, <1>i, <2>1, StepOwes
    <3>2. QED
      BY <3>1, <2>1, <1>i, <1>t, OwesLess DEF OwesNoMore
  <2>2. CASE Used' = Used + 1 /\ Owes(c) >= 1 /\ Owes(c)' = Owes(c) - 1
    <3>1. Owes(c) \in 1 .. 2 * MaxUpload
      BY <2>2, <1>b
    <3>2. QED
      BY <3>1, <1>1, <2>2, StepOwes, OwedIsWritten
  <2>3. CASE StartUpload(c)
    BY <2>3, <1>t, GrantFits
  <2>4. QED
    BY <1>1, <2>1, <2>2, <2>3, StepOwes
<1>2. ASSUME NEW c \in Conns, Vanish(c) PROVE OwedFits'
  <2>1. Used' <= Used
    BY <1>2, ForgetUses DEF Vanish
  <2>2. \A d \in Conns \ {c} : Owes(d)' = Owes(d)
    BY <1>2 DEF Vanish, Forget, TypeOK, Owes
  <2>3. Owes(c)' = 0
    BY <1>2 DEF Vanish, TypeOK, Owes
  <2>4. \A d \in Conns : Owes(d)' <= Owes(d)
    BY <2>2, <2>3, <1>b
  <2>5. QED
    BY <2>1, <2>4, <1>i, <1>t, OwesLess DEF OwesNoMore
<1>3. CASE ServerDies \/ Restart \/ OrphanExits \/ UNCHANGED vars
  <2>1. Used' <= Used /\ \A d \in Conns : Owes(d)' = Owes(d)
    BY <1>3, UsedType DEF ServerDies, Restart, OrphanExits, Owes, Used
  <2>2. \A d \in Conns : Owes(d)' <= Owes(d)
    BY <2>1, <1>i
  <2>3. QED
    BY <2>1, <2>2, <1>i, <1>t, OwesLess DEF OwesNoMore
<1>4. QED
  BY <1>1, <1>2, <1>3 DEF Next, ConnStep

LEMMA DiskInit == Init => JobsFit /\ OwedFits
<1> SUFFICES ASSUME Init PROVE JobsFit /\ OwedFits
  OBVIOUS
<1>1. JobsFit
  BY ServiceAssumption DEF Init, NoJob, JobsFit, JobFits
<1>2. Owed = {}
  BY DEF Init, Owed, Owes, Chunks
<1>3. Cardinality(Owed) = 0 /\ Used = 0
  BY <1>2, FS_EmptySet DEF Init, Used
<1>4. 0 <= 2 * MaxUpload * (MaxScans - 1)
  BY ServiceAssumption, TimesMonotone
<1> DEFINE k == 2 * MaxUpload * (MaxScans - 1)
<1>5. k \in Int
  BY ServiceAssumption
<1> HIDE DEF k
<1>6. 0 + 0 <= DiskSize - Reserve + k
  BY <1>4, <1>5, ServiceAssumption DEF k
<1>7. QED
  BY <1>1, <1>3, <1>6 DEF OwedFits, k

LEMMA OverdraftFollows == TypeOK /\ OwedFits => OverdraftBounded
<1> SUFFICES ASSUME TypeOK, OwedFits PROVE OverdraftBounded
  OBVIOUS
<1> DEFINE n == Cardinality(Owed)  k == 2 * MaxUpload * (MaxScans - 1)
<1>1. /\ n \in Nat /\ k \in Int /\ Used \in Int /\ DiskSize \in Nat /\ Reserve \in Nat
      /\ Used + n <= DiskSize - Reserve + k
  BY ChunksAreFinite, UsedType, ServiceAssumption DEF OwedFits
<1> HIDE DEF n, k
<1>2. DiskSize - Used >= Reserve - k
  BY <1>1
<1>3. QED
  BY <1>2 DEF k, Used, OverdraftBounded

(* With one scan slot the overdraft is nothing. *)
LEMMA ReserveFollows == OverdraftBounded => ReserveKept
BY ServiceAssumption DEF OverdraftBounded, ReserveKept

-----------------------------------------------------------------------------
(* What deaths and failed unlinks leave behind.                            *)

(* The handlers that a dead server still has inside the scan slots may     *)
(* each leave a copy and a scanner.                                        *)
Dying == IF up THEN {} ELSE ScanHolders

LeaksFit ==
  /\ leaked + Cardinality(Dying) * MaxUpload <= faults * MaxScans * MaxUpload
  /\ orphans + Cardinality(Dying) <= faults * MaxScans

LEMMA DyingIsFinite ==
  IsFiniteSet(Dying) /\ Cardinality(Dying) \in Nat /\ IsFiniteSet(ScanHolders)
BY ServiceAssumption, FS_Subset, FS_EmptySet, FS_CardinalityType DEF Dying, ScanHolders

(* The arithmetic of one more death, with h handlers inside. *)
LEMMA OneMoreFault ==
  ASSUME NEW l \in Nat, NEW f \in Nat, NEW s \in Nat, NEW u \in Nat, NEW h \in Nat,
         h <= s, l <= f * s * u
  PROVE  l + h * u <= (f + 1) * s * u
<1>1. h * u <= s * u
  BY TimesMonotone
<1>2. (f + 1) * s * u = f * s * u + s * u
  OBVIOUS
<1> DEFINE hu == h * u  su == s * u  fsu == f * s * u
<1>3. hu \in Nat /\ su \in Nat /\ fsu \in Nat
  OBVIOUS
<1> HIDE DEF hu, su, fsu
<1>4. l + hu <= fsu + su
  BY <1>1, <1>3 DEF hu, su, fsu
<1>5. QED
  BY <1>2, <1>4 DEF hu, su, fsu

(* The arithmetic of one handler fewer, that leaves at most u. *)
LEMMA OneFewer ==
  ASSUME NEW l \in Nat, NEW k \in Nat, NEW u \in Nat, NEW h \in Nat, NEW most \in Int,
         k <= u, h >= 1, l + h * u <= most
  PROVE  l + k + (h - 1) * u <= most
<1>1. (h - 1) * u = h * u - u
  OBVIOUS
<1> DEFINE hu == h * u
<1>2. hu \in Nat
  OBVIOUS
<1> HIDE DEF hu
<1>3. l + k + (hu - u) <= most
  BY <1>2 DEF hu
<1>4. QED
  BY <1>1, <1>3 DEF hu

(* One fault more, with at most one upload for each slot left behind. *)
LEMMA FaultPays ==
  ASSUME TypeOK, LeaksFit, up, NEW h \in Nat, h <= MaxScans, NEW k \in Nat, k <= h * MaxUpload
  PROVE  /\ leaked + k <= (faults + 1) * MaxScans * MaxUpload
         /\ orphans + h <= (faults + 1) * MaxScans
<1> DEFINE fs == faults * MaxScans  hu == h * MaxUpload
           more == (faults + 1) * MaxScans * MaxUpload
<1>1. /\ leaked \in Nat /\ orphans \in Nat /\ faults \in Nat
      /\ MaxScans \in Nat /\ MaxUpload \in Nat
  BY ServiceAssumption DEF TypeOK
<1>2. leaked <= faults * MaxScans * MaxUpload /\ orphans <= fs
  <2>1. Dying = {} /\ Cardinality(Dying) = 0
    BY FS_EmptySet DEF Dying
  <2>2. QED
    BY <2>1, <1>1 DEF LeaksFit
<1>3. leaked + hu <= more
  BY <1>1, <1>2, OneMoreFault
<1>4. hu \in Nat /\ more \in Nat /\ fs \in Nat /\ (faults + 1) * MaxScans = fs + MaxScans
  BY <1>1
<1> HIDE DEF fs, hu, more
<1>5. leaked + k <= more
  BY <1>1, <1>3, <1>4 DEF hu
<1>6. orphans + h <= fs + MaxScans
  BY <1>1, <1>2, <1>4
<1>7. QED
  BY <1>4, <1>5, <1>6 DEF more

LEMMA LeaksStep ==
  TypeOK /\ SlotsConserved /\ AllTidied /\ JobsFit /\ LeaksFit /\ [Next]_vars => LeaksFit'
<1> SUFFICES ASSUME TypeOK, SlotsConserved, AllTidied, JobsFit, LeaksFit, [Next]_vars
             PROVE  LeaksFit'
  OBVIOUS
<1>t. /\ leaked \in Nat /\ orphans \in Nat /\ faults \in Nat
      /\ MaxScans \in Nat \ {0} /\ MaxUpload \in Nat \ {0}
  BY ServiceAssumption DEF TypeOK
<1>j. \A c \in Conns : job[c].copy \in Nat /\ job[c].copy <= MaxUpload
  <2>1. \A c \in Conns : job[c].copy \in Nat /\ job[c].spool \in Nat
    BY DEF TypeOK, Jobs
  <2>2. QED
    BY <2>1, <1>t DEF JobsFit, JobFits
<1>f. ASSUME NEW c \in Conns, Forget(c), phase[c] \notin ScanPhases
      PROVE  UNCHANGED <<leaked, orphans>>
  <2>1. /\ job[c].child # "running"
        /\ job[c].copy # 0 => pending[c] = "unlink"
    <3>1. phase[c] \in {"idle", "accepted", "head", "closing"}
      BY <1>f DEF TypeOK, Phases
    <3>2. QED
      BY <3>1 DEF NoJob, Tidied, AllTidied
  <2>2. QED
    BY <2>1, <1>f, <1>t, <1>j DEF Forget
<1>0. UNCHANGED <<leaked, orphans, faults, Dying>> => LeaksFit'
  BY DEF LeaksFit
<1>1. ASSUME NEW c \in Conns, UnlinkFails(c) PROVE LeaksFit'
  <2>1. /\ up /\ up' = up /\ leaked' = leaked + job[c].copy
        /\ orphans' = orphans /\ faults' = faults + 1
    BY <1>1 DEF UnlinkFails, Goto
  <2>2. Cardinality(Dying') = 0
    BY <2>1, FS_EmptySet DEF Dying
  <2>3. 1 \in Nat /\ 1 <= MaxScans /\ job[c].copy <= 1 * MaxUpload /\ job[c].copy \in Nat
    BY <1>t, <1>j
  <2>4. /\ leaked + job[c].copy <= (faults + 1) * MaxScans * MaxUpload
        /\ orphans + 1 <= (faults + 1) * MaxScans
    BY ONLY <2>1, <2>3, FaultPays, TypeOK, LeaksFit
  <2>5. /\ leaked' <= faults' * MaxScans * MaxUpload
        /\ orphans' + 1 <= faults' * MaxScans
    BY <2>1, <2>4
  <2>6. leaked' + 0 * MaxUpload = leaked' /\ orphans' + 0 <= orphans' + 1
        /\ faults' * MaxScans \in Nat /\ orphans' \in Nat
    BY <2>1, <1>t, <2>3
  <2> DEFINE fs == faults' * MaxScans
  <2>7. orphans' + 0 <= fs
    BY <2>5, <2>6
  <2>8. QED
    BY <2>2, <2>5, <2>6, <2>7 DEF LeaksFit
<1>2. ASSUME NEW c \in Conns, ConnStep(c), ~UnlinkFails(c) PROVE LeaksFit'
  <2>1. UNCHANGED <<leaked, orphans, faults, up>>
    BY <1>2, <1>f
       DEF ScanPhases, Goto,
            ConnStep, Hear, Serve, Fail, Accept, Overloaded, Answer, RefuseScan, AdmitScan,
           UploadEnds, RejectForm, StartThread, ReleaseConn, HeadFails, RejectRequest,
           StartUpload, ClientFallsSilent, ClientResets, UploadTimeout, RejectSize, RejectFile,
           WorkFails, NoEngine, StartScanner,
           ScanTimeout, ScanEnds, ReleaseScan, StartFails, ScannerExits,
           Cleanup, HandleException, ReceiveChunk, CopyChunk
  <2>2. CASE up
    BY <2>1, <2>2, <1>0 DEF Dying
  <2>3. CASE ~up
    <3>1. UNCHANGED phase
      BY <1>2, <2>3
         DEF ConnStep, Hear, Serve, Fail, Accept, Overloaded, Answer, RefuseScan, AdmitScan,
             UploadEnds, RejectForm, StartThread, ReleaseConn, HeadFails, RejectRequest,
             StartUpload, ClientFallsSilent, ClientResets, UploadTimeout, RejectSize, RejectFile,
             WorkFails, NoEngine, StartScanner,
             ScanTimeout, ScanEnds, ReleaseScan, StartFails, ScannerExits,
             Cleanup, HandleException, ReceiveChunk, CopyChunk, Goto
    <3>2. QED
      BY <2>1, <3>1, <1>0 DEF Dying, ScanHolders
  <2>4. QED
    BY <2>2, <2>3
<1>3. ASSUME NEW c \in Conns, Vanish(c) PROVE LeaksFit'
  <2> DEFINE left == IF pending[c] = "unlink" THEN 0 ELSE job[c].copy
  <2>1. /\ ~up /\ up' = up /\ faults' = faults /\ phase' = [phase EXCEPT ![c] = "idle"]
        /\ leaked' = leaked + left
        /\ orphans' = orphans + (IF job[c].child = "running" THEN 1 ELSE 0)
    BY <1>3 DEF Vanish, Forget
  <2>2. Dying' = Dying \ {c}
    BY <2>1 DEF Dying, ScanHolders, ScanPhases, TypeOK
  <2>3. CASE c \in Dying
    <3> DEFINE h == Cardinality(Dying)  k == left  r == orphans'
               mostFiles == faults * MaxScans * MaxUpload  most == faults * MaxScans
    <3>1. Cardinality(Dying') = h - 1 /\ h >= 1 /\ h \in Nat
      <4>1. Cardinality(Dying') = h - 1 /\ h \in Nat
        BY <2>2, <2>3, DyingIsFinite, FS_RemoveElement
      <4>2. h # 0
        BY <2>3, DyingIsFinite, FS_EmptySet
      <4>3. QED
        BY <4>1, <4>2
    <3>2. k \in Nat /\ k <= MaxUpload /\ r \in Nat /\ r <= orphans + 1
      BY <1>t, <1>j, <2>1
    <3>3. leaked + h * MaxUpload <= mostFiles /\ orphans + h <= most
          /\ mostFiles \in Int /\ most \in Int
      BY <1>t DEF LeaksFit
    <3> HIDE DEF h, k, most, mostFiles, r
    <3>4. leaked + k + (h - 1) * MaxUpload <= mostFiles
      BY <3>1, <3>2, <3>3, <1>t, OneFewer
    <3>5. r + (h - 1) <= most
      BY <3>1, <3>2, <3>3, <1>t
    <3>6. /\ leaked' + Cardinality(Dying') * MaxUpload <= faults' * MaxScans * MaxUpload
          /\ orphans' + Cardinality(Dying') <= faults' * MaxScans
      BY <2>1, <3>1, <3>4, <3>5 DEF k, most, mostFiles, r
    <3>7. QED
      BY <3>6 DEF LeaksFit
  <2>4. CASE c \notin Dying
    <3>1. phase[c] \notin ScanPhases
      BY <2>1, <2>4 DEF Dying, ScanHolders
    <3>2. leaked' = leaked /\ orphans' = orphans /\ Dying' = Dying
      BY <1>3, <1>f, <2>2, <2>4, <3>1 DEF Vanish
    <3>3. QED
      BY <2>1, <3>2, <1>0
  <2>5. QED
    BY <2>3, <2>4
<1>4. CASE ServerDies
  <2>1. /\ up /\ faults' = faults + 1 /\ leaked' = leaked /\ orphans' = orphans
        /\ Dying' = ScanHolders
    BY <1>4 DEF ServerDies, Dying, ScanHolders
  <2> DEFINE h == Cardinality(ScanHolders)
  <2>2. h \in Nat /\ h <= MaxScans
    BY <2>1, DyingIsFinite, FS_CardinalityType, ServiceAssumption DEF SlotsConserved, TypeOK
  <2>3. h * MaxUpload \in Nat /\ h * MaxUpload <= h * MaxUpload
    BY <2>2, <1>t
  <2>4. /\ leaked + h * MaxUpload <= (faults + 1) * MaxScans * MaxUpload
        /\ orphans + h <= (faults + 1) * MaxScans
    BY <2>1, <2>2, <2>3, FaultPays
  <2>5. QED
    BY <2>1, <2>4 DEF LeaksFit
<1>5. CASE Restart
  <2>1. Dying = {} /\ Dying' = {} /\ UNCHANGED <<leaked, orphans, faults>>
    BY <1>5 DEF Restart, Dying, ScanHolders, ConnHolders, ScanPhases
  <2>2. QED
    BY <2>1, <1>0
<1>6. CASE OrphanExits
  <2>1. /\ UNCHANGED <<leaked, faults, Dying>> /\ orphans' = orphans - 1
    BY <1>6 DEF OrphanExits, Dying, ScanHolders
  <2> DEFINE h == Cardinality(Dying)  most == faults * MaxScans  r == orphans'
  <2>2. h \in Nat /\ orphans + h <= most /\ most \in Int /\ r = orphans - 1
    BY <2>1, <1>t, DyingIsFinite DEF LeaksFit
  <2> HIDE DEF h, most, r
  <2>3. r + h <= most
    BY <2>2, <1>t
  <2>4. QED
    BY <2>1, <2>3 DEF LeaksFit, h, most, r
<1>7. CASE UNCHANGED vars
  BY <1>7, <1>0 DEF Dying, ScanHolders
<1>8. QED
  BY <1>1, <1>2, <1>3, <1>4, <1>5, <1>6, <1>7 DEF Next, ConnStep

LEMMA LeaksFollow == TypeOK /\ LeaksFit => LeakBounded
<1> SUFFICES ASSUME TypeOK, LeaksFit PROVE LeakBounded
  OBVIOUS
<1> DEFINE h == Cardinality(Dying)  hu == h * MaxUpload
           mostFiles == faults * MaxScans * MaxUpload  most == faults * MaxScans
<1>1. /\ h \in Nat /\ hu \in Nat /\ mostFiles \in Nat /\ most \in Nat
      /\ leaked \in Nat /\ orphans \in Nat
      /\ leaked + hu <= mostFiles /\ orphans + h <= most
  BY DyingIsFinite, ServiceAssumption DEF TypeOK, LeaksFit
<1> HIDE DEF h, hu, most, mostFiles
<1>2. leaked <= mostFiles /\ orphans <= most
  BY <1>1
<1>3. QED
  BY <1>2 DEF LeakBounded, most, mostFiles

LEMMA LeaksInit == Init => LeaksFit
<1> SUFFICES ASSUME Init PROVE LeaksFit
  OBVIOUS
<1>1. Cardinality(Dying) = 0
  BY FS_EmptySet DEF Init, Dying
<1>2. leaked = 0 /\ orphans = 0 /\ faults = 0
  BY DEF Init
<1>3. QED
  BY <1>1, <1>2, ServiceAssumption DEF LeaksFit

(* What the theorems about the disk rest on. *)
DiskInv ==
  /\ TypeOK /\ SlotsConserved /\ AllTidied /\ ExcessFits
  /\ JobsFit /\ OwedFits /\ LeaksFit

LEMMA DiskInductive == Spec => []DiskInv
<1>1. Init => DiskInv
  BY InitType, SlotsInit, TidyInit, ExcessInit, DiskInit, LeaksInit DEF DiskInv
<1>2. DiskInv /\ [Next]_vars => DiskInv'
  BY TypeStep, SlotsStep, TidyStep, ExcessStep, JobsFitStep, OwedStep, LeaksStep DEF DiskInv
<1>3. QED
  BY <1>1, <1>2, PTL DEF Spec

(* However many scans run at once, on a disk of any size and with forms of *)
(* any length: what uploads and their copies use reaches into the reserve  *)
(* by at most two full uploads for every other slot and what forms exceed  *)
(* their declared length by, although the free space was looked at before  *)
(* any of it was written; and every death of the server or failed unlink   *)
(* leaves at most one upload and one scanner for each slot.                *)
THEOREM DiskStaysBounded == Spec => []DiskBounded
<1>1. DiskInv => DiskBounded
  BY OverdraftFollows, LeaksFollow DEF DiskInv, DiskBounded
<1>2. QED
  BY <1>1, DiskInductive, PTL

(* The disk check of handle_analyze is enough when one scan may run: but   *)
(* for what forms exceed their declared length by, uploads never reach     *)
(* into the reserve, for any sizes of disk, reserve and upload, any number *)
(* of deaths and failed unlinks.                                           *)
THEOREM ReserveIsKept == Spec => []ReserveKept
<1>1. DiskInv => ReserveKept
  BY OverdraftFollows, ReserveFollows DEF DiskInv
<1>2. QED
  BY <1>1, DiskInductive, PTL

-----------------------------------------------------------------------------
(* Admission.                                                              *)

LEMMA SameCardinality == \A S : Admission!Cardinality(S) = Cardinality(S)
BY DEF Admission!Cardinality, Cardinality, Admission!IsFiniteSet, IsFiniteSet

(* The responses of s say "busy". *)
Told(s) == \E i \in 1 .. Len(s) : s[i].status = "429"

(* A handler that may still ask for a slot has said nothing, and one that  *)
(* has a slot has not said "busy".                                         *)
TellsInv ==
  \A c \in Conns :
    /\ phase[c] \in {"accepted", "head"} => sent[c] = <<>>
    /\ phase[c] \in ScanPhases => ~Told(sent[c])

(* The step of c tells no client anew that the service is busy. *)
Discreet(c) ==
  /\ \A d \in Conns \ {c} : sent'[d] = sent[d]
  /\ Told(sent'[c]) => Told(sent[c])

LEMMA NothingTold == ~Told(<<>>) /\ \A whole : ~Told(<<Response("503", whole)>>)
BY DEF Told, Response

LEMMA SayIsDiscreet ==
  ASSUME TypeOK, NEW c \in Conns, NEW status \in Statuses \ {"429"},
         NEW whole \in BOOLEAN, Say(c, status, whole)
  PROVE  Discreet(c)
<1>1. sent[c] \in Seq(Responses) /\ DOMAIN sent = Conns
  BY DEF TypeOK
<1>2. sent' = [sent EXCEPT ![c] = Append(sent[c], Response(status, whole))]
  BY DEF Say
<1>3. Told(Append(sent[c], Response(status, whole))) => Told(sent[c])
  <2>1. SUFFICES ASSUME NEW i \in 1 .. Len(Append(sent[c], Response(status, whole))),
                        Append(sent[c], Response(status, whole))[i].status = "429"
                 PROVE  Told(sent[c])
    BY DEF Told
  <2>2. Response(status, whole).status # "429"
    BY DEF Response
  <2>3. i \in 1 .. Len(sent[c]) /\ sent[c][i].status = "429"
    BY <1>1, <2>1, <2>2
  <2>4. QED
    BY <2>3 DEF Told
<1>4. QED
  BY <1>1, <1>2, <1>3 DEF Discreet

LEMMA SendJsonIsDiscreet ==
  ASSUME TypeOK, NEW c \in Conns, NEW status \in Statuses \ {"429"}, SendJson(c, status)
  PROVE  Discreet(c)
BY SayIsDiscreet DEF SendJson

LEMMA ConnStepIsDiscreet ==
  ASSUME TypeOK, NEW c \in Conns, ConnStep(c), ~RefuseScan(c)
  PROVE  Discreet(c)
<1>1. CASE UNCHANGED sent
  BY <1>1 DEF Discreet
<1>2. CASE Accept(c) \/ ReleaseConn(c)
  BY <1>2, NothingTold DEF Accept, ReleaseConn, Forget, Discreet, TypeOK
<1>3. CASE Overloaded(c)
  BY <1>3, NothingTold DEF Overloaded, Discreet, TypeOK
<1>4. CASE Answer(c)
  BY <1>4, SayIsDiscreet DEF Answer, Statuses
<1>5. CASE RejectRequest(c)
  <2>1. PICK free : /\ RequestStatus(job[c].request, free) # "ok"
                    /\ SendJson(c, RequestStatus(job[c].request, free))
    BY <1>5 DEF RejectRequest
  <2>2. RequestStatus(job[c].request, free) \in Statuses \ {"429"}
    BY <2>1 DEF RequestStatus, Statuses
  <2>3. QED
    BY <2>1, <2>2, SendJsonIsDiscreet
<1>6. CASE RejectForm(c) \/ RejectSize(c) \/ RejectFile(c) \/ NoEngine(c) \/ ScanTimeout(c) \/ ScanEnds(c)
  BY <1>6, SendJsonIsDiscreet
     DEF RejectForm, RejectSize, RejectFile, NoEngine, ScanTimeout, ScanEnds, ScanResult, Statuses
<1>7. CASE HandleException(c)
  BY <1>7, <1>1, SayIsDiscreet DEF HandleException, Statuses
<1>8. QED
  BY <1>1, <1>2, <1>3, <1>4, <1>5, <1>6, <1>7
     DEF ConnStep, Hear, Serve, Fail, StartFails, StartThread, HeadFails, AdmitScan,
         StartUpload, ReceiveChunk, UploadEnds, ClientFallsSilent, ClientResets, UploadTimeout,
         CopyChunk, WorkFails,
         StartScanner, ScannerExits, Cleanup, UnlinkFails, ReleaseScan

LEMMA TellsStep == TypeOK /\ TellsInv /\ [Next]_vars => TellsInv'
<1>1. ASSUME TypeOK, TellsInv, NEW c \in Conns, ConnStep(c) PROVE TellsInv'
  <2>p. /\ phase' = [phase EXCEPT ![c] = phase'[c]] /\ phase \in [Conns -> Phases]
        /\ sent \in [Conns -> Seq(Responses)]
    BY <1>1, ConnStepSettles DEF Settles, TypeOK
  <2>1. CASE RefuseScan(c)
    BY <2>1, <2>p, <1>1 DEF RefuseScan, Goto, Say, TellsInv, ScanPhases
  <2>2. CASE ~RefuseScan(c)
    <3>1. Discreet(c)
      BY <1>1, <2>2, ConnStepIsDiscreet
    <3>2. phase'[c] \in {"accepted", "head"} => sent'[c] = <<>>
      <4>1. CASE Accept(c)
        BY <4>1, <2>p DEF Accept
      <4>2. CASE StartThread(c)
        BY <4>2, <1>1 DEF StartThread, Goto, TellsInv
      <4>3. CASE ReceiveChunk(c) \/ CopyChunk(c) \/ ScannerExits(c) \/ Overloaded(c)
        <5>1. phase' = phase /\ (phase[c] \notin {"accepted", "head"} \/ sent' = sent)
          BY <4>3 DEF ReceiveChunk, CopyChunk, ScannerExits, Overloaded
        <5>2. QED
          BY <5>1, <1>1 DEF TellsInv
      <4>4. CASE ~Accept(c) /\ ~StartThread(c) /\ ~ReceiveChunk(c) /\ ~CopyChunk(c)
                 /\ ~ScannerExits(c) /\ ~Overloaded(c)
        <5>1. phase'[c] \notin {"accepted", "head"}
          BY <1>1, <2>p, <2>2, <4>4
             DEF ConnStep, Hear, Serve, Fail, Answer, AdmitScan, UploadEnds,
                 RejectForm, ReleaseConn, HeadFails, RejectRequest, StartUpload,
                 ClientFallsSilent, ClientResets, UploadTimeout, RejectSize, RejectFile, WorkFails,
                 NoEngine, StartScanner, ScanTimeout,
                 ScanEnds, ReleaseScan, StartFails, UnlinkFails, Cleanup, AfterFinally,
                 HandleException, Goto
        <5>2. QED
          BY <5>1
      <4>5. QED
        BY <4>1, <4>2, <4>3, <4>4
    <3>3. phase'[c] \in ScanPhases => ~Told(sent'[c])
      <4>1. CASE AdmitScan(c)
        BY <4>1, <1>1, NothingTold DEF AdmitScan, Goto, TellsInv
      <4>2. CASE ~AdmitScan(c)
        <5>1. phase'[c] \in ScanPhases => phase[c] \in ScanPhases
          BY <1>1, <2>p, <2>2, <4>2
             DEF ConnStep, Hear, Serve, Fail, Accept, Overloaded, Answer, UploadEnds,
                 RejectForm, StartThread, ReleaseConn, HeadFails, RejectRequest, StartUpload,
                 ClientFallsSilent, ClientResets, UploadTimeout, RejectSize, RejectFile, WorkFails,
                 NoEngine, StartScanner, ScanTimeout,
                 ScanEnds, ReleaseScan, StartFails, UnlinkFails, ScannerExits, Cleanup,
                 HandleException, ReceiveChunk, CopyChunk, Goto, ScanPhases
        <5>2. QED
          BY <1>1, <3>1, <5>1 DEF Discreet, TellsInv
      <4>3. QED
        BY <4>1, <4>2
    <3>4. QED
      BY <1>1, <2>p, <3>1, <3>2, <3>3 DEF Discreet, TellsInv
  <2>3. QED
    BY <2>1, <2>2
<1>2. ASSUME TypeOK, TellsInv, NEW c \in Conns, Vanish(c) PROVE TellsInv'
  BY <1>2 DEF Vanish, Forget, TypeOK, TellsInv, ScanPhases
<1>3. ASSUME TellsInv, ServerDies \/ Restart \/ OrphanExits \/ UNCHANGED vars PROVE TellsInv'
  BY <1>3 DEF ServerDies, Restart, OrphanExits, TellsInv
<1>4. QED
  BY <1>1, <1>2, <1>3 DEF Next, ConnStep

LEMMA RefusedAreTold == Refused = {c \in Conns : Told(sent[c])}
BY DEF Refused, Told

LEMMA AdmissionInit == Init => Admission!Init
BY NothingTold DEF Init, Admission!Init, ScanHolders, Refused, ScanPhases, Told

LEMMA AdmissionStep ==
  TypeOK /\ SlotsConserved /\ TellsInv /\ [Next]_vars
    => [Admission!Next]_<<ScanHolders, Refused>>
<1> DEFINE Stutter == UNCHANGED <<ScanHolders, Refused>>
<1>r. Refused = {d \in Conns : Told(sent[d])} /\ Refused' = {d \in Conns : Told(sent'[d])}
  BY DEF Refused, Told
<1>d. ASSUME TypeOK, TellsInv, NEW c \in Conns, ScanHolders' = ScanHolders, Discreet(c)
      PROVE  Stutter \/ Admission!Depart(c)
  <2>1. Refused' = Refused \/ (c \in Refused /\ Refused' = Refused \ {c})
    BY <1>r, <1>d DEF Discreet
  <2>2. QED
    BY <1>d, <2>1 DEF Admission!Depart
<1>1. ASSUME TypeOK, SlotsConserved, TellsInv, NEW c \in Conns, ConnStep(c)
      PROVE  [Admission!Next]_<<ScanHolders, Refused>>
  <2>p. /\ phase' = [phase EXCEPT ![c] = phase'[c]] /\ phase \in [Conns -> Phases]
        /\ sent \in [Conns -> Seq(Responses)] /\ scanPermits \in Int
        /\ scanPermits' = scanPermits + One(phase[c], ScanPhases) - One(phase'[c], ScanPhases)
    BY <1>1, ConnStepSettles DEF Settles, TypeOK
  <2>1. CASE RefuseScan(c)
    <3>1. up /\ phase[c] = "head" /\ scanPermits = 0 /\ phase'[c] = "closing"
      BY <2>1, <2>p DEF RefuseScan, Goto, ScanSlotsFull
    <3>2. Cardinality(ScanHolders) = MaxScans
      <4>1. IsFiniteSet(ScanHolders)
        BY ServiceAssumption, FS_Subset DEF ScanHolders
      <4>2. Cardinality(ScanHolders) \in Nat
        BY <4>1, FS_CardinalityType
      <4>3. QED
        BY <1>1, <3>1, <4>2 DEF SlotsConserved
    <3>3. PICK whole \in BOOLEAN : sent' = [sent EXCEPT ![c] = Append(@, Response("429", whole))]
      BY <2>1 DEF RefuseScan, Say
    <3>4. sent[c] = <<>>
      BY <1>1, <3>1 DEF TellsInv
    <3>5. Told(sent'[c]) /\ ~Told(sent[c])
      <4>1. sent'[c] = <<Response("429", whole)>>
        BY <2>p, <3>3, <3>4
      <4>2. QED
        BY <3>4, <4>1, NothingTold DEF Told, Response
    <3>6. Refused' = Refused \cup {c} /\ c \notin Refused
      BY <1>r, <2>p, <3>3, <3>5
    <3>7. ScanHolders' = ScanHolders /\ c \notin ScanHolders
      BY <2>p, <3>1 DEF ScanHolders, ScanPhases
    <3>8. Admission!Refuse(c)
      BY <3>2, <3>6, <3>7, SameCardinality DEF Admission!Refuse
    <3>9. QED
      BY <3>8 DEF Admission!Next
  <2>2. CASE AdmitScan(c)
    <3>1. up /\ phase[c] = "head" /\ scanPermits # 0 /\ phase'[c] = "admitted" /\ sent' = sent
      BY <2>2, <2>p DEF AdmitScan, Goto, ScanSlotsFull
    <3>2. Cardinality(ScanHolders) < MaxScans
      <4>1. IsFiniteSet(ScanHolders)
        BY ServiceAssumption, FS_Subset DEF ScanHolders
      <4>2. Cardinality(ScanHolders) \in Nat /\ MaxScans \in Nat
        BY <4>1, FS_CardinalityType, ServiceAssumption
      <4>3. QED
        BY <1>1, <2>p, <3>1, <4>2 DEF SlotsConserved
    <3>3. c \notin Refused /\ Refused' = Refused
      BY <1>1, <1>r, <3>1, NothingTold DEF TellsInv
    <3>4. ScanHolders' = ScanHolders \cup {c} /\ c \notin ScanHolders
      BY <2>p, <3>1 DEF ScanHolders, ScanPhases
    <3>5. Admission!Admit(c)
      BY <3>2, <3>3, <3>4, SameCardinality DEF Admission!Admit
    <3>6. QED
      BY <3>5 DEF Admission!Next
  <2>3. CASE ReleaseScan(c)
    <3>1. phase[c] = "release" /\ phase'[c] = "closing" /\ sent' = sent
      BY <2>3, <2>p DEF ReleaseScan, Goto
    <3>2. ScanHolders' = ScanHolders \ {c} /\ c \in ScanHolders
      BY <2>p, <3>1 DEF ScanHolders, ScanPhases
    <3>3. Admission!Finish(c)
      BY <1>r, <3>1, <3>2 DEF Admission!Finish
    <3>4. QED
      BY <3>3 DEF Admission!Next
  <2>4. CASE ~RefuseScan(c) /\ ~AdmitScan(c) /\ ~ReleaseScan(c)
    <3>1. scanPermits' = scanPermits
      BY <1>1, <2>4
         DEF ConnStep, Hear, Serve, Fail, Accept, Overloaded, Answer, UploadEnds, RejectForm,
             StartThread, ReleaseConn, HeadFails, RejectRequest, StartUpload,
             ClientFallsSilent, ClientResets, UploadTimeout, RejectSize, RejectFile,
             WorkFails, NoEngine, StartScanner, ScanTimeout, ScanEnds, StartFails,
             UnlinkFails, ScannerExits, Cleanup, HandleException, ReceiveChunk, CopyChunk
    <3>2. phase'[c] \in ScanPhases <=> phase[c] \in ScanPhases
      BY <2>p, <3>1 DEF One
    <3>3. ScanHolders' = ScanHolders
      BY <2>p, <3>2 DEF ScanHolders
    <3>4. Discreet(c)
      BY <1>1, <2>4, ConnStepIsDiscreet
    <3>5. QED
      BY <1>1, <1>d, <3>3, <3>4 DEF Admission!Next
  <2>5. QED
    BY <2>1, <2>2, <2>3, <2>4
<1>2. ASSUME TypeOK, TellsInv, NEW c \in Conns, Vanish(c)
      PROVE  [Admission!Next]_<<ScanHolders, Refused>>
  <2>1. /\ phase' = [phase EXCEPT ![c] = "idle"] /\ phase \in [Conns -> Phases]
        /\ sent' = [sent EXCEPT ![c] = <<>>] /\ sent \in [Conns -> Seq(Responses)]
    BY <1>2 DEF Vanish, Forget, TypeOK
  <2>2. Discreet(c)
    BY <2>1, NothingTold DEF Discreet
  <2>3. CASE c \in ScanHolders
    <3>1. c \notin Refused
      BY <1>r, <1>2, <2>3 DEF TellsInv, ScanHolders
    <3>2. Refused' = Refused
      BY <1>r, <2>1, <2>2, <3>1 DEF Discreet
    <3>3. ScanHolders' = ScanHolders \ {c}
      BY <2>1 DEF ScanHolders, ScanPhases
    <3>4. Admission!Finish(c)
      BY <2>3, <3>2, <3>3 DEF Admission!Finish
    <3>5. QED
      BY <3>4 DEF Admission!Next
  <2>4. CASE c \notin ScanHolders
    <3>1. ScanHolders' = ScanHolders
      BY <2>1, <2>4 DEF ScanHolders, ScanPhases
    <3>2. QED
      BY <1>2, <1>d, <2>2, <3>1 DEF Admission!Next
  <2>5. QED
    BY <2>3, <2>4
<1>3. ASSUME ServerDies \/ Restart \/ OrphanExits \/ UNCHANGED vars PROVE Stutter
  BY <1>3 DEF ServerDies, Restart, OrphanExits, ScanHolders, Refused
<1>4. QED
  BY <1>1, <1>2, <1>3 DEF Next, ConnStep

(* The semaphore, the threads and the handlers implement the abstract      *)
(* admission: at most MaxScans inside, and "busy" is the truth.            *)
THEOREM ImplementsAdmission == Spec => AdmissionSpec
<1>1. Init => TellsInv
  BY DEF Init, TellsInv, ScanPhases
<1>2. TypeOK /\ SlotsConserved /\ [Next]_vars => SlotsConserved'
  BY TypeStep, SlotsStep
<1>3. QED
  BY <1>1, <1>2, InitType, TypeStep, SlotsInit, TellsStep, AdmissionInit, AdmissionStep, PTL
     DEF Spec, AdmissionSpec, Admission!Spec
-----------------------------------------------------------------------------
(* Responses.                                                              *)

(* A handler says nothing before it is on its way out.                     *)
Silent == {"accepted", "head", "admitted", "upload", "silent", "copy", "scan"}

(* What may have been said on a connection whose handler is at p, is left  *)
(* in the way "leaving" and whose scanner is in the state "child".         *)
Heard(p, s, leaving, child) ==
  /\ Len(s) <= 2
  /\ p \in Silent => s = <<>>
  /\ p \in {"idle", "cleanup", "except"} => Len(s) <= 1
  /\ p = "cleanup" /\ Len(s) = 1 => /\ s[1].whole => leaving = "return"
                                    /\ s[1].status = "report" => child = "done"
  /\ p = "except" /\ Len(s) = 1 => (s[1].whole => leaving = "unlink")
  /\ Len(s) = 2 => /\ s[2].status \in {"408", "500"}
                   /\ s[1].whole => leaving = "unlink"
HeardInv == \A c \in Conns : Heard(phase[c], sent[c], pending[c], job[c].child)

(* The step of c leaves the other connections alone. *)
OthersStay(c) ==
  \A d \in Conns \ {c} : /\ phase'[d] = phase[d] /\ sent'[d] = sent[d]
                         /\ pending'[d] = pending[d] /\ job'[d] = job[d]
Hears(c) == OthersStay(c) /\ Heard(phase'[c], sent'[c], pending'[c], job'[c].child)

LEMMA OneSaid ==
  ASSUME NEW status, NEW whole
  PROVE  /\ Append(<<>>, Response(status, whole)) = <<Response(status, whole)>>
         /\ Len(<<Response(status, whole)>>) = 1
         /\ <<Response(status, whole)>>[1].status = status
         /\ <<Response(status, whole)>>[1].whole = whole
         /\ Len(<<>>) = 0
BY DEF Response

(* A response on the way into the cleanup is the first.                    *)
LEMMA SendsOnce ==
  ASSUME TypeOK, HeardInv, NEW c \in Conns, NEW from \in Silent, Goto(c, from, "cleanup"),
         NEW status, SendJson(c, status), NEW j, job' = [job EXCEPT ![c] = j],
         status = "report" => j.child = "done"
  PROVE  Hears(c)
<1>1. PICK leaving : /\ sent' = [sent EXCEPT ![c] = Append(@, Response(status, leaving = "return"))]
                     /\ pending' = [pending EXCEPT ![c] = leaving]
  BY DEF SendJson, Say
<1>2. sent[c] = <<>> BY DEF HeardInv, Heard, Goto
<1>3. /\ DOMAIN sent = Conns /\ DOMAIN pending = Conns /\ DOMAIN job = Conns
      /\ DOMAIN phase = Conns
  BY DEF TypeOK
<1>4. /\ sent'[c] = <<Response(status, leaving = "return")>> /\ pending'[c] = leaving
      /\ job'[c] = j /\ phase'[c] = "cleanup"
  BY <1>1, <1>2, <1>3, OneSaid DEF Goto
<1>5. OthersStay(c) BY <1>1, <1>3 DEF OthersStay, Goto
<1>6. Heard("cleanup", sent'[c], leaving, j.child)
  <2> DEFINE r == <<Response(status, leaving = "return")>>
  <2>1. Len(r) = 1 /\ r[1].status = status BY OneSaid
  <2>2. r[1].whole => leaving = "return"
    <3>1. r[1].whole = (leaving = "return") BY OneSaid
    <3>2. QED
      BY <3>1
  <2>3. sent'[c] = r BY <1>4
  <2> HIDE DEF r
  <2>4. Heard("cleanup", r, leaving, j.child)
    BY <2>1, <2>2 DEF Heard, Silent
  <2>5. QED
    BY <2>3, <2>4
<1>7. QED
  BY <1>4, <1>5, <1>6 DEF Hears

(* A step that says nothing keeps what is known, if it goes nowhere where  *)
(* more is known.                                                          *)
LEMMA KeepsSilent ==
  ASSUME TypeOK, HeardInv, NEW c \in Conns, UNCHANGED sent, OthersStay(c),
         \/ sent[c] = <<>>
         \/ phase'[c] \in {"release", "closing"} /\ pending'[c] = pending[c]
  PROVE  Hears(c)
<1>1. Heard(phase[c], sent[c], pending[c], job[c].child) BY DEF HeardInv
<1>2. CASE sent[c] = <<>>
  <2>1. sent'[c] = <<>> BY <1>2
  <2>2. QED
    BY <2>1 DEF Hears, Heard
<1>3. CASE phase'[c] \in {"release", "closing"} /\ pending'[c] = pending[c]
  BY <1>1, <1>3 DEF Hears, Heard, Silent
<1>4. QED
  BY <1>2, <1>3

LEMMA ConnStepHears ==
  ASSUME TypeOK, HeardInv, NEW c \in Conns, ConnStep(c)
  PROVE  Hears(c)
<1>d. /\ DOMAIN sent = Conns /\ DOMAIN pending = Conns /\ DOMAIN job = Conns
      /\ DOMAIN phase = Conns /\ sent[c] \in Seq(Responses)
      /\ job[c] \in Jobs
  BY DEF TypeOK
<1>h. Heard(phase[c], sent[c], pending[c], job[c].child) BY DEF HeardInv
<1>j. job' = job => job' = [job EXCEPT ![c] = job[c]]
  <2>1. job \in [Conns -> Jobs] BY DEF TypeOK
  <2>2. QED
    BY <2>1
<1>1. CASE Accept(c) \/ ReleaseConn(c)
  BY <1>1, <1>d, OneSaid DEF Accept, ReleaseConn, Forget, Goto, Hears, OthersStay, Heard
<1>2. CASE Overloaded(c)
  <2>1. PICK whole : sent' = [sent EXCEPT ![c] = <<Response("503", whole)>>]
    BY <1>2 DEF Overloaded
  <2>2. sent'[c] = <<Response("503", whole)>> /\ phase'[c] = "idle" BY <1>2, <1>d, <2>1 DEF Overloaded
  <2>3. OthersStay(c) BY <1>2, <1>d, <2>1 DEF Overloaded, OthersStay
  <2>4. QED
    BY <2>2, <2>3, OneSaid DEF Hears, Heard, Silent
<1>3. CASE Answer(c) \/ RefuseScan(c)
  <2>1. PICK status, whole : Say(c, status, whole) BY <1>3 DEF Answer, RefuseScan
  <2>2. Goto(c, "head", "closing") /\ UNCHANGED <<job, pending>> BY <1>3 DEF Answer, RefuseScan
  <2>3. sent[c] = <<>> BY <1>h, <2>2 DEF Heard, Goto, Silent
  <2>4. sent'[c] = <<Response(status, whole)>> BY <1>d, <2>1, <2>3, OneSaid DEF Say
  <2>5. phase'[c] = "closing" /\ OthersStay(c) BY <1>d, <2>1, <2>2 DEF Say, Goto, OthersStay
  <2>6. QED
    BY <2>4, <2>5, OneSaid DEF Hears, Heard, Silent
<1>4. CASE \/ StartThread(c) \/ StartFails(c) \/ HeadFails(c) \/ AdmitScan(c) \/ StartUpload(c)
           \/ UploadEnds(c) \/ ClientFallsSilent(c) \/ ClientResets(c) \/ UploadTimeout(c)
           \/ WorkFails(c) \/ StartScanner(c)
  <2>1. UNCHANGED sent /\ \E from \in Silent : \E to : Goto(c, from, to)
    BY <1>4 DEF StartThread, StartFails, HeadFails, AdmitScan, StartUpload, UploadEnds,
                ClientFallsSilent, ClientResets, UploadTimeout, WorkFails, StartScanner, Silent
  <2>2. sent[c] = <<>> BY <1>h, <2>1 DEF Heard, Goto
  <2>3. OthersStay(c)
    <3>1. CASE AdmitScan(c)
      BY <3>1, <1>d DEF AdmitScan, Goto, OthersStay
    <3>2. CASE WorkFails(c) \/ StartScanner(c)
      BY <3>2, <1>d DEF WorkFails, StartScanner, Goto, OthersStay
    <3>3. CASE StartThread(c) \/ StartFails(c) \/ HeadFails(c) \/ StartUpload(c) \/ UploadEnds(c)
      BY <3>3, <1>d DEF StartThread, StartFails, HeadFails, StartUpload, UploadEnds, Goto, OthersStay
    <3>4. CASE ClientFallsSilent(c) \/ ClientResets(c) \/ UploadTimeout(c)
      BY <3>4, <1>d DEF ClientFallsSilent, ClientResets, UploadTimeout, Goto, OthersStay
    <3>5. QED
      BY <1>4, <3>1, <3>2, <3>3, <3>4
  <2>4. QED
    BY <2>1, <2>2, <2>3, KeepsSilent
<1>5. CASE ReceiveChunk(c) \/ CopyChunk(c)
  <2>1. UNCHANGED sent /\ phase[c] \in Silent BY <1>5 DEF ReceiveChunk, CopyChunk, Silent
  <2>2. sent[c] = <<>> BY <1>h, <2>1 DEF Heard
  <2>3. OthersStay(c) BY <1>5, <1>d DEF ReceiveChunk, CopyChunk, SetJob, OthersStay
  <2>4. QED
    BY <2>1, <2>2, <2>3, KeepsSilent
<1>6. CASE ScannerExits(c)
  <2>1. UNCHANGED <<sent, phase, pending>> /\ job[c].child = "running" BY <1>6 DEF ScannerExits
  <2>2. OthersStay(c) BY <1>6, <1>d DEF ScannerExits, OthersStay
  <2>3. Heard(phase[c], sent[c], pending[c], job'[c].child) BY <1>h, <2>1 DEF Heard
  <2>4. QED
    BY <2>1, <2>2, <2>3 DEF Hears
<1>7. CASE \/ RejectRequest(c) \/ RejectForm(c) \/ RejectSize(c) \/ RejectFile(c)
           \/ NoEngine(c) \/ ScanEnds(c)
  <2>1. PICK status : /\ SendJson(c, status)
                      /\ status = "report" => job[c].child = "done"
    BY <1>7 DEF RejectRequest, RejectForm, RejectSize, RejectFile, NoEngine, ScanEnds,
                RequestStatus, ScanResult
  <2>2. job' = job /\ \E from \in Silent : Goto(c, from, "cleanup")
    BY <1>7 DEF RejectRequest, RejectForm, RejectSize, RejectFile, NoEngine, ScanEnds, Silent
  <2>3. QED
    BY <1>j, <2>1, <2>2, SendsOnce
<1>8. CASE ScanTimeout(c)
  <2>1. PICK j : job' = [job EXCEPT ![c] = j] BY <1>8 DEF ScanTimeout
  <2>2. PICK status \in {"failure"} : SendJson(c, status) BY <1>8 DEF ScanTimeout
  <2>3. status # "report" BY <2>2
  <2>4. \E from \in Silent : Goto(c, from, "cleanup") BY <1>8 DEF ScanTimeout, Silent
  <2>5. QED
    BY <2>1, <2>2, <2>3, <2>4, SendsOnce
<1>9. CASE ReleaseScan(c)
  <2>1. UNCHANGED <<sent, pending>> /\ phase'[c] = "closing" /\ OthersStay(c)
    BY <1>9, <1>d DEF ReleaseScan, Goto, OthersStay
  <2>2. QED
    BY <2>1, KeepsSilent
<1>10. CASE Cleanup(c)
  <2>1. /\ UNCHANGED <<sent, pending>> /\ phase[c] = "cleanup" /\ phase'[c] = AfterFinally(c)
        /\ OthersStay(c)
    BY <1>10, <1>d DEF Cleanup, SetJob, Goto, OthersStay
  <2>2. Heard(AfterFinally(c), sent[c], pending[c], job'[c].child)
    BY <1>d, <1>h, <2>1 DEF Heard, AfterFinally, Silent
  <2>3. QED
    BY <2>1, <2>2 DEF Hears
<1>11. CASE UnlinkFails(c)
  <2>1. /\ UNCHANGED sent /\ phase[c] = "cleanup" /\ phase'[c] = "except"
        /\ pending'[c] = "unlink" /\ OthersStay(c)
    BY <1>11, <1>d DEF UnlinkFails, Goto, OthersStay
  <2>2. Heard("except", sent[c], "unlink", job'[c].child)
    BY <1>h, <2>1 DEF Heard, Silent
  <2>3. QED
    BY <2>1, <2>2 DEF Hears
<1>12. CASE HandleException(c)
  <2>1. /\ phase[c] = "except" /\ phase'[c] = "release" /\ UNCHANGED pending
        /\ \A d \in Conns \ {c} : phase'[d] = phase[d] /\ job'[d] = job[d]
    BY <1>12, <1>d DEF HandleException, SetJob, Goto
  <2>2. CASE UNCHANGED sent
    BY <2>1, <2>2, KeepsSilent DEF OthersStay
  <2>3. CASE \E whole \in BOOLEAN : Say(c, IF pending[c] = "timeout" THEN "408" ELSE "500", whole)
    <3>1. PICK status \in {"408", "500"}, whole \in BOOLEAN : Say(c, status, whole) BY <2>3
    <3>2. sent'[c] = Append(sent[c], Response(status, whole)) /\ OthersStay(c)
      BY <1>d, <2>1, <3>1 DEF Say, OthersStay
    <3>3. Len(sent[c]) <= 1 /\ (Len(sent[c]) = 1 => (sent[c][1].whole => pending[c] = "unlink"))
      BY <1>h, <2>1 DEF Heard
    <3>4. Response(status, whole).status = status BY DEF Response
    <3>5. /\ Len(sent'[c]) = Len(sent[c]) + 1 /\ Len(sent[c]) \in Nat
          /\ sent'[c][Len(sent[c]) + 1] = Response(status, whole)
          /\ Len(sent[c]) = 1 => sent'[c][1] = sent[c][1]
      BY <1>d, <3>2
    <3>6. Heard("release", sent'[c], pending[c], job'[c].child)
      <4>1. Len(sent'[c]) <= 2 /\ (Len(sent'[c]) = 2 => Len(sent[c]) = 1)
        <5> DEFINE n == Len(sent[c])
                   m == Len(sent'[c])
        <5>1. n \in Nat /\ n <= 1 /\ m = n + 1 BY <3>3, <3>5
        <5> HIDE DEF n, m
        <5>2. m <= 2 /\ (m = 2 => n = 1) BY <5>1
        <5>3. QED
          BY <5>2 DEF n, m
      <4>2. Len(sent'[c]) = 2 => /\ sent'[c][2].status \in {"408", "500"}
                                 /\ sent'[c][1].whole => pending[c] = "unlink"
        BY <3>1, <3>3, <3>4, <3>5, <4>1
      <4>3. QED
        BY <4>1, <4>2 DEF Heard, Silent
    <3>7. QED
      BY <2>1, <3>2, <3>6 DEF Hears
  <2>4. QED
    BY <1>12, <2>2, <2>3 DEF HandleException
<1>13. QED
  BY <1>1, <1>2, <1>3, <1>4, <1>5, <1>6, <1>7, <1>8, <1>9, <1>10, <1>11, <1>12
     DEF ConnStep, Hear, Serve, Fail

LEMMA HeardStep == TypeOK /\ HeardInv /\ [Next]_vars => HeardInv'
<1>1. ASSUME TypeOK, HeardInv, NEW c \in Conns, ConnStep(c) PROVE HeardInv'
  BY <1>1, ConnStepHears DEF Hears, OthersStay, HeardInv
<1>2. ASSUME TypeOK, HeardInv, NEW c \in Conns, Vanish(c) PROVE HeardInv'
  <2>1. Hears(c) BY <1>2, OneSaid DEF Vanish, Forget, TypeOK, Hears, OthersStay, Heard
  <2>2. QED
    BY <1>2, <2>1 DEF Hears, OthersStay, HeardInv
<1>3. ASSUME HeardInv, ServerDies \/ Restart \/ OrphanExits \/ UNCHANGED vars PROVE HeardInv'
  BY <1>3 DEF ServerDies, Restart, OrphanExits, HeardInv
<1>4. QED
  BY <1>1, <1>2, <1>3 DEF Next, ConnStep

(* ResponsesAreWhole: whatever fails on the way, a client reads at most one *)
(* whole response unless the file could not be unlinked after it, and a    *)
(* report only from a scanner that ended by itself with all of its output. *)
THEOREM ResponsesStayWhole == Spec => []ResponsesAreWhole
<1>1. Init => HeardInv BY OneSaid DEF Init, HeardInv, Heard
<1>2. TypeOK /\ HeardInv => ResponsesAreWhole
  <2>1. ASSUME TypeOK, HeardInv, NEW c \in Conns
        PROVE  /\ phase[c] = "cleanup" =>
                    \A i \in DOMAIN sent[c] : sent[c][i].status = "report" => job[c].child = "done"
               /\ Len(sent[c]) <= 2
               /\ Len(sent[c]) = 2 => /\ sent[c][2].status \in {"408", "500"}
                                      /\ sent[c][1].whole => pending[c] = "unlink"
    <3>1. Heard(phase[c], sent[c], pending[c], job[c].child) BY <2>1 DEF HeardInv
    <3>2. DOMAIN sent[c] = 1 .. Len(sent[c]) /\ Len(sent[c]) \in Nat BY <2>1 DEF TypeOK
    <3>3. ASSUME phase[c] = "cleanup", NEW i \in DOMAIN sent[c]
          PROVE  i = 1 /\ Len(sent[c]) = 1
      <4> DEFINE n == Len(sent[c])
      <4>1. n <= 1 /\ n \in Nat BY <3>1, <3>2, <3>3 DEF Heard
      <4>2. i \in 1 .. n BY <3>2
      <4> HIDE DEF n
      <4>3. i = 1 /\ n = 1 BY <4>1, <4>2
      <4>4. QED
        BY <4>3 DEF n
    <3>4. QED
      BY <3>1, <3>3 DEF Heard
  <2>2. QED
    BY <2>1 DEF ResponsesAreWhole, ReportsAreWhole, OneResponse
<1>3. QED
  BY <1>1, <1>2, InitType, TypeStep, HeardStep, PTL DEF Spec

-----------------------------------------------------------------------------
(* The page: a scan is under way only while its buttons are disabled, and  *)
(* what the page shows as results is what it keeps as the last result.     *)
Scans == [n : Nat, file : Apks, lang : Langs]

PageInv ==
  /\ currentLang \in Langs /\ submits \in Nat
  /\ DOMAIN resultsSection = {"visible", "content"}
  /\ analyzeCalls \subseteq Scans
  /\ analyzeCalls # {} => busy
  /\ \A a, b \in analyzeCalls : a = b
  /\ \A a \in analyzeCalls : a.n = submits /\ a.lang = currentLang
  /\ LET content == resultsSection.content
     IN  content.kind = "results" /\ resultsSection.visible =>
           /\ content.scan \in Scans /\ lastResult = content.scan /\ content.scan.n = submits
           /\ content.scan.lang = currentLang /\ content.lang = currentLang

LEMMA PageStep ==
  ASSUME PageInv, [PageNext]_page_vars PROVE PageInv'
<1>1. CASE Reload
  <2>1. /\ currentLang' = "zh" /\ submits' = submits /\ analyzeCalls' = {}
        /\ resultsSection' = [visible |-> FALSE, content |-> Blank]
    BY <1>1 DEF Reload, FreshPage
  <2> QED BY <2>1 DEF PageInv, Langs
<1>2. CASE ChooseFile \/ DropFile
  <2>1. UNCHANGED <<currentLang, lastResult, busy, resultsSection, analyzeCalls, submits>>
    BY <1>2 DEF ChooseFile, DropFile, requests
  <2> QED BY <2>1 DEF PageInv
<1>3. ASSUME NEW language \in Langs, switchLang(language) PROVE PageInv'
  <2>1. /\ ~busy /\ currentLang' = language /\ UNCHANGED <<busy, analyzeCalls, submits>>
        /\ resultsSection' = IF lastResult = NoScan THEN resultsSection
              ELSE [resultsSection EXCEPT
                      !.content = [kind |-> "notice", lang |-> language, scan |-> NoScan]]
    BY <1>3 DEF switchLang, ButtonsEnabled, requests
  <2>2. analyzeCalls = {} BY <2>1 DEF PageInv
  <2>3. CASE lastResult = NoScan
    <3>1. ~(resultsSection.content.kind = "results" /\ resultsSection.visible)
      BY <2>3, FilesAssumption DEF PageInv, Scans
    <3> QED BY <2>1, <2>2, <2>3, <3>1 DEF PageInv
  <2>4. CASE lastResult # NoScan
    <3>1. resultsSection'.content.kind = "notice" /\ DOMAIN resultsSection' = {"visible", "content"}
      BY <2>1, <2>4 DEF PageInv
    <3> QED BY <2>1, <2>2, <3>1 DEF PageInv
  <2> QED BY <2>3, <2>4
<1>4. CASE Submit
  <2> DEFINE scan == [n |-> submits + 1, file |-> Chosen, lang |-> currentLang]
  <2>1. /\ ~busy /\ Chosen \in Apks /\ submits' = submits + 1 /\ currentLang' = currentLang
        /\ analyzeCalls' = analyzeCalls \cup {scan} /\ busy' = TRUE
        /\ resultsSection' = [resultsSection EXCEPT !.visible = FALSE]
    BY <1>4 DEF Submit, ButtonsEnabled
  <2>2. analyzeCalls' = {scan} BY <2>1 DEF PageInv
  <2>3. scan \in Scans /\ scan.n = submits' /\ scan.lang = currentLang' /\ submits' \in Nat
    BY <2>1 DEF PageInv, Scans
  <2> HIDE DEF scan
  <2>4. resultsSection'.visible = FALSE /\ DOMAIN resultsSection' = {"visible", "content"}
    BY <2>1 DEF PageInv
  <2> QED BY <2>1, <2>2, <2>3, <2>4 DEF PageInv
<1>5. CASE StatusAnswered
  <2>1. UNCHANGED <<currentLang, lastResult, busy, resultsSection, analyzeCalls, submits>>
    BY <1>5 DEF StatusAnswered
  <2> QED BY <2>1 DEF PageInv
<1>6. ASSUME NEW scan \in analyzeCalls, displayResults(scan) PROVE PageInv'
  <2>1. /\ analyzeCalls' = analyzeCalls \ {scan} /\ lastResult' = scan
        /\ UNCHANGED <<currentLang, submits>>
        /\ resultsSection' = [visible |-> TRUE,
              content |-> [kind |-> "results", lang |-> currentLang, scan |-> scan]]
    BY <1>6 DEF displayResults, Finished
  <2>2. analyzeCalls' = {} BY <2>1 DEF PageInv
  <2>3. scan \in Scans /\ scan.n = submits /\ scan.lang = currentLang BY DEF PageInv
  <2> QED BY <2>1, <2>2, <2>3 DEF PageInv
<1>7. ASSUME NEW scan \in analyzeCalls, showError(scan) PROVE PageInv'
  <2>1. /\ analyzeCalls' = analyzeCalls \ {scan} /\ UNCHANGED <<currentLang, submits>>
        /\ resultsSection' = [visible |-> TRUE,
              content |-> [kind |-> "error", lang |-> currentLang, scan |-> scan]]
    BY <1>7 DEF showError, Finished
  <2>2. analyzeCalls' = {} BY <2>1 DEF PageInv
  <2> QED BY <2>1, <2>2 DEF PageInv
<1>8. CASE UNCHANGED page_vars
  <2>1. UNCHANGED <<currentLang, lastResult, busy, resultsSection, analyzeCalls, submits>>
    BY <1>8 DEF page_vars, requests
  <2> QED BY <2>1 DEF PageInv
<1> QED BY <1>1, <1>2, <1>3, <1>4, <1>5, <1>6, <1>7, <1>8 DEF PageNext, AnalyzeAnswered

(* The results on the screen are those of the scan started last, and their *)
(* findings are in the language of the labels around them.                 *)
THEOREM ShownIsCurrent == PageSpec => []ResultsAreCurrent
<1>1. PageInit => PageInv
  BY DEF PageInit, PageInv, Langs, Blank
<1>2. PageInv /\ [PageNext]_page_vars => PageInv' BY PageStep
<1>3. PageInv => ResultsAreCurrent
  <2> SUFFICES ASSUME PageInv PROVE Cardinality(analyzeCalls) <= 1
    BY DEF PageInv, ResultsAreCurrent
  <2>1. CASE analyzeCalls = {} BY <2>1, FS_EmptySet
  <2>2. CASE analyzeCalls # {}
    <3>1. PICK a \in analyzeCalls : analyzeCalls = {a} BY <2>2 DEF PageInv
    <3>2. Cardinality({a}) = 1 BY FS_Singleton
    <3> QED BY <3>1, <3>2
  <2> QED BY <2>1, <2>2
<1> QED BY <1>1, <1>2, <1>3, PTL DEF PageSpec
=============================================================================
