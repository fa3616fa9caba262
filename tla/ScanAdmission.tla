---------------------------- MODULE ScanAdmission ----------------------------
(***************************************************************************)
(* What the service promises about admission, without threads, permits,    *)
(* disks or processes: at most MaxScans requests are being scanned, and a  *)
(* request is turned away as "busy" only at a moment when that many are.   *)
(***************************************************************************)
EXTENDS Naturals, FiniteSets

CONSTANTS
  Requests,    \* what may ask for a scan
  Capacity     \* how many may be inside at once

VARIABLES
  active,      \* requests inside
  refused      \* requests that were told the service is busy

Init == active = {} /\ refused = {}

Admit(r) ==
  /\ r \notin active \cup refused
  /\ Cardinality(active) < Capacity
  /\ active' = active \cup {r}
  /\ UNCHANGED refused

Refuse(r) ==
  /\ r \notin active \cup refused
  /\ Cardinality(active) = Capacity
  /\ refused' = refused \cup {r}
  /\ UNCHANGED active

(* A scan ends, or the service it ran in does. *)
Finish(r) ==
  /\ r \in active
  /\ active' = active \ {r}
  /\ UNCHANGED refused

(* A client that was turned away has gone, and may come back. *)
Depart(r) ==
  /\ r \in refused
  /\ refused' = refused \ {r}
  /\ UNCHANGED active

Next == \E r \in Requests : Admit(r) \/ Refuse(r) \/ Finish(r) \/ Depart(r)

Spec == Init /\ [][Next]_<<active, refused>>
=============================================================================
