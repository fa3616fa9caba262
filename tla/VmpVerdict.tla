----------------------------- MODULE VmpVerdict -----------------------------
(***************************************************************************)
(* vmp_detector.cpp: what collect_from_stream makes of a dispatch site,    *)
(* and what finalize_result concludes from all sites of a library.         *)
(* The registers and instructions of a site are abstracted to the facts    *)
(* the code derives from them. Scores are in hundredths, the weighted sum  *)
(* of them in ten thousandths; addresses in pages of 8 KiB, the sites of a *)
(* page lying within 4 KiB of each other.                                  *)
(***************************************************************************)
EXTENDS Integers, SequencesExt

CONSTANTS
  Catalogue,       \* the kinds of site there are
  Repeats,         \* how many sites of a kind are met in a row
  Considered,      \* the contexts the properties look at
  Steps            \* how many kinds are met one after the other

(* A site as the passes over its basic block see it: the opcode loads       *)
(* before it, the nearest first, the load of its target pointer, and how    *)
(* the target comes about.                                                 *)
Loads == [advances : BOOLEAN, reaches : BOOLEAN, vip : STRING]
SiteFacts == [branch : {"br", "blr", "ret", "loop"}, loads : Seq(Loads),
          pointer : {"none", "fixed", "advancing"}, target_loaded : BOOLEAN,
          target_computed : BOOLEAN, decoded : BOOLEAN, adr : BOOLEAN, chain : BOOLEAN,
          back_edge : BOOLEAN, shared_context : BOOLEAN, ip_registers : BOOLEAN,
          table : STRING, page : Nat]

ASSUME CatalogueAssumption == Catalogue \subseteq SiteFacts /\ Repeats \subseteq Nat /\ Steps \in Nat

VARIABLES candidates,                    \* the bag of candidates
          switch_like_sites, vtable_sites,
          tallies,                       \* what finalize_result counts, if run now
          steps
verdict_vars == <<candidates, switch_like_sites, vtable_sites, tallies, steps>>

-----------------------------------------------------------------------------
(* collect_from_stream                                                     *)

(* The nearest opcode load that advances its pointer and reaches the        *)
(* target, or else the nearest that advances.                              *)
Advancing(s) == SelectSeq(s.loads, LAMBDA l : l.advances)
Reaching(s) == SelectSeq(Advancing(s), LAMBDA l : s.branch = "loop" \/ l.reaches)
OpcodeFetch(s) == IF Reaching(s) # <<>> THEN Head(Reaching(s)) ELSE Head(Advancing(s))

DirectFetch(s) == s.branch # "loop" /\ s.pointer = "advancing"
Fetched(s) == DirectFetch(s) \/ Advancing(s) # <<>>
Advanced(s) == DirectFetch(s) \/ (Advancing(s) # <<>> /\ OpcodeFetch(s).advances)
TaintReaches(s) == ~DirectFetch(s) /\ Advancing(s) # <<>> /\ OpcodeFetch(s).reaches
TableLinked(s) == TaintReaches(s)
TargetLoaded(s) == DirectFetch(s) \/ s.target_loaded
VipReg(s) == IF DirectFetch(s) THEN s.table ELSE IF Fetched(s) THEN OpcodeFetch(s).vip ELSE ""

SwitchLike(s) == Fetched(s) /\ ~Advanced(s) /\ TaintReaches(s) /\ s.branch = "br"
Vtable(s) == s.branch = "blr" /\ TargetLoaded(s) /\ ~Fetched(s) /\ ~Advanced(s)

Strong(s) ==
  \/ Fetched(s) /\ Advanced(s) /\ TargetLoaded(s) /\ TableLinked(s)
  \/ DirectFetch(s) /\ s.branch # "blr"
Medium(s) ==
  /\ ~Strong(s)
  /\ \/ /\ Fetched(s) /\ Advanced(s) /\ (TargetLoaded(s) \/ s.target_computed)
        /\ TableLinked(s) \/ s.decoded
     \/ DirectFetch(s) /\ s.branch = "blr"
Trampoline(s) ==
  ~Fetched(s) /\ s.branch = "br" /\ s.adr /\ (TargetLoaded(s) \/ s.target_computed)
IpThunk(s) == DirectFetch(s) /\ s.ip_registers /\ ~s.back_edge /\ ~s.shared_context

ConditionalDispatch(s) == s.branch = "loop" /\ Fetched(s) /\ s.chain
Dispatch(s) ==
  /\ s.branch # "loop" /\ ~SwitchLike(s) /\ ~Vtable(s)
  /\ Strong(s) \/ Medium(s) \/ Trampoline(s)

InternalCandidate(s) ==
  IF s.branch = "loop"
  THEN [strong |-> FALSE, medium |-> TRUE, conditional |-> TRUE, trampoline |-> FALSE,
        call |-> FALSE, ret |-> FALSE, table_linked |-> FALSE, vip_advanced |-> TRUE,
        direct |-> FALSE, back_edge |-> TRUE, shared_context |-> s.shared_context,
        vip |-> VipReg(s), table |-> "", page |-> s.page]
  ELSE [strong |-> Strong(s) /\ ~IpThunk(s), medium |-> Medium(s) /\ ~IpThunk(s),
        conditional |-> FALSE, trampoline |-> Trampoline(s) \/ IpThunk(s),
        call |-> s.branch = "blr", ret |-> s.branch = "ret",
        table_linked |-> TableLinked(s), vip_advanced |-> Advanced(s),
        direct |-> DirectFetch(s), back_edge |-> s.back_edge,
        shared_context |-> s.shared_context,
        vip |-> VipReg(s), table |-> s.table, page |-> s.page]

-----------------------------------------------------------------------------
(* finalize_result: the tallies                                            *)
Count(bag, P(_)) ==
  Cardinality(UNION {{c} \X (1 .. bag[c]) : c \in {c \in BagToSet(bag) : P(c)}})

(* The most candidates of one group within a span of pages. *)
Densest(bag, P(_), Group(_), span) ==
  Max({0} \cup {Count(bag, LAMBDA c : P(c) /\ Group(c) = Group(d) /\ c.page \in d.page .. d.page + span) :
                  d \in {d \in BagToSet(bag) : P(d)}})

Classic(c) == ~c.conditional /\ ~c.trampoline /\ (c.strong \/ c.medium)

(* Within 64 KiB, 16 KiB and 4 KiB. *)
max_local_vip_sites(bag, strong_only) ==
  Densest(bag, LAMBDA c : Classic(c) /\ c.vip # "" /\ (strong_only => c.strong),
          LAMBDA c : c.vip, 7)
max_local_strong_family(bag) ==
  Densest(bag, LAMBDA c : Classic(c) /\ c.strong /\ c.vip # "",
          LAMBDA c : <<c.vip, c.table>>, 1)
cluster_size(bag) == Densest(bag, LAMBDA c : TRUE, LAMBDA c : TRUE, 0)

Counted(bag, switches, vtables) ==
  [strong |-> Count(bag, LAMBDA c : c.strong),
   eligible |-> Count(bag, LAMBDA c : c.strong \/ c.medium \/ c.conditional),
   classic |-> Count(bag, Classic),
   classic_medium |-> Count(bag, LAMBDA c : Classic(c) /\ c.medium),
   classic_back_edges |-> Count(bag, LAMBDA c : Classic(c) /\ c.back_edge),
   classic_shared_context |-> Count(bag, LAMBDA c : Classic(c) /\ c.shared_context),
   table_linked |-> Count(bag, LAMBDA c : c.table_linked),
   advanced |-> Count(bag, LAMBDA c : c.vip_advanced),
   direct |-> Count(bag, LAMBDA c : c.direct /\ ~c.trampoline),
   direct_call |-> Count(bag, LAMBDA c : c.direct /\ c.call /\ ~c.trampoline),
   trampoline |-> Count(bag, LAMBDA c : c.trampoline),
   call |-> Count(bag, LAMBDA c : c.call), ret |-> Count(bag, LAMBDA c : c.ret),
   conditional |-> Count(bag, LAMBDA c : c.conditional),
   cycle |-> \E c \in BagToSet(bag) : c.strong /\ c.table_linked /\ c.back_edge,
   closed |-> \E c \in BagToSet(bag) :
                c.strong /\ c.table_linked /\ c.back_edge /\ c.shared_context,
   vip |-> max_local_vip_sites(bag, FALSE), strong_vip |-> max_local_vip_sites(bag, TRUE),
   family |-> max_local_strong_family(bag), cluster |-> cluster_size(bag),
   switches |-> switches, vtables |-> vtables]

-----------------------------------------------------------------------------
(* finalize_result: the structure score, of the tallies t                  *)
Capped(m, n) == IF m <= n THEN m ELSE n
When(condition, weight) == IF condition THEN weight ELSE 0

(* tier: the value of the highest step reached. *)
ExactRung(value, ladder) ==                                        \* mutant
  Max({0} \cup {rung[2] : rung \in {r \in ToSet(ladder) : value = r[1]}})
tier(value, ladder) ==
  Max({0} \cup {rung[2] : rung \in {r \in ToSet(ladder) : value >= r[1]}})

DataflowFamily(t) == Capped(52,
  tier(t.strong, <<<<1, 13>>, <<2, 25>>, <<3, 34>>, <<4, 44>>>>)
  + tier(t.classic_medium, <<<<2, 4>>, <<3, 7>>, <<5, 10>>, <<8, 12>>>>)
  + When(t.table_linked >= 2 \/ t.direct >= 2, 8))
EcologyFamily(t) == Capped(25,
  tier(t.classic, <<<<2, 4>>, <<3, 8>>, <<4, 11>>, <<6, 14>>>>)
  + tier(t.vip, <<<<2, 3>>, <<3, 6>>, <<4, 8>>, <<6, 9>>>>)
  + tier(t.cluster, <<<<3, 3>>, <<4, 5>>, <<6, 6>>, <<10, 7>>>>))
StateFamily(t) == Capped(20,
  tier(t.classic_shared_context, <<<<1, 4>>, <<2, 6>>, <<3, 8>>, <<5, 10>>>>)
  + tier(t.classic_back_edges, <<<<1, 3>>, <<2, 5>>, <<3, 7>>, <<5, 8>>>>)
  + When(t.classic >= 4, 4) + When((t.call > 0 \/ t.ret > 0) /\ t.classic >= 3, 3))

ClassicStructure(t) ==
  Max({Capped(100, DataflowFamily(t) + EcologyFamily(t) + StateFamily(t)),
       When(t.strong >= 1 /\ t.table_linked >= 1 /\ t.advanced >= 1, 56),
       When(t.cycle, 70), When(t.closed, 78)})
TrampolineStructure(t) == Capped(62,
  tier(t.trampoline, <<<<4, 20>>, <<8, 34>>, <<12, 43>>, <<20, 50>>>>)
  + When(t.trampoline >= 4 /\ t.cluster >= 4, 10))
ConditionalStructure(t) ==
  tier(t.conditional, <<<<1, 18>>, <<2, 28>>, <<3, 36>>, <<5, 42>>>>)
  + When(t.conditional >= 2 /\ t.vip >= 2, 8)
StructureScore(t) == Max({ClassicStructure(t), TrampolineStructure(t), ConditionalStructure(t)})

Tallies(bag, switches, vtables) ==
  LET t == Counted(bag, switches, vtables)
  IN [f \in DOMAIN t \cup {"structure"} |-> IF f = "structure" THEN StructureScore(t) ELSE t[f]]
Structure(t) == t.structure

-----------------------------------------------------------------------------
(* finalize_result: the verdict in a context x. analyze_so never sets      *)
(* custom_linker_marker, and known_runtime says that two of the classes of *)
(* runtime evidence are there. x.rounds_down tells how a sum that meets a   *)
(* threshold exactly comes out in doubles.                                 *)
Contexts == [runtime_evidence_classes : 0 .. 3, known_non_vm_framework : BOOLEAN,
             vmp_metadata_marker : BOOLEAN, custom_linker_likely : BOOLEAN,
             has_large_entropy_blob : BOOLEAN, few_imports_and_init_array : BOOLEAN,
             code_obscured_by_packing : BOOLEAN, control_flow_obfuscation_likely : BOOLEAN,
             rounds_down : BOOLEAN]

ASSUME ContextsAssumption == Considered \subseteq Contexts

Reaches(x, value, threshold) == value > threshold \/ (value = threshold /\ ~x.rounds_down)

ConfirmedRuntime(x) == x.runtime_evidence_classes >= 2
WeakRuntime(x) == x.runtime_evidence_classes = 1
DecisiveClosed(t) ==
  \/ t.closed
  \/ /\ t.strong >= 4 /\ t.table_linked >= 3 /\ t.family >= 3
     /\ t.classic_shared_context >= 2 /\ t.classic_back_edges >= 2

MetadataAbsent(t, x) == Capped(100,                                \* mutant
  When(~x.vmp_metadata_marker, 45) + When(x.custom_linker_likely, 15)
  + When(x.has_large_entropy_blob, 6) + When(x.few_imports_and_init_array, 4)
  + When(~ConfirmedRuntime(x) /\ Structure(t) >= 70, 10))
Intent(t, x) == Capped(100,
  When(x.vmp_metadata_marker, 45) + When(x.custom_linker_likely, 15)
  + When(x.has_large_entropy_blob, 6) + When(x.few_imports_and_init_array, 4)
  + When(~ConfirmedRuntime(x) /\ Structure(t) >= 70, 10))

NeverTogether(t, x) == FALSE                                       \* mutant
Coexistence(t, x) == ConfirmedRuntime(x) /\ DecisiveClosed(t) /\ x.vmp_metadata_marker

RuntimePenalty(t, x) ==
  IF ~Reaches(x, Structure(t), 25) THEN 0
  ELSE IF ConfirmedRuntime(x) THEN IF Coexistence(t, x) THEN 10 ELSE 30
  ELSE When(WeakRuntime(x), 8)
SwitchPenalty(t) ==
  IF t.eligible = 0 THEN When(t.switches > 0, 6) + When(t.switches >= 3, 9)
                           + When(t.vtables > 0, 4) + When(t.vtables >= 4, 6)
  ELSE When(t.eligible < 3 /\ t.strong < 3 /\ (t.switches > 0 \/ t.vtables > 0), 4)
Penalty(t, x) == Capped(45,
  RuntimePenalty(t, x)
  + When(t.table_linked = 0 /\ t.direct_call >= 4, IF x.vmp_metadata_marker THEN 4 ELSE 12)
  + SwitchPenalty(t)
  + When(t.eligible = 1 /\ ~x.vmp_metadata_marker, 8)
  + When(x.control_flow_obfuscation_likely /\ t.strong <= 1 /\ ~x.vmp_metadata_marker, 22))

Score(t, x) == 82 * Structure(t) + 18 * Intent(t, x) - 100 * Penalty(t, x)

ClassicGate(t) ==
  /\ t.strong >= 3 /\ t.family >= 3 /\ t.table_linked >= 2
  /\ t.classic_shared_context >= 1 \/ t.classic_back_edges >= 1
MetadataGate(t, x) == x.vmp_metadata_marker /\ t.strong >= 2 /\ t.family >= 2
MetadataThreadedGate(t, x) ==
  /\ x.vmp_metadata_marker /\ t.direct >= 8 /\ t.vip >= 4
  /\ t.classic_shared_context >= 3 \/ t.classic_back_edges >= 3
AnyGate(t, x) ==
  LET intent == Intent(t, x)
  IN  \/ ClassicGate(t) \/ MetadataGate(t, x) \/ MetadataThreadedGate(t, x)
      \/ intent >= 35 /\ t.strong >= 4 /\ t.family >= 3 /\ t.direct >= 3
      \/ intent >= 35 /\ t.trampoline >= 8 /\ t.cluster >= 6
      \/ intent >= 45 /\ t.conditional >= 2 /\ t.vip >= 2
      \/ intent >= 45 /\ t.strong >= 3 /\ t.strong_vip >= 2
      \/ intent >= 45 /\ t.cycle

RuntimeOverride(t, x) == ~ConfirmedRuntime(x) \/ Coexistence(t, x) \/ Intent(t, x) >= 55
WeakRuntimeOverride(t, x) == ~WeakRuntime(x) \/ (DecisiveClosed(t) /\ Intent(t, x) >= 15)
PackingOverride(t, x) ==
  ~x.code_obscured_by_packing \/ (x.vmp_metadata_marker /\ Structure(t) >= 70)
HighPrecision(t, x) ==
  \/ x.vmp_metadata_marker
  \/ t.strong >= 5
  \/ /\ ~x.known_non_vm_framework /\ t.strong >= 2 /\ t.vip >= 8
     /\ Intent(t, x) >= 45 /\ (t.cycle \/ t.closed)
VerdictThreshold(t, x) ==
  IF MetadataThreadedGate(t, x) THEN 5600 ELSE IF MetadataGate(t, x) THEN 6000 ELSE 6700

Possible(t, x) ==
  /\ RuntimeOverride(t, x) /\ WeakRuntimeOverride(t, x) /\ PackingOverride(t, x)
  /\ HighPrecision(t, x) /\ AnyGate(t, x)
  /\ Reaches(x, Score(t, x), VerdictThreshold(t, x))

Suspicious(t, x) ==
  /\ ~(x.control_flow_obfuscation_likely /\ t.strong <= 1 /\ ~x.vmp_metadata_marker)
  /\ \/ t.strong > 0 \/ x.vmp_metadata_marker
     \/ x.custom_linker_likely /\ Intent(t, x) >= 45
  /\ Reaches(x, Score(t, x), 5000) \/ Reaches(x, Structure(t), 55)

TruncatedIsNegative(t, x, truncated) ==                            \* mutant
  IF x.code_obscured_by_packing /\ ~Possible(t, x) THEN "INCONCLUSIVE_PACKED"
  ELSE IF Possible(t, x) THEN "LIKELY_VMP"
  ELSE IF ConfirmedRuntime(x) /\ ~Coexistence(t, x) THEN "VM_LIKE_INTERPRETER"
  ELSE IF truncated THEN "PARTIAL_ANALYSIS"
  ELSE IF Suspicious(t, x) THEN "SUSPICIOUS_VM_STRUCTURE" ELSE "NO_VMP_EVIDENCE"
Outcome(t, x, truncated) ==
  IF x.code_obscured_by_packing /\ ~Possible(t, x) THEN "INCONCLUSIVE_PACKED"
  ELSE IF Possible(t, x) THEN "LIKELY_VMP"
  ELSE IF truncated THEN "PARTIAL_ANALYSIS"
  ELSE IF ConfirmedRuntime(x) /\ ~Coexistence(t, x)
  THEN IF Reaches(x, Structure(t), 25) THEN "VM_LIKE_INTERPRETER" ELSE "NO_VMP_EVIDENCE"
  ELSE IF Suspicious(t, x) THEN "SUSPICIOUS_VM_STRUCTURE" ELSE "NO_VMP_EVIDENCE"

-----------------------------------------------------------------------------
VerdictInit == candidates = EmptyBag /\ switch_like_sites = 0 /\ vtable_sites = 0
        /\ tallies = Tallies(EmptyBag, 0, 0) /\ steps = 0

(* One turn of collect_from_stream, for n sites of a kind. *)
Collect(s, n) ==
  /\ steps < Steps
  /\ steps' = steps + 1
  /\ candidates' = IF ConditionalDispatch(s) \/ Dispatch(s)
                   THEN candidates (+) [c \in {InternalCandidate(s)} |-> n] ELSE candidates
  /\ switch_like_sites' = switch_like_sites + When(s.branch # "loop" /\ SwitchLike(s), n)
  /\ vtable_sites' = vtable_sites + When(s.branch # "loop" /\ ~SwitchLike(s) /\ Vtable(s), n)
  /\ tallies' = Tallies(candidates', switch_like_sites', vtable_sites')

VerdictNext == \E s \in Catalogue, n \in Repeats : Collect(s, n)
VerdictSpec == VerdictInit /\ [][VerdictNext]_verdict_vars

-----------------------------------------------------------------------------
Rank(outcome) ==
  CASE outcome = "LIKELY_VMP" -> 2 [] outcome = "SUSPICIOUS_VM_STRUCTURE" -> 1 [] OTHER -> 0
Verdict(t, x) == Rank(Outcome(t, x, FALSE))

(* More dispatch sites that close the path to their handlers never lower   *)
(* the verdict, though penalties and gates depend on the numbers of sites  *)
(* in both directions. (Virtual calls, and many callbacks through advanced *)
(* pointers, may: they are alternative explanations.)                      *)
EvidenceNeverExonerates ==
  [][tallies'.strong > tallies.strong =>
       \A x \in Considered : Verdict(tallies', x) >= Verdict(tallies, x)]_verdict_vars

(* A sign of protection never lowers the verdict, and an alternative       *)
(* explanation never raises it.                                            *)
ContextIsMonotone ==
  \A x \in Considered :
    LET verdict == Verdict(tallies, x)
    IN  /\ Verdict(tallies, [x EXCEPT !.vmp_metadata_marker = TRUE]) >= verdict
        /\ Verdict(tallies, [x EXCEPT !.custom_linker_likely = TRUE]) >= verdict
        /\ Verdict(tallies, [x EXCEPT !.runtime_evidence_classes = 0]) >= verdict
        /\ Verdict(tallies, [x EXCEPT !.known_non_vm_framework = TRUE]) <= verdict
        /\ Verdict(tallies, [x EXCEPT !.control_flow_obfuscation_likely = TRUE]) <= verdict
        /\ Verdict(tallies, [x EXCEPT !.code_obscured_by_packing = TRUE]) <= verdict

(* vmp_detector.cpp:929: without protection metadata, generic markers and  *)
(* up to four local dispatch sites never make a library a likely VMP.      *)
FewSitesAreNotEnough ==
  \A x \in Considered : \A truncated \in BOOLEAN :
    Outcome(tallies, x, truncated) = "LIKELY_VMP" /\ ~x.vmp_metadata_marker => tallies.strong >= 5

(* A decisive closed dispatcher together with protection metadata is never *)
(* explained away, by whatever runtime or framework.                       *)
CoexistenceKept ==
  \A x \in Considered :
    x.vmp_metadata_marker /\ DecisiveClosed(tallies) /\ ~x.code_obscured_by_packing
      => Verdict(tallies, x) >= 1

(* What is known of the library explains a verdict in one direction only,  *)
(* and not beyond that.                                                    *)
ExplanationsHaveLimits == ContextIsMonotone /\ CoexistenceKept

(* An incomplete or obscured scan gives no negative verdict, nor does it   *)
(* lose a positive one; and a confirmed runtime is no mere suspicion.      *)
IncompleteIsInconclusive ==
  \A x \in Considered :
    LET whole == Outcome(tallies, x, FALSE)
        part  == Outcome(tallies, x, TRUE)
    IN  /\ (part = "LIKELY_VMP") = (whole = "LIKELY_VMP")
        /\ part \in {"LIKELY_VMP", "PARTIAL_ANALYSIS", "INCONCLUSIVE_PACKED"}
        /\ x.code_obscured_by_packing => whole \in {"LIKELY_VMP", "INCONCLUSIVE_PACKED"}
        /\ ConfirmedRuntime(x) /\ ~Coexistence(tallies, x) => whole # "SUSPICIOUS_VM_STRUCTURE"
=============================================================================
