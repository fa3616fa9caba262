--------------------------- MODULE LibraryProofs ---------------------------
(***************************************************************************)
(* What is said of a library grows with the evidence, whatever texts and   *)
(* names there are: more of it never makes a loader look innocent, and the *)
(* risk falls only for a reason. The family of runtimes that is reported   *)
(* is the one with the most evidence, and the report does not depend on    *)
(* the tables that symbols are read from.                                  *)
(***************************************************************************)
EXTENDS LibraryScores, FiniteSetTheorems, WellFoundedInduction, TLAPS

Finite(e) == IsFiniteSet(e.texts) /\ IsFiniteSet(e.imports)
ContextGrows(x, y) ==
  /\ x.known_hook_framework => y.known_hook_framework
  /\ x.exact_hook_basename => y.exact_hook_basename
  /\ x.protecting_basename => y.protecting_basename
  /\ x.high_entropy_payload => y.high_entropy_payload
  /\ x.packed_container => y.packed_container
  /\ x.code_obscured_by_packing = y.code_obscured_by_packing
Grows(e, d) ==
  /\ Finite(e) /\ Finite(d) /\ ContextGrows(e.context, d.context)
  /\ e.texts \subseteq d.texts /\ e.imports \subseteq d.imports

LEMMA HitsNat ==
  ASSUME NEW e, Finite(e), NEW kind
  PROVE  Hits(kind, e) \in Nat /\ ImportHits(kind, e) \in Nat
<1>1. IsFiniteSet(kind \cap e.texts) /\ IsFiniteSet(kind \cap e.imports)
  BY FS_Intersection DEF Finite
<1> QED BY <1>1, FS_CardinalityType DEF Hits, ImportHits

LEMMA HitsGrow ==
  ASSUME NEW e, NEW d, Grows(e, d), NEW kind
  PROVE  /\ Hits(kind, e) \in Nat /\ Hits(kind, d) \in Nat /\ Hits(kind, e) <= Hits(kind, d)
         /\ ImportHits(kind, e) \in Nat /\ ImportHits(kind, d) \in Nat
         /\ ImportHits(kind, e) <= ImportHits(kind, d)
         /\ HasImport(kind, e) => HasImport(kind, d)
<1>1. /\ kind \cap e.texts \subseteq kind \cap d.texts
      /\ kind \cap e.imports \subseteq kind \cap d.imports
  BY DEF Grows
<1>2. IsFiniteSet(kind \cap d.texts) /\ IsFiniteSet(kind \cap d.imports)
  BY FS_Intersection DEF Grows, Finite
<1>3. /\ Cardinality(kind \cap e.texts) <= Cardinality(kind \cap d.texts)
      /\ Cardinality(kind \cap e.imports) <= Cardinality(kind \cap d.imports)
  BY <1>1, <1>2, FS_Subset
<1>4. Finite(e) /\ Finite(d) BY DEF Grows
<1> QED BY <1>1, <1>3, <1>4, HitsNat DEF Hits, ImportHits, HasImport

(* Each axis, once there, stays. *)
LEMMA AxesGrow ==
  ASSUME NEW e, NEW d, Grows(e, d)
  PROVE  /\ Parser(e) => Parser(d)
         /\ Relocation(e) => Relocation(d)
         /\ Dependency(e) => Dependency(d)
         /\ Mapping(e) => Mapping(d)
         /\ FileSource(e) => FileSource(d)
         /\ Constructor(e) => Constructor(d)
         /\ LoaderIdentity(e) => LoaderIdentity(d)
         /\ Payload(e) => Payload(d)
         /\ ProtectionIdentity(e) => ProtectionIdentity(d)
         /\ HookIdentity(e) => HookIdentity(d)
         /\ HookAlternative(e) => HookAlternative(d)
<1>1. \A k : /\ Hits(k, e) \in Nat /\ Hits(k, d) \in Nat /\ Hits(k, e) <= Hits(k, d)
             /\ ImportHits(k, e) \in Nat /\ ImportHits(k, d) \in Nat
             /\ ImportHits(k, e) <= ImportHits(k, d)
             /\ HasImport(k, e) => HasImport(k, d)
  BY HitsGrow
<1>2. Parser(e) => Parser(d) BY <1>1 DEF Parser
<1>3. Relocation(e) => Relocation(d) BY <1>1 DEF Relocation
<1>4. DynamicSymbols(e) => DynamicSymbols(d) BY <1>1 DEF DynamicSymbols
<1>5. Dependency(e) => Dependency(d) BY <1>1, <1>2, <1>3, <1>4 DEF Dependency
<1>6. Mapping(e) => Mapping(d) BY <1>1 DEF Mapping
<1>7. FileSource(e) => FileSource(d) BY <1>1 DEF FileSource
<1>8. Constructor(e) => Constructor(d) BY <1>1 DEF Constructor
<1>9. LoaderIdentity(e) => LoaderIdentity(d) BY <1>1 DEF LoaderIdentity
<1>10. Payload(e) => Payload(d) BY <1>1 DEF Payload
<1>11. /\ e.context.protecting_basename => d.context.protecting_basename
       /\ e.context.known_hook_framework => d.context.known_hook_framework
       /\ e.context.exact_hook_basename => d.context.exact_hook_basename
  BY DEF Grows, ContextGrows
<1>12. ProtectionIdentity(e) => ProtectionIdentity(d)
  <2>1. /\ Hits(ProtectionNames, e) \in Nat /\ Hits(ProtectionNames, d) \in Nat
        /\ Hits(ProtectionNames, e) <= Hits(ProtectionNames, d)
    BY <1>1
  <2>2. /\ One(e.context.protecting_basename) \in 0 .. 1
        /\ One(d.context.protecting_basename) \in 0 .. 1
        /\ One(e.context.protecting_basename) <= One(d.context.protecting_basename)
    BY <1>11 DEF One
  <2> QED BY <2>1, <2>2 DEF ProtectionIdentity
<1>13. HookIdentity(e) => HookIdentity(d) BY <1>1, <1>11 DEF HookIdentity
<1>14. HookAlternative(e) => HookAlternative(d) BY <1>1, <1>13 DEF HookAlternative
<1> QED BY <1>2, <1>3, <1>5, <1>6, <1>7, <1>8, <1>9, <1>10, <1>12, <1>13, <1>14

LEMMA OneRange == ASSUME NEW b PROVE One(b) \in 0 .. 1
BY DEF One
LEMMA OneGrows == ASSUME NEW b, NEW c, b => c PROVE One(b) <= One(c)
BY DEF One

LEMMA SumsGrow ==
  ASSUME NEW e, NEW d, Grows(e, d)
  PROVE  /\ Axes(e) \in Nat /\ Axes(d) \in Nat /\ Axes(e) <= Axes(d)
         /\ ProtectionAxes(e) \in Nat /\ ProtectionAxes(d) \in Nat
         /\ ProtectionAxes(e) <= ProtectionAxes(d)
         /\ LoaderScore(e) <= LoaderScore(d)
<1>1. /\ One(Parser(e)) <= One(Parser(d)) /\ One(Relocation(e)) <= One(Relocation(d))
      /\ One(Dependency(e)) <= One(Dependency(d)) /\ One(Mapping(e)) <= One(Mapping(d))
      /\ One(Constructor(e)) <= One(Constructor(d)) /\ One(FileSource(e)) <= One(FileSource(d))
      /\ One(ProtectionIdentity(e)) <= One(ProtectionIdentity(d))
      /\ One(Payload(e)) <= One(Payload(d)) /\ One(LoaderIdentity(e)) <= One(LoaderIdentity(d))
  BY AxesGrow, OneGrows
<1>2. One(Hits(InternalTexts, e) >= 2) <= One(Hits(InternalTexts, d) >= 2)
  <2>1. Hits(InternalTexts, e) >= 2 => Hits(InternalTexts, d) >= 2 BY HitsGrow
  <2> QED BY <2>1, OneGrows
<1>3. \A x : One(x) \in 0 .. 1 BY OneRange
<1>4. Axes(e) \in Nat /\ Axes(d) \in Nat /\ Axes(e) <= Axes(d)
  BY <1>1, <1>3 DEF Axes
<1>5. /\ ProtectionAxes(e) \in Nat /\ ProtectionAxes(d) \in Nat
      /\ ProtectionAxes(e) <= ProtectionAxes(d)
  BY <1>1, <1>3 DEF ProtectionAxes
<1>6. LoaderScore(e) <= LoaderScore(d)
  BY <1>1, <1>2, <1>3 DEF LoaderScore
<1> QED BY <1>4, <1>5, <1>6

LEMMA GatesGrow ==
  ASSUME NEW e, NEW d, Grows(e, d)
  PROVE  /\ LoaderGate(e) => LoaderGate(d)
         /\ (HookAlternative(d) <=> HookAlternative(e)) /\ ProtectionGate(e) => ProtectionGate(d)
         /\ ProtectionGate(e) => LoaderGate(e)
         /\ ProtectionScore(e) <= ProtectionScore(d)
<1>1. /\ Axes(e) \in Nat /\ Axes(d) \in Nat /\ Axes(e) <= Axes(d)
      /\ ProtectionAxes(e) \in Nat /\ ProtectionAxes(d) \in Nat
      /\ ProtectionAxes(e) <= ProtectionAxes(d)
  BY SumsGrow
<1>2. LoaderGate(e) => LoaderGate(d) BY <1>1, AxesGrow DEF LoaderGate
<1>3. ASSUME HookAlternative(d) <=> HookAlternative(e), ProtectionGate(e)
      PROVE  ProtectionGate(d)
  BY <1>1, <1>2, <1>3, AxesGrow DEF ProtectionGate
<1>4. ProtectionGate(e) => LoaderGate(e) BY DEF ProtectionGate
<1>5. ProtectionScore(e) <= ProtectionScore(d)
  <2> DEFINE sum(x) == 40 * One(ProtectionIdentity(x)) + 35 * One(Payload(x))
                       + 8 * One(Payload(x) /\ x.context.high_entropy_payload)
                       + 7 * One(Payload(x) /\ x.context.packed_container)
                       + 10 * One(LoaderGate(x))
  <2>1. /\ e.context.high_entropy_payload => d.context.high_entropy_payload
        /\ e.context.packed_container => d.context.packed_container
    BY DEF Grows, ContextGrows
  <2>2. /\ One(ProtectionIdentity(e)) <= One(ProtectionIdentity(d))
        /\ One(Payload(e)) <= One(Payload(d)) /\ One(LoaderGate(e)) <= One(LoaderGate(d))
    BY <1>2, AxesGrow, OneGrows
  <2>3. /\ One(Payload(e) /\ e.context.high_entropy_payload)
             <= One(Payload(d) /\ d.context.high_entropy_payload)
        /\ One(Payload(e) /\ e.context.packed_container)
             <= One(Payload(d) /\ d.context.packed_container)
    <3>1. /\ Payload(e) /\ e.context.high_entropy_payload
               => Payload(d) /\ d.context.high_entropy_payload
          /\ Payload(e) /\ e.context.packed_container
               => Payload(d) /\ d.context.packed_container
      BY <2>1, AxesGrow
    <3> QED BY <3>1, OneGrows
  <2>4. \A x : One(x) \in 0 .. 1 BY OneRange
  <2>5. sum(e) \in Nat /\ sum(d) \in Nat /\ sum(e) <= sum(d) BY <2>2, <2>3, <2>4
  <2>6. \A x : ProtectionScore(x) = IF sum(x) <= 100 THEN sum(x) ELSE 100
    BY DEF ProtectionScore
  <2> HIDE DEF sum
  <2> QED BY <2>5, <2>6
<1> QED BY <1>2, <1>3, <1>4, <1>5

(* The outcome by the gates it passes.                                     *)
LEMMA RankOf ==
  ASSUME NEW e
  PROVE  /\ Rank(analyze(e)) \in 0 .. 3
         /\ ProtectionGate(e) <=> Rank(analyze(e)) = 3
         /\ ProtectionGate(e) \/ LoaderGate(e) <=> Rank(analyze(e)) >= 2
         /\ HookAlternative(e) => Rank(analyze(e)) >= 1
         /\ e.context.code_obscured_by_packing /\ Rank(analyze(e)) >= 1
              => ProtectionGate(e) \/ LoaderGate(e) \/ HookAlternative(e)
         /\ Inspection(e) /\ ~e.context.code_obscured_by_packing => Rank(analyze(e)) >= 1
         /\ Rank(analyze(e)) >= 1 => \/ ProtectionGate(e) \/ LoaderGate(e) \/ HookAlternative(e)
                                     \/ Inspection(e) /\ ~e.context.code_obscured_by_packing
<1>1. analyze(e).outcome = Outcome(e) BY DEF analyze
<1> QED BY <1>1 DEF Rank, Outcome

LEMMA RankGrows ==
  ASSUME NEW e, NEW d, Grows(e, d)
  PROVE  /\ Rank(analyze(e)) >= 2 => Rank(analyze(d)) >= 2
         /\ (HookAlternative(d) <=> HookAlternative(e))
              => Rank(analyze(d)) >= Rank(analyze(e))
<1>1. /\ LoaderGate(e) => LoaderGate(d)
      /\ ProtectionGate(e) => LoaderGate(e)
      /\ (HookAlternative(d) <=> HookAlternative(e)) /\ ProtectionGate(e) => ProtectionGate(d)
  BY GatesGrow
<1>2. Rank(analyze(e)) >= 2 => Rank(analyze(d)) >= 2
  <2>1. Rank(analyze(e)) >= 2 => ProtectionGate(e) \/ LoaderGate(e) BY RankOf
  <2>2. LoaderGate(d) => Rank(analyze(d)) >= 2 BY RankOf
  <2>3. ProtectionGate(e) => LoaderGate(e) BY DEF ProtectionGate
  <2>4. LoaderGate(e) => LoaderGate(d) BY GatesGrow
  <2> QED BY <2>1, <2>2, <2>3, <2>4
<1>3. ASSUME HookAlternative(d) <=> HookAlternative(e)
      PROVE  Rank(analyze(d)) >= Rank(analyze(e))
  <2>1. CASE Rank(analyze(e)) = 3 BY <1>1, <1>3, <2>1, RankOf
  <2>2. CASE Rank(analyze(e)) = 2 BY <1>2, <2>2
  <2>3. CASE Rank(analyze(e)) = 1
    <3>1. HookAlternative(e) \/ (Inspection(e) /\ ~e.context.code_obscured_by_packing)
      BY <2>3, RankOf
    <3>2. e.context.code_obscured_by_packing = d.context.code_obscured_by_packing
      BY DEF Grows, ContextGrows
    <3>3. Inspection(e) => Inspection(d) \/ LoaderGate(d) BY AxesGrow DEF Inspection
    <3>4. Rank(analyze(d)) >= 1 BY <1>3, <3>1, <3>2, <3>3, RankOf
    <3> QED BY <2>3, <3>4
  <2>4. CASE Rank(analyze(e)) = 0 BY <2>4, RankOf
  <2> QED BY <2>1, <2>2, <2>3, <2>4, RankOf
<1> QED BY <1>2, <1>3

LEMMA StaysCertain ==
  ASSUME NEW e, NEW d, Grows(e, d), HookAlternative(d) <=> HookAlternative(e),
         Outcome(e) = Outcome(d), Confidence(e) = "HIGH"
  PROVE  Confidence(d) = "HIGH"
<1>1. /\ Axes(e) \in Nat /\ Axes(d) \in Nat /\ Axes(e) <= Axes(d)
      /\ ProtectionAxes(e) \in Nat /\ ProtectionAxes(d) \in Nat
      /\ ProtectionAxes(e) <= ProtectionAxes(d)
  BY SumsGrow
<1>2. Outcome(e) \notin {"INCONCLUSIVE_PACKED", "NONE"} /\ Certain(e) BY DEF Confidence
<1>3. /\ ProtectionGate(e) <=> ProtectionGate(d)
      /\ ~ProtectionGate(e) => (LoaderGate(e) <=> LoaderGate(d))
  BY DEF Outcome
<1>4. Certain(d) BY <1>1, <1>2, <1>3, AxesGrow DEF Certain
<1> QED BY <1>2, <1>4 DEF Confidence

-----------------------------------------------------------------------------
Known ==
  /\ IsFiniteSet(texts) /\ IsFiniteSet(imports)
  /\ result = analyze(Evidence(context, texts, imports))

LEMMA EvidenceFields ==
  ASSUME NEW c, NEW t, NEW i
  PROVE  /\ Evidence(c, t, i).context = c /\ Evidence(c, t, i).imports = i
         /\ Evidence(c, t, i).texts = t \cup UNION {Part(x) : x \in t}
         /\ IsFiniteSet(t) => IsFiniteSet(Evidence(c, t, i).texts)
<1>1. UNION {Part(x) : x \in t} \subseteq {"InlineHook", "trampoline"} \cup {"PT_LOAD"}
  BY DEF Part
<1>2. IsFiniteSet({"InlineHook", "trampoline"} \cup {"PT_LOAD"})
  <2>1. {"InlineHook", "trampoline"} = {"InlineHook"} \cup {"trampoline"} OBVIOUS
  <2> QED BY <2>1, FS_Singleton, FS_Union
<1>3. IsFiniteSet(UNION {Part(x) : x \in t}) BY <1>1, <1>2, FS_Subset
<1>4. IsFiniteSet(t) => IsFiniteSet(t \cup UNION {Part(x) : x \in t}) BY <1>3, FS_Union
<1> QED BY <1>4 DEF Evidence

LEMMA StepGrows ==
  ASSUME Known, Next
  PROVE  /\ Known'
         /\ Grows(Evidence(context, texts, imports), Evidence(context, texts, imports)')
<1>1. /\ texts \subseteq texts' /\ imports \subseteq imports' /\ context' = context
      /\ result' = analyze(Evidence(context, texts', imports'))
      /\ IsFiniteSet(texts') /\ IsFiniteSet(imports')
  <2>1. CASE FindText
    <3>1. PICK t \in Texts \ texts : texts' = texts \cup {t} BY <2>1 DEF FindText
    <3>2. IsFiniteSet(texts') BY <3>1, FS_AddElement DEF Known
    <3> QED BY <2>1, <3>1, <3>2 DEF FindText, Known
  <2>2. CASE FindImport
    <3>1. PICK n \in Names \ imports : imports' = imports \cup {n} BY <2>2 DEF FindImport
    <3>2. IsFiniteSet(imports') BY <3>1, FS_AddElement DEF Known
    <3> QED BY <2>2, <3>1, <3>2 DEF FindImport, Known
  <2> QED BY <2>1, <2>2 DEF Next
<1>2. Known' BY <1>1 DEF Known, Evidence
<1>3. Grows(Evidence(context, texts, imports), Evidence(context, texts', imports'))
  <2> DEFINE e == Evidence(context, texts, imports)
             d == Evidence(context, texts', imports')
  <2>1. e.texts \subseteq d.texts BY <1>1, EvidenceFields
  <2>2. /\ e.context = context /\ d.context = context /\ e.imports = imports
        /\ d.imports = imports'
    BY EvidenceFields
  <2>3. IsFiniteSet(e.texts) /\ IsFiniteSet(d.texts) BY <1>1, EvidenceFields DEF Known
  <2> HIDE DEF e, d
  <2>4. Grows(e, d) BY <1>1, <2>1, <2>2, <2>3 DEF Grows, ContextGrows, Finite, Known
  <2> QED BY <2>4 DEF e, d
<1>4. Evidence(context, texts, imports)' = Evidence(context, texts', imports')
  BY <1>1 DEF Evidence
<1> QED BY <1>2, <1>3, <1>4

THEOREM EvidenceIsKnown == Spec => []Known
<1>1. Init => Known BY FS_EmptySet DEF Init, Known
<1>2. Known /\ [Next]_vars => Known'
  <2>1. Known /\ UNCHANGED vars => Known' BY DEF Known, vars, Evidence
  <2> QED BY <2>1, StepGrows
<1> QED BY <1>1, <1>2, PTL DEF Spec

LEMMA StepNeverLowers ==
  ASSUME Known, Next
  PROVE  /\ Rank(result) >= 2 => Rank(result') >= 2
         /\ result.hook_alternative => result'.hook_alternative
         /\ result'.hook_alternative = result.hook_alternative =>
              /\ Rank(result') >= Rank(result)
              /\ result'.loader_score >= result.loader_score
              /\ result'.protection_score >= result.protection_score
              /\ result'.outcome = result.outcome /\ result.confidence = "HIGH"
                   => result'.confidence = "HIGH"
<1> DEFINE e == Evidence(context, texts, imports)
           d == e'
<1>1. Grows(e, d) /\ result = analyze(e) /\ result' = analyze(d)
  BY StepGrows DEF Known
<1> HIDE DEF e, d
<1>2. /\ result.hook_alternative = HookAlternative(e)
      /\ result'.hook_alternative = HookAlternative(d)
      /\ result.loader_score = LoaderScore(e) /\ result'.loader_score = LoaderScore(d)
      /\ result.protection_score = ProtectionScore(e)
      /\ result'.protection_score = ProtectionScore(d)
      /\ result.outcome = Outcome(e) /\ result'.outcome = Outcome(d)
      /\ result.confidence = Confidence(e) /\ result'.confidence = Confidence(d)
  BY <1>1 DEF analyze
<1>3. Rank(result) >= 2 => Rank(result') >= 2 BY <1>1, RankGrows
<1>4. result.hook_alternative => result'.hook_alternative BY <1>1, <1>2, AxesGrow
<1>5. ASSUME result'.hook_alternative = result.hook_alternative
      PROVE  /\ Rank(result') >= Rank(result)
             /\ result'.loader_score >= result.loader_score
             /\ result'.protection_score >= result.protection_score
             /\ result'.outcome = result.outcome /\ result.confidence = "HIGH"
                  => result'.confidence = "HIGH"
  <2>1. HookAlternative(d) <=> HookAlternative(e) BY <1>2, <1>5
  <2>2. Rank(result') >= Rank(result) BY <1>1, <2>1, RankGrows
  <2>3. LoaderScore(e) <= LoaderScore(d) BY <1>1, SumsGrow
  <2>4. ProtectionScore(e) <= ProtectionScore(d) BY <1>1, GatesGrow
  <2>5. result'.outcome = result.outcome /\ result.confidence = "HIGH"
          => result'.confidence = "HIGH"
    BY <1>1, <1>2, <2>1, StaysCertain
  <2>6. result'.loader_score >= result.loader_score BY <1>2, <2>3
  <2>7. result'.protection_score >= result.protection_score BY <1>2, <2>4
  <2> QED BY <2>2, <2>5, <2>6, <2>7
<1> QED BY <1>3, <1>4, <1>5

(* MoreNeverLowers: more evidence never makes a library look more innocent. *)
THEOREM EvidenceNeverLowers == Spec => MoreNeverLowers
<1>1. Known /\ [Next]_vars =>
        [result'.hook_alternative = result.hook_alternative =>
           /\ Rank(result') >= Rank(result)
           /\ result'.loader_score >= result.loader_score
           /\ result'.protection_score >= result.protection_score
           /\ result'.outcome = result.outcome /\ result.confidence = "HIGH"
                => result'.confidence = "HIGH"]_vars
  BY StepNeverLowers
<1> QED BY <1>1, EvidenceIsKnown, PTL DEF Spec, MoreNeverLowers

(* HookHidesNoLoader: a hook framework's name hides no loader.             *)
THEOREM HooksHideNothing == Spec => HookHidesNoLoader
<1>1. Known /\ [Next]_vars =>
        [/\ Rank(result) >= 2 => Rank(result') >= 2
         /\ result.hook_alternative => result'.hook_alternative]_vars
  BY StepNeverLowers
<1> QED BY <1>1, EvidenceIsKnown, PTL DEF Spec, HookHidesNoLoader

-----------------------------------------------------------------------------
(* Two libraries that hold and import the same, and differ at most in how  *)
(* they are packed.                                                        *)
OnlyPacking(e, d) ==
  /\ e.texts = d.texts /\ e.imports = d.imports
  /\ e.context.known_hook_framework = d.context.known_hook_framework
  /\ e.context.exact_hook_basename = d.context.exact_hook_basename
  /\ e.context.protecting_basename = d.context.protecting_basename

(* No axis and no gate looks at the packing. *)
LEMMA GatesIgnorePacking ==
  ASSUME NEW e, NEW d, OnlyPacking(e, d)
  PROVE  /\ Axes(e) = Axes(d) /\ ProtectionAxes(e) = ProtectionAxes(d)
         /\ LoaderGate(e) <=> LoaderGate(d)
         /\ ProtectionGate(e) <=> ProtectionGate(d)
         /\ HookAlternative(e) <=> HookAlternative(d)
         /\ Inspection(e) <=> Inspection(d)
         /\ Certain(e) <=> Certain(d)
         /\ LoaderScore(e) = LoaderScore(d)
<1>1. \A k : /\ Hits(k, e) = Hits(k, d) /\ ImportHits(k, e) = ImportHits(k, d)
             /\ HasImport(k, e) <=> HasImport(k, d)
  BY DEF OnlyPacking, Hits, ImportHits, HasImport
<1>2. /\ Parser(e) <=> Parser(d)
      /\ Relocation(e) <=> Relocation(d)
      /\ DynamicSymbols(e) <=> DynamicSymbols(d)
      /\ Mapping(e) <=> Mapping(d)
      /\ FileSource(e) <=> FileSource(d)
      /\ Constructor(e) <=> Constructor(d)
      /\ LoaderIdentity(e) <=> LoaderIdentity(d)
      /\ Payload(e) <=> Payload(d)
  BY <1>1 DEF Parser, Relocation, DynamicSymbols, Mapping, FileSource, Constructor,
              LoaderIdentity, Payload
<1>3. Dependency(e) <=> Dependency(d) BY <1>1, <1>2 DEF Dependency
<1>4. ProtectionIdentity(e) <=> ProtectionIdentity(d)
  BY <1>1 DEF ProtectionIdentity, OnlyPacking, One
<1>5. HookIdentity(e) <=> HookIdentity(d) BY <1>1 DEF HookIdentity, OnlyPacking
<1>6. HookAlternative(e) <=> HookAlternative(d) BY <1>1, <1>5 DEF HookAlternative
<1>7. Axes(e) = Axes(d) BY <1>2, <1>3 DEF Axes, One
<1>8. ProtectionAxes(e) = ProtectionAxes(d) BY <1>2, <1>4 DEF ProtectionAxes, One
<1>9. LoaderGate(e) <=> LoaderGate(d) BY <1>2, <1>3, <1>7 DEF LoaderGate
<1>10. ProtectionGate(e) <=> ProtectionGate(d)
  BY <1>2, <1>6, <1>7, <1>8, <1>9 DEF ProtectionGate
<1>11. Inspection(e) <=> Inspection(d) BY <1>2, <1>3, <1>9 DEF Inspection
<1>12. Certain(e) <=> Certain(d) BY <1>2, <1>5, <1>7, <1>8, <1>9, <1>10 DEF Certain
<1>13. LoaderScore(e) = LoaderScore(d) BY <1>1, <1>2, <1>3 DEF LoaderScore, One
<1> QED BY <1>6, <1>7, <1>8, <1>9, <1>10, <1>11, <1>12, <1>13

(* PackingProvesNothing: packing, entropy and a ZIP change neither the axes *)
(* nor the gates, and may hide at most an outcome below a loader.          *)
THEOREM PackingIsNoProof == Spec => []PackingProvesNothing
<1>1. Init => context \in Contexts BY ConsideredAssumption DEF Init
<1>2. context \in Contexts /\ [Next]_vars => (context \in Contexts)'
  BY DEF Next, FindText, FindImport, vars
<1>3. Known /\ context \in Contexts => PackingProvesNothing
  <2> SUFFICES ASSUME Known, context \in Contexts PROVE PackingProvesNothing OBVIOUS
  <2> DEFINE bare == [context EXCEPT !.code_obscured_by_packing = FALSE,
                                     !.high_entropy_payload = FALSE,
                                     !.packed_container = FALSE]
             e == Evidence(context, texts, imports)
             d == Evidence(bare, texts, imports)
  <2>1. /\ bare.known_hook_framework = context.known_hook_framework
        /\ bare.exact_hook_basename = context.exact_hook_basename
        /\ bare.protecting_basename = context.protecting_basename
        /\ bare.code_obscured_by_packing = FALSE
    BY DEF Contexts
  <2> HIDE DEF bare
  <2>2. OnlyPacking(e, d) /\ d.context = bare
    <3>1. e.context = context /\ d.context = bare /\ e.texts = d.texts /\ e.imports = d.imports
      BY DEF Evidence
    <3> HIDE DEF e, d
    <3> QED BY <2>1, <3>1 DEF OnlyPacking
  <2>3. result = analyze(e) BY DEF Known
  <2> HIDE DEF e, d
  <2>4. /\ result.loader_score = LoaderScore(e) /\ result.outcome = Outcome(e)
        /\ result.confidence = Confidence(e)
        /\ analyze(d).loader_score = LoaderScore(d) /\ analyze(d).outcome = Outcome(d)
        /\ analyze(d).confidence = Confidence(d)
        /\ analyze(d).hook_alternative = HookAlternative(d)
    BY <2>3 DEF analyze
  <2>5. LoaderScore(e) = LoaderScore(d) BY <2>2, GatesIgnorePacking
  <2>6. \/ Outcome(e) = Outcome(d)
        \/ /\ Outcome(e) = "INCONCLUSIVE_PACKED"
           /\ Outcome(d) \in {"ELF_INSPECTION_OR_HOOK", "NONE"} /\ ~HookAlternative(d)
    BY <2>1, <2>2, GatesIgnorePacking DEF Outcome
  <2>7. Outcome(e) = Outcome(d) => Confidence(e) = Confidence(d)
    BY <2>2, GatesIgnorePacking DEF Confidence
  <2>8. Outcome(d) \in {"ELF_INSPECTION_OR_HOOK", "NONE"} => Rank(analyze(d)) <= 1
    BY <2>4 DEF Rank
  <2> QED BY <2>4, <2>5, <2>6, <2>7, <2>8 DEF PackingProvesNothing, bare, d
<1> QED BY <1>1, <1>2, <1>3, EvidenceIsKnown, PTL DEF Spec

-----------------------------------------------------------------------------
(* Recursion over an interval. A set of naturals has a least element: that  *)
(* is how the induction over the families is done.                         *)
LEMMA LeastNatural ==
  ASSUME NEW T, T \subseteq Nat, T # {}
  PROVE  \E x \in T : \A y \in T : x <= y
<1> DEFINE Less == {ss \in Nat \X Nat : ss[1] < ss[2]}
<1>1. IsWellFoundedOn(Less, Nat) BY NatLessThanWellFounded DEF OpToRel
<1>2. \A x, y \in Nat : x < y => <<x, y>> \in Less OBVIOUS
<1> HIDE DEF Less
<1>3. PICK x \in T : \A y \in T : ~(<<y, x>> \in Less) BY <1>1, WFMin
<1>4. \A y \in T : ~(y < x) BY <1>2, <1>3
<1> QED BY <1>4

(* f starts with z and goes from one value to the next by G. *)
Solution(f, n, A, z, G) ==
  f \in [0 .. n -> A] /\ f[0] = z /\ \A i \in 1 .. n : f[i] = G[i][f[i - 1]]

(* A recursion over 0 .. n has a solution. *)
LEMMA RecursionExists ==
  ASSUME NEW n \in Nat, NEW A, NEW z \in A, NEW G \in [1 .. n -> [A -> A]]
  PROVE  \E f : Solution(f, n, A, z, G)
<1> DEFINE Solves(f, m) == f[0] = z /\ \A i \in 1 .. m : f[i] = G[i][f[i - 1]]
           Bad == {m \in 0 .. n : ~ \E f \in [0 .. m -> A] : Solves(f, m)}
<1>1. SUFFICES ASSUME Bad # {} PROVE FALSE
  <2>1. n \in 0 .. n OBVIOUS
  <2>2. PICK f \in [0 .. n -> A] : Solves(f, n) BY <2>1
  <2>3. Solution(f, n, A, z, G) BY <2>2 DEF Solution
  <2> QED BY <2>3
<1>2. PICK m \in Bad : \A k \in Bad : m <= k
  <2>1. Bad \subseteq Nat OBVIOUS
  <2> HIDE DEF Bad
  <2> QED BY <1>1, <2>1, LeastNatural
<1>3. m # 0
  <2>1. SUFFICES ASSUME m = 0 PROVE FALSE OBVIOUS
  <2>2. [i \in 0 .. 0 |-> z] \in [0 .. 0 -> A] /\ Solves([i \in 0 .. 0 |-> z], 0) OBVIOUS
  <2> QED BY <2>1, <2>2, <1>2
<1>4. m \in 1 .. n /\ m - 1 \in 0 .. n /\ ~(m <= m - 1) BY <1>2, <1>3
<1>5. ~(m - 1 \in Bad) BY <1>2, <1>4
<1>6. PICK f \in [0 .. m - 1 -> A] : Solves(f, m - 1) BY <1>4, <1>5
<1> DEFINE g == [i \in 0 .. m |-> IF i < m THEN f[i] ELSE G[m][f[m - 1]]]
<1>7. f[m - 1] \in A /\ G[m][f[m - 1]] \in A BY <1>4, <1>6
<1>8. g \in [0 .. m -> A] BY <1>4, <1>6, <1>7
<1>8a. g[m] = G[m][f[m - 1]] /\ \A i \in 0 .. m - 1 : g[i] = f[i] BY <1>4
<1> HIDE DEF g
<1>9. g[0] = z BY <1>4, <1>6, <1>8a
<1>10. ASSUME NEW i \in 1 .. m PROVE g[i] = G[i][g[i - 1]]
  <2>1. g[i - 1] = f[i - 1] BY <1>4, <1>8a, <1>10
  <2>2. CASE i = m
    <3> QED BY <2>1, <2>2, <1>8a
  <2>3. CASE i # m
    <3>1. i \in 1 .. m - 1 /\ g[i] = f[i] BY <2>3, <1>4, <1>8a, <1>10
    <3> QED BY <2>1, <3>1, <1>6
  <2> QED BY <2>2, <2>3
<1>11. Solves(g, m) BY <1>9, <1>10
<1> QED BY <1>2, <1>8, <1>11

-----------------------------------------------------------------------------
(* The runtimes                                                            *)
LEMMA TwelveFamilies == Len(Families) \in Nat /\ DOMAIN Families = 1 .. Len(Families)
BY DEF Families

FamilyNames == {Families[i].family : i \in DOMAIN Families} \cup {NoRuntime.family}
Evidences == [family : FamilyNames, hits : Nat, classes : 0 .. 3]

(* What is spelled out by texts and names becomes more with them.          *)
LEMMA SpelledGrows ==
  ASSUME NEW S, NEW T, S \subseteq T, IsFiniteSet(T)
  PROVE  Spelled(S) \subseteq Spelled(T) /\ IsFiniteSet(Spelled(T))
<1>1. Spelled(S) \subseteq Spelled(T) BY DEF Spelled
<1> DEFINE held == {"Lavf"} \cup {"Sws"} \cup {"PCRE2"} \cup {"wasm_runtime"}
           parts == {Containing[t] : t \in T \cap DOMAIN Containing}
<1>2. IsFiniteSet(held) BY FS_Singleton, FS_Union
<1>3. parts \subseteq held
  <2>1. \A t \in DOMAIN Containing : Containing[t] \in held BY DEF Containing
  <2> QED BY <2>1
<1> HIDE DEF held
<1>p. IsFiniteSet(parts) BY <1>2, <1>3, FS_Subset
<1>4. IsFiniteSet(Spelled(T)) BY <1>p, FS_Union DEF Spelled
<1> QED BY <1>1, <1>4

(* What is found of a family is counted, in at most three classes; without  *)
(* a text or an import there is at most the name of the file.               *)
LEMMA EvidenceOfFamily ==
  ASSUME NEW basename, NEW image, NEW names, IsFiniteSet(image), IsFiniteSet(names),
         NEW i \in DOMAIN Families
  PROVE  /\ RuntimeEvidence(basename, image, names, Families[i]) \in Evidences
         /\ image \cup names = {} =>
              RuntimeEvidence(basename, image, names, Families[i]).classes <= 1
<1> DEFINE f == Families[i]
           raw == Cardinality(f.identities \cap Spelled(image \cup names))
           api == Cardinality(f.apis \cap names)
           named == f.names \cap basename # {}
<1>1. f.family \in FamilyNames BY DEF FamilyNames
<1> HIDE DEF f
<1>2. raw \in Nat /\ api \in Nat
  <2>1. IsFiniteSet(Spelled(image \cup names)) BY FS_Union, SpelledGrows
  <2>2. /\ IsFiniteSet(f.identities \cap Spelled(image \cup names))
        /\ IsFiniteSet(f.apis \cap names)
    BY <2>1, FS_Intersection
  <2> QED BY <2>2, FS_CardinalityType
<1>3. image \cup names = {} => raw = 0 /\ api = 0
  <2> SUFFICES ASSUME image \cup names = {} PROVE raw = 0 /\ api = 0 OBVIOUS
  <2>1. f.identities \cap Spelled(image \cup names) = {} /\ f.apis \cap names = {}
    BY DEF Spelled
  <2> QED BY <2>1, FS_EmptySet
<1> DEFINE hits == raw + api
           classes == One(named) + One(raw >= 2) + One(api >= 2)
<1>4. RuntimeEvidence(basename, image, names, f) =
        [family |-> f.family, hits |-> hits, classes |-> classes]
  BY DEF RuntimeEvidence
<1> HIDE DEF raw, api, named
<1>5. classes \in 0 .. 3 /\ hits \in Nat BY <1>2 DEF One
<1>6. raw = 0 /\ api = 0 => classes <= 1 BY DEF One
<1> HIDE DEF hits, classes
<1>7. RuntimeEvidence(basename, image, names, f) \in Evidences
  BY <1>1, <1>4, <1>5 DEF Evidences
<1>8. image \cup names = {} => RuntimeEvidence(basename, image, names, f).classes <= 1
  BY <1>3, <1>4, <1>6
<1> QED BY <1>7, <1>8 DEF f

(* What stands after i families, if best did before.                       *)
Turn(basename, image, names, i, best) ==
  IF i \in ConsideredFamilies(basename)
    THEN consider(best, RuntimeEvidence(basename, image, names, Families[i]))
    ELSE best
Course(basename, image, names, f) ==
  /\ f \in [0 .. Len(Families) -> Evidences]
  /\ f[0] = NoRuntime
  /\ \A i \in 1 .. Len(Families) : f[i] = Turn(basename, image, names, i, f[i - 1])

(* The recursive function of the detection satisfies its equation.         *)
LEMMA ConsideringIsDefined ==
  ASSUME NEW basename, NEW image, NEW names, IsFiniteSet(image), IsFiniteSet(names)
  PROVE  Course(basename, image, names, Considering(basename, image, names))
<1> DEFINE n == Len(Families)
           A == Evidences
           z == NoRuntime
           H(f) == [i \in 0 .. n |->
                      IF i = 0 THEN NoRuntime
                      ELSE IF i \in ConsideredFamilies(basename)
                        THEN consider(f[i - 1],
                                      RuntimeEvidence(basename, image, names, Families[i]))
                        ELSE f[i - 1]]
           G == [i \in 1 .. n |-> [p \in A |-> Turn(basename, image, names, i, p)]]
<1>1. n \in Nat /\ DOMAIN Families = 1 .. n BY TwelveFamilies
<1>2. z \in A BY DEF Evidences, FamilyNames, NoRuntime
<1>3. ASSUME NEW i \in 1 .. n, NEW p \in A PROVE Turn(basename, image, names, i, p) \in A
  <2>1. RuntimeEvidence(basename, image, names, Families[i]) \in A BY <1>1, <1>3, EvidenceOfFamily
  <2> QED BY <2>1, <1>3 DEF Turn, consider
<1> HIDE DEF n, A
<1>4. G \in [1 .. n -> [A -> A]] BY <1>3
<1>5. PICK f \in [0 .. n -> A] : f[0] = z /\ \A i \in 1 .. n : f[i] = G[i][f[i - 1]]
  <2> HIDE DEF G, z
  <2>1. \E f : Solution(f, n, A, z, G) BY <1>1, <1>2, <1>4, RecursionExists
  <2> QED BY <2>1 DEF Solution
<1>6. \A i \in 1 .. n : f[i] = Turn(basename, image, names, i, f[i - 1])
  <2>1. \A i \in 1 .. n : f[i - 1] \in A BY <1>1, <1>5
  <2> QED BY <2>1, <1>5
<1>7. f = H(f)
  <2>1. ASSUME NEW i \in 0 .. n PROVE f[i] = H(f)[i]
    <3>1. CASE i = 0 BY <3>1, <1>5
    <3>2. CASE i # 0
      <4>1. i \in 1 .. n BY <1>1, <2>1, <3>2
      <4> QED BY <4>1, <3>2, <1>6 DEF Turn
    <3> QED BY <3>1, <3>2
  <2>2. f = [i \in 0 .. n |-> f[i]] BY <1>5
  <2>3. [i \in 0 .. n |-> f[i]] = [i \in 0 .. n |-> H(f)[i]] BY <2>1
  <2>4. H(f) = [i \in 0 .. n |-> H(f)[i]] OBVIOUS
  <2> QED BY <2>2, <2>3, <2>4
<1>8. Considering(basename, image, names) = CHOOSE q : q = H(q) BY DEF Considering, n
<1> DEFINE q == Considering(basename, image, names)
<1>9. q = H(q) BY <1>7, <1>8
<1> HIDE DEF q
<1>10. q[0] = NoRuntime /\ \A i \in 1 .. n : q[i] = Turn(basename, image, names, i, q[i - 1])
  <2>1. q[0] = NoRuntime BY <1>1, <1>9
  <2>2. ASSUME NEW i \in 1 .. n PROVE q[i] = Turn(basename, image, names, i, q[i - 1])
    <3>1. i \in 0 .. n /\ i # 0 BY <1>1, <2>2
    <3> QED BY <3>1, <1>9 DEF Turn
  <2> QED BY <2>1, <2>2
<1>11. q \in [0 .. n -> A]
  <2> DEFINE Bad == {i \in 0 .. n : ~(q[i] \in A)}
  <2>1. SUFFICES ASSUME Bad # {} PROVE FALSE
    <3>1. \A i \in 0 .. n : q[i] \in A BY <2>1
    <3>2. q = [i \in 0 .. n |-> q[i]] BY <1>9
    <3> QED BY <3>1, <3>2
  <2>2. PICK i \in Bad : \A k \in Bad : i <= k
    <3>1. Bad \subseteq Nat OBVIOUS
    <3> HIDE DEF Bad
    <3> QED BY <2>1, <3>1, LeastNatural
  <2>3. i # 0 BY <2>2, <1>2, <1>10
  <2>4. i \in 1 .. n /\ i - 1 \in 0 .. n /\ ~(i <= i - 1) BY <1>1, <2>2, <2>3
  <2>5. q[i - 1] \in A BY <2>2, <2>4
  <2> QED BY <2>2, <2>4, <2>5, <1>3, <1>10
<1> QED BY <1>10, <1>11 DEF Course, q, n, A

(* The ladder of evidence: who stands after a family is at least as strong  *)
(* as whoever was there, and as that family.                               *)
AtLeast(e, d) ==
  /\ d.classes <= e.classes
  /\ d.classes = e.classes /\ d.classes >= 1 => d.hits <= e.hits

LEMMA TurnKeepsTheBest ==
  ASSUME NEW basename, NEW image, NEW names, IsFiniteSet(image), IsFiniteSet(names),
         NEW i \in DOMAIN Families, NEW best \in Evidences
  PROVE  /\ AtLeast(Turn(basename, image, names, i, best), best)
         /\ i \in ConsideredFamilies(basename) =>
              AtLeast(Turn(basename, image, names, i, best),
                      RuntimeEvidence(basename, image, names, Families[i]))
         /\ \/ Turn(basename, image, names, i, best) = best
            \/ /\ i \in ConsideredFamilies(basename)
               /\ Turn(basename, image, names, i, best)
                    = RuntimeEvidence(basename, image, names, Families[i])
<1> DEFINE item == RuntimeEvidence(basename, image, names, Families[i])
<1>1. item \in Evidences BY EvidenceOfFamily
<1> HIDE DEF item
<1>2. /\ item.classes \in 0 .. 3 /\ item.hits \in Nat
      /\ best.classes \in 0 .. 3 /\ best.hits \in Nat
  BY <1>1 DEF Evidences
<1>3. /\ AtLeast(consider(best, item), best) /\ AtLeast(consider(best, item), item)
      /\ consider(best, item) \in {best, item}
  BY <1>2 DEF AtLeast, consider, Stronger
<1>4. AtLeast(best, best) BY <1>2 DEF AtLeast
<1> QED BY <1>3, <1>4 DEF Turn, item

(* Every family considered so far is at most as strong as what stands.     *)
Unbeaten(basename, image, names, best, n) ==
  \A i \in ConsideredFamilies(basename) :
    i <= n => AtLeast(best, RuntimeEvidence(basename, image, names, Families[i]))

(* Whatever stands is the evidence of a family that was considered, if it   *)
(* is any.                                                                 *)
OfFamily(basename, image, names, best) ==
  \/ best.classes = 0
  \/ \E i \in ConsideredFamilies(basename) :
       best = RuntimeEvidence(basename, image, names, Families[i])

LEMMA StrongestStands ==
  ASSUME NEW basename, NEW image, NEW names, IsFiniteSet(image), IsFiniteSet(names)
  PROVE  LET best == SemanticRuntime(basename, image, names)
         IN  /\ best \in Evidences
             /\ OfFamily(basename, image, names, best)
             /\ image \cup names = {} => best.classes <= 1
             /\ Unbeaten(basename, image, names, best, Len(Families))
<1> DEFINE n == Len(Families)
           q == Considering(basename, image, names)
           Holds(i) == /\ image \cup names = {} => q[i].classes <= 1
                       /\ OfFamily(basename, image, names, q[i])
                       /\ Unbeaten(basename, image, names, q[i], i)
           Bad == {i \in 0 .. n : ~Holds(i)}
<1>1. n \in Nat /\ DOMAIN Families = 1 .. n BY TwelveFamilies
<1>2. ConsideredFamilies(basename) \subseteq 1 .. n BY <1>1 DEF ConsideredFamilies
<1>3. /\ q \in [0 .. n -> Evidences] /\ q[0] = NoRuntime
      /\ \A i \in 1 .. n : q[i] = Turn(basename, image, names, i, q[i - 1])
  BY ConsideringIsDefined DEF Course
<1> HIDE DEF n, q
<1>4. Holds(0)
  <2>1. q[0].classes = 0
    <3>1. NoRuntime.classes = 0 BY Zenon DEF NoRuntime
    <3> QED BY <1>3, <3>1
  <2>2. \A i \in ConsideredFamilies(basename) : ~(i <= 0) BY <1>1, <1>2
  <2> QED BY <2>1, <2>2 DEF Unbeaten, OfFamily
<1>5. ASSUME NEW i \in 1 .. n, Holds(i - 1) PROVE Holds(i)
  <2> DEFINE item == RuntimeEvidence(basename, image, names, Families[i])
  <2>1. i - 1 \in 0 .. n /\ i \in 0 .. n /\ i \in DOMAIN Families BY <1>1, <1>5
  <2>2. q[i - 1] \in Evidences /\ q[i] \in Evidences BY <1>3, <2>1
  <2>3. item \in Evidences /\ (image \cup names = {} => item.classes <= 1)
    BY <2>1, EvidenceOfFamily
  <2>4. /\ AtLeast(q[i], q[i - 1])
        /\ i \in ConsideredFamilies(basename) => AtLeast(q[i], item)
        /\ \/ q[i] = q[i - 1]
           \/ i \in ConsideredFamilies(basename) /\ q[i] = item
    BY <1>3, <2>1, <2>2, TurnKeepsTheBest
  <2>o. OfFamily(basename, image, names, q[i]) BY <1>5, <2>4 DEF OfFamily
  <2> HIDE DEF item
  <2>5. image \cup names = {} => q[i].classes <= 1 BY <1>5, <2>3, <2>4
  <2>6. ASSUME NEW k \in ConsideredFamilies(basename), k <= i
        PROVE  AtLeast(q[i], RuntimeEvidence(basename, image, names, Families[k]))
    <3> DEFINE other == RuntimeEvidence(basename, image, names, Families[k])
    <3>1. CASE k = i BY <3>1, <2>4, <2>6 DEF item
    <3>2. CASE k # i
      <4>1. k \in 1 .. n /\ k <= i - 1 BY <1>1, <1>2, <1>5, <2>6, <3>2
      <4>2. AtLeast(q[i - 1], other) BY <4>1, <1>5, <2>6 DEF Unbeaten
      <4>3. other \in Evidences BY <1>1, <4>1, EvidenceOfFamily
      <4> HIDE DEF other
      <4>4. AtLeast(q[i], other)
        <5>1. /\ other.classes \in 0 .. 3 /\ other.hits \in Nat
              /\ q[i].classes \in 0 .. 3 /\ q[i].hits \in Nat
              /\ q[i - 1].classes \in 0 .. 3 /\ q[i - 1].hits \in Nat
          BY <2>2, <4>3 DEF Evidences
        <5> QED BY <5>1, <4>2, <2>4 DEF AtLeast
      <4> QED BY <4>4 DEF other
    <3> QED BY <3>1, <3>2
  <2> QED BY <2>o, <2>5, <2>6 DEF Unbeaten
<1>6. Bad = {}
  <2>1. SUFFICES ASSUME Bad # {} PROVE FALSE OBVIOUS
  <2> HIDE DEF Holds
  <2>2. PICK i \in Bad : \A k \in Bad : i <= k
    <3>1. Bad \subseteq Nat OBVIOUS
    <3> HIDE DEF Bad
    <3> QED BY <2>1, <3>1, LeastNatural
  <2>3. i # 0 BY <2>2, <1>4
  <2>4. i \in 1 .. n /\ i - 1 \in 0 .. n /\ ~(i <= i - 1) BY <1>1, <2>2, <2>3
  <2>5. Holds(i - 1) BY <2>2, <2>4
  <2> QED BY <2>2, <2>4, <2>5, <1>5
<1>7. n \in 0 .. n BY <1>1
<1>8. Holds(n) BY <1>6, <1>7
<1>9. SemanticRuntime(basename, image, names) = q[n] BY DEF SemanticRuntime, q, n
<1> QED BY <1>3, <1>7, <1>8, <1>9 DEF n

-----------------------------------------------------------------------------
(* The report is at any time that of the library with just this evidence.  *)
Reported ==
  /\ library \in Libraries
  /\ IsFiniteSet(texts) /\ IsFiniteSet(imports)
  /\ context = LinkerContext(Image(library, texts, imports, signs))
  /\ result = Linker(Image(library, texts, imports, signs))
  /\ report = Report(Image(library, texts, imports, signs))

LEMMA ImageFields ==
  ASSUME NEW l, NEW t, NEW i, NEW s
  PROVE  /\ Image(l, t, i, s).library = l /\ Image(l, t, i, s).texts = t
         /\ Image(l, t, i, s).imports = i /\ Image(l, t, i, s).signs = s
BY DEF Image

LEMMA MeetReports ==
  ASSUME Reported, NEW t, NEW i, NEW s, IsFiniteSet(t), IsFiniteSet(i),
         Meet(Image(library, t, i, s))
  PROVE  Reported' /\ library' = library /\ texts' = t /\ imports' = i /\ signs' = s
<1> DEFINE a == Image(library, t, i, s)
<1>1. /\ library' = library /\ texts' = t /\ imports' = i /\ signs' = s
      /\ context' = LinkerContext(a) /\ result' = Linker(a) /\ report' = Report(a)
  BY ImageFields DEF Meet
<1>2. Image(library, texts, imports, signs)' = a BY <1>1 DEF Image
<1>3. /\ LinkerContext(Image(library, texts, imports, signs))' = LinkerContext(a)
      /\ Linker(Image(library, texts, imports, signs))' = Linker(a)
      /\ Report(Image(library, texts, imports, signs))' = Report(a)
  BY <1>2
<1> QED BY <1>1, <1>3 DEF Reported

THEOREM ReportIsOfTheEvidence == ScoresSpec => []Reported
<1>1. ScoresInit => Reported
  BY LibrariesAssumption DEF ScoresInit, Reported
<1>2. Reported /\ [ScoresNext]_found => Reported'
  <2> SUFFICES ASSUME Reported, [ScoresNext]_found PROVE Reported' OBVIOUS
  <2>1. CASE MeetText
    <3>1. PICK t \in Texts \ texts : Meet(Image(library, texts \cup {t}, imports, signs))
      BY <2>1 DEF MeetText
    <3>2. IsFiniteSet(texts \cup {t}) BY FS_AddElement DEF Reported
    <3> QED BY <3>1, <3>2, MeetReports DEF Reported
  <2>2. CASE MeetImport
    <3>1. PICK n \in Names \ imports : Meet(Image(library, texts, imports \cup {n}, signs))
      BY <2>2 DEF MeetImport
    <3>2. IsFiniteSet(imports \cup {n}) BY FS_AddElement DEF Reported
    <3> QED BY <3>1, <3>2, MeetReports DEF Reported
  <2>3. CASE MeetSign
    <3>1. PICK s \in Signs \ signs : Meet(Image(library, texts, imports, signs \cup {s}))
      BY <2>3 DEF MeetSign
    <3> QED BY <3>1, MeetReports DEF Reported
  <2>4. CASE UNCHANGED found BY <2>4 DEF found, Reported
  <2> QED BY <2>1, <2>2, <2>3, <2>4 DEF ScoresNext
<1> QED BY <1>1, <1>2, PTL DEF ScoresSpec

(* RuntimeIsStrongest: the name of a file alone confirms no runtime, and   *)
(* the family with the most kinds of evidence is reported, wherever it     *)
(* stands in the order of detect_known_vm_or_branch_runtime.               *)
THEOREM StrongestRuntimeIsReported == ScoresSpec => []RuntimeIsStrongest
<1>1. Reported => RuntimeIsStrongest
  <2> SUFFICES ASSUME Reported PROVE RuntimeIsStrongest OBVIOUS
  <2> DEFINE a == Image(library, texts, imports, signs)
             best == SemanticRuntime(library.basename, texts, imports)
  <2>1. report = Report(a) /\ IsFiniteSet(texts) /\ IsFiniteSet(imports) BY DEF Reported
  <2>2. Runtime(a) = best BY ImageFields DEF Runtime
  <2>3. Report(a).runtime = Runtime(a)
    <3> HIDE DEF a
    <3> QED BY DEF Report, Judged, Summary
  <2>4. /\ best \in Evidences
        /\ texts \cup imports = {} => best.classes <= 1
        /\ Unbeaten(library.basename, texts, imports, best, Len(Families))
    BY <2>1, StrongestStands
  <2> HIDE DEF a, best
  <2>5. report.runtime = best BY <2>1, <2>2, <2>3
  <2>6. best.classes \in 0 .. 3 /\ best.hits \in Nat BY <2>4 DEF Evidences
  <2>7. best.classes >= 2 => texts \cup imports # {} BY <2>4, <2>6
  <2>8. ASSUME NEW i \in ConsideredFamilies(library.basename)
        PROVE  AtLeast(best, RuntimeEvidence(library.basename, texts, imports, Families[i]))
    <3>1. i <= Len(Families) BY <2>8, TwelveFamilies DEF ConsideredFamilies
    <3> QED BY <3>1, <2>4 DEF Unbeaten
  <2> QED BY <2>5, <2>7, <2>8 DEF RuntimeIsStrongest, AtLeast
<1> QED BY <1>1, ReportIsOfTheEvidence, PTL

-----------------------------------------------------------------------------
(* The risk. A context y of the VMP detector that differs from x by what    *)
(* speaks for protection, and by no explanation.                           *)
Presses(x, y) ==
  /\ x.vmp_metadata_marker => y.vmp_metadata_marker
  /\ x.custom_linker_likely => y.custom_linker_likely
  /\ x.has_large_entropy_blob => y.has_large_entropy_blob
  /\ x.few_imports_and_init_array => y.few_imports_and_init_array
  /\ y.known_non_vm_framework => x.known_non_vm_framework
  /\ y.code_obscured_by_packing <=> x.code_obscured_by_packing
  /\ y.control_flow_obfuscation_likely => x.control_flow_obfuscation_likely
  /\ y.rounds_down = x.rounds_down
  /\ V!ConfirmedRuntime(y) <=> V!ConfirmedRuntime(x)
  /\ V!WeakRuntime(y) <=> V!WeakRuntime(x)

LEMMA IntentPresses ==
  ASSUME NEW t, NEW x, NEW y, Presses(x, y)
  PROVE  /\ V!Intent(t, x) \in 0 .. 100 /\ V!Intent(t, y) \in 0 .. 100
         /\ V!Intent(t, x) <= V!Intent(t, y)
<1> DEFINE m(z) == V!When(z.vmp_metadata_marker, 45)
           linker(z) == V!When(z.custom_linker_likely, 15)
           blob(z) == V!When(z.has_large_entropy_blob, 6)
           few(z) == V!When(z.few_imports_and_init_array, 4)
           loop(z) == V!When(~V!ConfirmedRuntime(z) /\ V!Structure(t) >= 70, 10)
           sum(z) == m(z) + linker(z) + blob(z) + few(z) + loop(z)
<1>1. m(x) \in Nat /\ m(y) \in Nat /\ m(x) <= m(y) BY DEF V!When, Presses
<1>2. linker(x) \in Nat /\ linker(y) \in Nat /\ linker(x) <= linker(y) BY DEF V!When, Presses
<1>3. blob(x) \in Nat /\ blob(y) \in Nat /\ blob(x) <= blob(y) BY DEF V!When, Presses
<1>4. few(x) \in Nat /\ few(y) \in Nat /\ few(x) <= few(y) BY DEF V!When, Presses
<1>5. loop(x) \in Nat /\ loop(y) \in Nat /\ loop(x) <= loop(y) BY DEF V!When, Presses
<1>6. V!Intent(t, x) = V!Capped(100, sum(x)) /\ V!Intent(t, y) = V!Capped(100, sum(y))
  BY DEF V!Intent
<1> HIDE DEF m, linker, blob, few, loop
<1>7. sum(x) \in Nat /\ sum(y) \in Nat /\ sum(x) <= sum(y) BY <1>1, <1>2, <1>3, <1>4, <1>5
<1> HIDE DEF sum
<1> QED BY <1>6, <1>7 DEF V!Capped

LEMMA CoexistencePresses ==
  ASSUME NEW t, NEW x, NEW y, Presses(x, y)
  PROVE  V!Coexistence(t, x) => V!Coexistence(t, y)
BY DEF V!Coexistence, Presses

LEMMA PenaltyPresses ==
  ASSUME NEW t, NEW x, NEW y, Presses(x, y)
  PROVE  V!Penalty(t, x) \in Nat /\ V!Penalty(t, y) \in Nat /\ V!Penalty(t, y) <= V!Penalty(t, x)
<1> DEFINE runtime(z) == V!RuntimePenalty(t, z)
           call(z) == V!When(t.table_linked = 0 /\ t.direct_call >= 4,
                             IF z.vmp_metadata_marker THEN 4 ELSE 12)
           switch == V!SwitchPenalty(t)
           one(z) == V!When(t.eligible = 1 /\ ~z.vmp_metadata_marker, 8)
           flat(z) == V!When(z.control_flow_obfuscation_likely /\ t.strong <= 1
                               /\ ~z.vmp_metadata_marker, 22)
           sum(z) == runtime(z) + call(z) + switch + one(z) + flat(z)
<1>1. runtime(x) \in Nat /\ runtime(y) \in Nat /\ runtime(y) <= runtime(x)
  <2>1. V!Reaches(x, V!Structure(t), 25) <=> V!Reaches(y, V!Structure(t), 25)
    BY DEF V!Reaches, Presses
  <2>2. /\ V!ConfirmedRuntime(y) <=> V!ConfirmedRuntime(x)
        /\ V!WeakRuntime(y) <=> V!WeakRuntime(x)
    BY DEF Presses
  <2> QED BY <2>1, <2>2, CoexistencePresses DEF V!RuntimePenalty, V!When
<1>2. call(x) \in Nat /\ call(y) \in Nat /\ call(y) <= call(x) BY DEF V!When, Presses
<1>3. switch \in Nat BY DEF V!SwitchPenalty, V!When
<1>4. one(x) \in Nat /\ one(y) \in Nat /\ one(y) <= one(x) BY DEF V!When, Presses
<1>5. flat(x) \in Nat /\ flat(y) \in Nat /\ flat(y) <= flat(x) BY DEF V!When, Presses
<1>6. V!Penalty(t, x) = V!Capped(45, sum(x)) /\ V!Penalty(t, y) = V!Capped(45, sum(y))
  BY DEF V!Penalty
<1> HIDE DEF runtime, call, switch, one, flat
<1>7. sum(x) \in Nat /\ sum(y) \in Nat /\ sum(y) <= sum(x) BY <1>1, <1>2, <1>3, <1>4, <1>5
<1> HIDE DEF sum
<1> QED BY <1>6, <1>7 DEF V!Capped

LEMMA ScorePresses ==
  ASSUME NEW t, V!Structure(t) \in Int, NEW x, NEW y, Presses(x, y)
  PROVE  V!Score(t, x) \in Int /\ V!Score(t, y) \in Int /\ V!Score(t, x) <= V!Score(t, y)
<1> DEFINE s == V!Structure(t) i == V!Intent(t, x) j == V!Intent(t, y)
           p == V!Penalty(t, x) q == V!Penalty(t, y)
<1>1. i \in Nat /\ j \in Nat /\ i <= j BY IntentPresses
<1>2. p \in Nat /\ q \in Nat /\ q <= p BY PenaltyPresses
<1>3. V!Score(t, x) = 82 * s + 18 * i - 100 * p /\ V!Score(t, y) = 82 * s + 18 * j - 100 * q
  BY DEF V!Score
<1>4. s \in Int OBVIOUS
<1> HIDE DEF s, i, j, p, q
<1> QED BY <1>1, <1>2, <1>3, <1>4

LEMMA PossiblePresses ==
  ASSUME NEW t, V!Structure(t) \in Int, NEW x, NEW y, Presses(x, y), V!Possible(t, x)
  PROVE  V!Possible(t, y)
<1> DEFINE i == V!Intent(t, x) j == V!Intent(t, y)
<1>1. i \in Nat /\ j \in Nat /\ i <= j BY IntentPresses
<1>2. (i >= 15 => j >= 15) /\ (i >= 35 => j >= 35) /\ (i >= 45 => j >= 45) /\ (i >= 55 => j >= 55)
  <2> HIDE DEF i, j
  <2> QED BY <1>1
<1>3. V!RuntimeOverride(t, y)
  BY <1>2, CoexistencePresses DEF V!Possible, V!RuntimeOverride, Presses
<1>4. V!WeakRuntimeOverride(t, y) BY <1>2 DEF V!Possible, V!WeakRuntimeOverride, Presses
<1>5. V!PackingOverride(t, y) BY DEF V!Possible, V!PackingOverride, Presses
<1>6. V!HighPrecision(t, y) BY <1>2 DEF V!Possible, V!HighPrecision, Presses
<1>7. /\ V!MetadataGate(t, x) => V!MetadataGate(t, y)
      /\ V!MetadataThreadedGate(t, x) => V!MetadataThreadedGate(t, y)
  BY DEF V!MetadataGate, V!MetadataThreadedGate, Presses
<1>8. V!AnyGate(t, y) BY <1>2, <1>7 DEF V!Possible, V!AnyGate
<1> DEFINE c == V!VerdictThreshold(t, x) d == V!VerdictThreshold(t, y)
           m == V!Score(t, x) n == V!Score(t, y)
<1>9. c \in Int /\ d \in Int /\ d <= c BY <1>7 DEF V!VerdictThreshold
<1>10. m \in Int /\ n \in Int /\ m <= n BY ScorePresses
<1>11. V!Reaches(x, m, c) /\ y.rounds_down = x.rounds_down BY DEF V!Possible, Presses
<1> HIDE DEF c, d, m, n
<1>12. V!Reaches(y, n, d) BY <1>9, <1>10, <1>11 DEF V!Reaches
<1> QED BY <1>3, <1>4, <1>5, <1>6, <1>8, <1>12 DEF V!Possible, n, d

LEMMA OutcomePresses ==
  ASSUME NEW t, V!Structure(t) \in Int, NEW x, NEW y, Presses(x, y), NEW truncated
  PROVE  /\ V!Outcome(t, x, truncated) = "LIKELY_VMP" => V!Outcome(t, y, truncated) = "LIKELY_VMP"
         /\ V!Outcome(t, y, truncated) = "VM_LIKE_INTERPRETER"
              => V!Outcome(t, x, truncated) = "VM_LIKE_INTERPRETER"
<1>1. V!Possible(t, x) => V!Possible(t, y) BY PossiblePresses
<1>2. V!Coexistence(t, x) => V!Coexistence(t, y) BY CoexistencePresses
<1>3. /\ V!ConfirmedRuntime(y) <=> V!ConfirmedRuntime(x)
      /\ y.code_obscured_by_packing <=> x.code_obscured_by_packing
      /\ V!Reaches(y, V!Structure(t), 25) <=> V!Reaches(x, V!Structure(t), 25)
  BY DEF Presses, V!Reaches
<1> QED BY <1>1, <1>2, <1>3 DEF V!Outcome

(* The structure score is a natural number, whatever the tallies are.      *)
LEMMA GreatestIsThere ==
  ASSUME NEW n \in Nat, NEW S, S \subseteq 0 .. n, S # {}
  PROVE  V!Max(S) \in S
<1> DEFINE T == {n - m : m \in S}
<1>1. T \subseteq Nat /\ T # {}
  <2>1. \A m \in S : m \in Int /\ n - m \in Nat OBVIOUS
  <2> QED BY <2>1
<1>2. PICK k \in T : \A j \in T : k <= j
  <2> HIDE DEF T
  <2> QED BY <1>1, LeastNatural
<1>3. PICK m \in S : k = n - m BY <1>2
<1>4. \A j \in S : m >= j
  <2>1. \A j \in S : n - j \in T /\ j \in Int BY DEF T
  <2>2. \A j \in S : n - m <= n - j BY <1>2, <1>3, <2>1
  <2>3. m \in Int BY <1>3
  <2> QED BY <2>1, <2>2, <2>3
<1> QED BY <1>3, <1>4 DEF V!Max

Ladders == Seq(Nat \X (0 .. 100))
LEMMA TierIsThere ==
  ASSUME NEW value, NEW ladder \in Ladders
  PROVE  V!tier(value, ladder) \in 0 .. 100
<1> DEFINE S == {0} \cup {rung[2] : rung \in {r \in V!ToSet(ladder) : value >= r[1]}}
<1>1. V!ToSet(ladder) \subseteq Nat \X (0 .. 100) BY DEF V!ToSet, Ladders
<1>2. S \subseteq 0 .. 100 /\ S # {} BY <1>1
<1>3. V!tier(value, ladder) = V!Max(S) BY DEF V!tier
<1> HIDE DEF S
<1>4. V!Max(S) \in S BY <1>2, GreatestIsThere
<1> QED BY <1>2, <1>3, <1>4

LEMMA CappedIsThere ==
  ASSUME NEW m \in Nat, NEW n \in Nat, m <= 100
  PROVE  V!Capped(m, n) \in 0 .. 100
BY DEF V!Capped

LEMMA StructureIsNatural ==
  ASSUME NEW t PROVE V!StructureScore(t) \in Nat
<1>1. V!DataflowFamily(t) \in Nat
  <2> DEFINE l == <<<<1, 13>>, <<2, 25>>, <<3, 34>>, <<4, 44>>>>
             k == <<<<2, 4>>, <<3, 7>>, <<5, 10>>, <<8, 12>>>>
             a == V!tier(t.strong, l) b == V!tier(t.classic_medium, k)
             c == V!When(t.table_linked >= 2 \/ t.direct >= 2, 8)
  <2>1. V!DataflowFamily(t) = V!Capped(52, a + b + c) BY DEF V!DataflowFamily
  <2>2. l \in Ladders /\ k \in Ladders BY DEF Ladders
  <2>3. c \in Nat BY DEF V!When
  <2> HIDE DEF l, k
  <2>4. a \in Nat /\ b \in Nat BY <2>2, TierIsThere
  <2> HIDE DEF a, b, c
  <2> QED BY <2>1, <2>3, <2>4, CappedIsThere
<1>2. V!EcologyFamily(t) \in Nat
  <2> DEFINE l == <<<<2, 4>>, <<3, 8>>, <<4, 11>>, <<6, 14>>>>
             k == <<<<2, 3>>, <<3, 6>>, <<4, 8>>, <<6, 9>>>>
             m == <<<<3, 3>>, <<4, 5>>, <<6, 6>>, <<10, 7>>>>
             a == V!tier(t.classic, l) b == V!tier(t.vip, k) c == V!tier(t.cluster, m)
  <2>1. V!EcologyFamily(t) = V!Capped(25, a + b + c) BY DEF V!EcologyFamily
  <2>2. l \in Ladders /\ k \in Ladders /\ m \in Ladders BY DEF Ladders
  <2> HIDE DEF l, k, m
  <2>3. a \in Nat /\ b \in Nat /\ c \in Nat BY <2>2, TierIsThere
  <2> HIDE DEF a, b, c
  <2>4. a + b + c \in Nat BY <2>3
  <2> QED BY <2>1, <2>4, CappedIsThere, SMTT(20)
<1>3. V!StateFamily(t) \in Nat
  <2> DEFINE l == <<<<1, 4>>, <<2, 6>>, <<3, 8>>, <<5, 10>>>>
             k == <<<<1, 3>>, <<2, 5>>, <<3, 7>>, <<5, 8>>>>
             a == V!tier(t.classic_shared_context, l) b == V!tier(t.classic_back_edges, k)
             c == V!When(t.classic >= 4, 4)
             d == V!When((t.call > 0 \/ t.ret > 0) /\ t.classic >= 3, 3)
  <2>1. V!StateFamily(t) = V!Capped(20, a + b + c + d) BY DEF V!StateFamily
  <2>2. l \in Ladders /\ k \in Ladders BY DEF Ladders
  <2>3. c \in Nat /\ d \in Nat BY DEF V!When
  <2> HIDE DEF l, k
  <2>4. a \in Nat /\ b \in Nat BY <2>2, TierIsThere
  <2> HIDE DEF a, b, c, d
  <2>5. a + b + c + d \in Nat BY <2>3, <2>4
  <2> QED BY <2>1, <2>5, CappedIsThere
<1>4. V!ClassicStructure(t) \in 0 .. 100
  <2> DEFINE a == V!Capped(100, V!DataflowFamily(t) + V!EcologyFamily(t) + V!StateFamily(t))
             b == V!When(t.strong >= 1 /\ t.table_linked >= 1 /\ t.advanced >= 1, 56)
             c == V!When(t.cycle, 70)
             d == V!When(t.closed, 78)
  <2>1. V!ClassicStructure(t) = V!Max({a, b, c, d}) BY DEF V!ClassicStructure
  <2>2. a \in 0 .. 100 BY <1>1, <1>2, <1>3, CappedIsThere
  <2>3. b \in 0 .. 100 /\ c \in 0 .. 100 /\ d \in 0 .. 100 BY DEF V!When
  <2> HIDE DEF a, b, c, d
  <2>4. V!Max({a, b, c, d}) \in {a, b, c, d} BY <2>2, <2>3, GreatestIsThere
  <2> QED BY <2>1, <2>2, <2>3, <2>4
<1>5. V!TrampolineStructure(t) \in 0 .. 100
  <2> DEFINE l == <<<<4, 20>>, <<8, 34>>, <<12, 43>>, <<20, 50>>>>
             a == V!tier(t.trampoline, l) b == V!When(t.trampoline >= 4 /\ t.cluster >= 4, 10)
  <2>1. V!TrampolineStructure(t) = V!Capped(62, a + b) BY DEF V!TrampolineStructure
  <2>2. l \in Ladders BY DEF Ladders
  <2>3. b \in Nat BY DEF V!When
  <2> HIDE DEF l
  <2>4. a \in Nat BY <2>2, TierIsThere
  <2> HIDE DEF a, b
  <2>5. a + b \in Nat BY <2>3, <2>4
  <2> QED BY <2>1, <2>5, CappedIsThere
<1>6. V!ConditionalStructure(t) \in 0 .. 108
  <2> DEFINE l == <<<<1, 18>>, <<2, 28>>, <<3, 36>>, <<5, 42>>>>
             a == V!tier(t.conditional, l) b == V!When(t.conditional >= 2 /\ t.vip >= 2, 8)
  <2>1. V!ConditionalStructure(t) = a + b BY DEF V!ConditionalStructure
  <2>2. l \in Ladders BY DEF Ladders
  <2>3. b \in 0 .. 8 BY DEF V!When
  <2> HIDE DEF l
  <2>4. a \in 0 .. 100 BY <2>2, TierIsThere
  <2> HIDE DEF a, b
  <2> QED BY <2>1, <2>3, <2>4
<1> DEFINE a == V!ClassicStructure(t) b == V!TrampolineStructure(t) c == V!ConditionalStructure(t)
<1>7. V!StructureScore(t) = V!Max({a, b, c}) BY DEF V!StructureScore
<1>8. a \in 0 .. 108 /\ b \in 0 .. 108 /\ c \in 0 .. 108 BY <1>4, <1>5, <1>6
<1> HIDE DEF a, b, c
<1>9. V!Max({a, b, c}) \in {a, b, c} BY <1>8, GreatestIsThere
<1> QED BY <1>7, <1>8, <1>9

LEMMA SitesHaveStructure == ASSUME NEW a PROVE V!Structure(Sites(a)) \in Nat
<1> DEFINE bag == IF Seen(a, "no_code") THEN V!EmptyBag
                  ELSE Candidates(IF EmbeddedRuntime(a) THEN a.library.own_sites
                                  ELSE a.library.sites)
           t == V!Counted(bag, 0, 0)
           s == V!StructureScore(t)
<1>1. Sites(a) = V!Tallies(bag, 0, 0) BY DEF Sites
<1> HIDE DEF bag
<1>2. V!Tallies(bag, 0, 0) =
        [f \in DOMAIN t \cup {"structure"} |-> IF f = "structure" THEN s ELSE t[f]]
  BY DEF V!Tallies
<1> HIDE DEF t, s
<1>3. V!Tallies(bag, 0, 0).structure = s BY <1>2
<1> QED BY <1>1, <1>3, StructureIsNatural DEF V!Structure, s

-----------------------------------------------------------------------------
(* An image b of the same library that shows all that a shows.             *)
ShowsMore(a, b) ==
  /\ b.library = a.library
  /\ a.texts \subseteq b.texts /\ a.imports \subseteq b.imports /\ a.signs \subseteq b.signs
  /\ IsFiniteSet(b.texts) /\ IsFiniteSet(b.imports)

LEMMA ShowsFinite ==
  ASSUME NEW a, NEW b, ShowsMore(a, b)
  PROVE  /\ IsFiniteSet(a.texts) /\ IsFiniteSet(a.imports)
         /\ IsFiniteSet(b.texts) /\ IsFiniteSet(b.imports)
BY FS_Subset DEF ShowsMore

LEMMA HeldGrows ==
  ASSUME NEW kind, NEW S, NEW T, S \subseteq T, IsFiniteSet(T)
  PROVE  /\ Cardinality(kind \cap S) \in Nat /\ Cardinality(kind \cap T) \in Nat
         /\ Cardinality(kind \cap S) <= Cardinality(kind \cap T)
<1>1. IsFiniteSet(kind \cap T) /\ kind \cap S \subseteq kind \cap T BY FS_Intersection
<1> QED BY <1>1, FS_Subset, FS_CardinalityType

LEMMA FamilyGrows ==
  ASSUME NEW basename, NEW image, NEW names, NEW wider, NEW others, NEW f,
         image \subseteq wider, names \subseteq others, IsFiniteSet(wider), IsFiniteSet(others)
  PROVE  /\ RuntimeEvidence(basename, image, names, f).classes \in Nat
         /\ RuntimeEvidence(basename, wider, others, f).classes \in Nat
         /\ RuntimeEvidence(basename, image, names, f).classes
              <= RuntimeEvidence(basename, wider, others, f).classes
<1> DEFINE raw(S, T) == Cardinality(f.identities \cap Spelled(S \cup T))
           api(T) == Cardinality(f.apis \cap T)
           named == f.names \cap basename # {}
           classes(S, T) == One(named) + One(raw(S, T) >= 2) + One(api(T) >= 2)
<1>1. \A S, T : RuntimeEvidence(basename, S, T, f).classes = classes(S, T) BY DEF RuntimeEvidence
<1>2. /\ raw(image, names) \in Nat /\ raw(wider, others) \in Nat
      /\ raw(image, names) <= raw(wider, others)
  <2>1. image \cup names \subseteq wider \cup others /\ IsFiniteSet(wider \cup others) BY FS_Union
  <2>2. /\ Spelled(image \cup names) \subseteq Spelled(wider \cup others)
        /\ IsFiniteSet(Spelled(wider \cup others))
    BY <2>1, SpelledGrows
  <2> QED BY <2>2, HeldGrows
<1>3. api(names) \in Nat /\ api(others) \in Nat /\ api(names) <= api(others) BY HeldGrows
<1> HIDE DEF raw, api, named
<1>4. raw(image, names) >= 2 => raw(wider, others) >= 2 BY <1>2
<1>5. api(names) >= 2 => api(others) >= 2 BY <1>3
<1>6. /\ One(raw(image, names) >= 2) <= One(raw(wider, others) >= 2)
      /\ One(api(names) >= 2) <= One(api(others) >= 2)
  BY <1>4, <1>5, OneGrows
<1>7. \A c : One(c) \in 0 .. 1 BY OneRange
<1>8. /\ classes(image, names) \in Nat /\ classes(wider, others) \in Nat
      /\ classes(image, names) <= classes(wider, others)
  BY <1>6, <1>7
<1> QED BY <1>1, <1>8

(* The kinds of runtime evidence only become more. *)
LEMMA RuntimeGrows ==
  ASSUME NEW a, NEW b, ShowsMore(a, b)
  PROVE  /\ Runtime(a).classes \in 0 .. 3 /\ Runtime(b).classes \in 0 .. 3
         /\ Runtime(a).classes <= Runtime(b).classes
         /\ KnownRuntime(a) => KnownRuntime(b)
<1> DEFINE name == a.library.basename
           p == SemanticRuntime(name, a.texts, a.imports)
           q == SemanticRuntime(name, b.texts, b.imports)
<1>1. Runtime(a) = p /\ Runtime(b) = q /\ b.library.basename = name BY DEF Runtime, ShowsMore
<1>2. /\ p \in Evidences /\ q \in Evidences
      /\ OfFamily(name, a.texts, a.imports, p)
      /\ Unbeaten(name, b.texts, b.imports, q, Len(Families))
  BY ShowsFinite, StrongestStands
<1> HIDE DEF p, q
<1>3. p.classes \in 0 .. 3 /\ q.classes \in 0 .. 3 BY <1>2 DEF Evidences
<1>4. p.classes <= q.classes
  <2>1. CASE p.classes = 0 BY <2>1, <1>3
  <2>2. CASE p.classes # 0
    <3>1. PICK i \in ConsideredFamilies(name) :
            p = RuntimeEvidence(name, a.texts, a.imports, Families[i])
      BY <1>2, <2>2 DEF OfFamily
    <3>2. i <= Len(Families) BY TwelveFamilies DEF ConsideredFamilies
    <3> DEFINE r == RuntimeEvidence(name, b.texts, b.imports, Families[i])
    <3>3. AtLeast(q, r) BY <1>2, <3>2 DEF Unbeaten
    <3>4. r.classes \in Nat /\ p.classes <= r.classes
      BY <3>1, ShowsFinite, FamilyGrows DEF ShowsMore
    <3> HIDE DEF r
    <3> QED BY <1>3, <3>3, <3>4 DEF AtLeast
  <2> QED BY <2>1, <2>2
<1>5. KnownRuntime(a) => KnownRuntime(b)
  <2>1. /\ KnownRuntime(a) <=> name \cap KnownNames # {} \/ p.classes > 0
        /\ KnownRuntime(b) <=> name \cap KnownNames # {} \/ q.classes > 0
    BY <1>1 DEF KnownRuntime
  <2> QED BY <1>3, <1>4, <2>1
<1> QED BY <1>1, <1>3, <1>4, <1>5

LEMMA SignsGrow ==
  ASSUME NEW a, NEW b, ShowsMore(a, b)
  PROVE  /\ \A s : Seen(a, s) => Seen(b, s)
         /\ \A s : \A n \in Nat : /\ Weight(a, s, n) \in Nat /\ Weight(b, s, n) \in Nat
                                  /\ Weight(a, s, n) <= Weight(b, s, n)
         /\ Packed(a) => Packed(b)
         /\ Obscured(a) => Obscured(b)
         /\ CodeObscured(a) <=> Obscured(a)
         /\ CodeObscured(b) <=> Obscured(b)
<1>1. \A s : Seen(a, s) => Seen(b, s) BY DEF Seen, ShowsMore
<1> QED BY <1>1 DEF Weight, Packed, Obscured, CodeObscured

LEMMA CountsGrow ==
  ASSUME NEW a, NEW b, ShowsMore(a, b)
  PROVE  /\ LoaderHits(a) \in Nat /\ LoaderHits(b) \in Nat /\ LoaderHits(a) <= LoaderHits(b)
         /\ FewImports(b) => FewImports(a)
<1>1. LoaderHits(a) \in Nat /\ LoaderHits(b) \in Nat /\ LoaderHits(a) <= LoaderHits(b)
  BY HeldGrows DEF LoaderHits, ShowsMore
<1>2. /\ Cardinality(a.imports) \in Nat /\ Cardinality(b.imports) \in Nat
      /\ Cardinality(a.imports) <= Cardinality(b.imports)
  BY FS_Subset, FS_CardinalityType DEF ShowsMore
<1> QED BY <1>1, <1>2, SignsGrow DEF FewImports

LEMMA LeastGrows ==
  ASSUME NEW i \in Nat, NEW j \in Nat, i <= j
  PROVE  /\ Least(10000, i) \in Nat /\ Least(10000, j) \in Nat
         /\ Least(10000, i) <= Least(10000, j)
BY DEF Least

LEMMA PackerGrows ==
  ASSUME NEW a, NEW b, ShowsMore(a, b)
  PROVE  /\ PackerScore(a) \in Nat /\ PackerScore(b) \in Nat
         /\ PackerScore(a) <= PackerScore(b)
<1> DEFINE p == PackerSigns(a) q == PackerSigns(b)
           h == 800 * LoaderHits(a) g == 800 * LoaderHits(b)
           c == Least(5000, h) d == Least(5000, g)
<1>1. p \in Nat /\ q \in Nat /\ p <= q
  <2> DEFINE w(s, n) == Weight(a, s, n) v(s, n) == Weight(b, s, n)
  <2>1. \A s : \A n \in Nat : w(s, n) \in Nat /\ v(s, n) \in Nat /\ w(s, n) <= v(s, n) BY SignsGrow
  <2>2. /\ p = w("rwx", 2200) + w("writable_entry", 1800) + w("init_array", 500)
               + w("some_init", 600) + w("heavy_init", 600) + w("jni_onload", 500)
               + w("blob", 2200) + w("tiny_text", 1800) + w("few_strings", 400)
               + w("hardly_strings", 400) + w("zip", 1500) + w("assets", 1200)
        /\ q = v("rwx", 2200) + v("writable_entry", 1800) + v("init_array", 500)
               + v("some_init", 600) + v("heavy_init", 600) + v("jni_onload", 500)
               + v("blob", 2200) + v("tiny_text", 1800) + v("few_strings", 400)
               + v("hardly_strings", 400) + v("zip", 1500) + v("assets", 1200)
    BY DEF PackerSigns
  <2> HIDE DEF w, v, p, q
  <2> QED BY <2>1, <2>2
<1>2. h \in Nat /\ g \in Nat /\ h <= g
  <2> DEFINE i == LoaderHits(a) j == LoaderHits(b)
  <2>1. i \in Nat /\ j \in Nat /\ i <= j BY CountsGrow
  <2> HIDE DEF i, j
  <2>2. 800 * i \in Nat /\ 800 * j \in Nat /\ 800 * i <= 800 * j BY <2>1
  <2> QED BY <2>2 DEF i, j
<1> HIDE DEF p, q, h, g
<1>3. c \in 0 .. 5000 /\ d \in 0 .. 5000 /\ c <= d BY <1>2 DEF Least
<1>4. PackerScore(a) = Least(10000, c + p) /\ PackerScore(b) = Least(10000, d + q)
  BY DEF PackerScore, p, q, h, g
<1> HIDE DEF c, d
<1> DEFINE m == c + p n == d + q
<1>5. m \in Nat /\ n \in Nat /\ m <= n BY <1>1, <1>3
<1>6. PackerScore(a) = Least(10000, m) /\ PackerScore(b) = Least(10000, n) BY <1>4
<1> HIDE DEF m, n
<1>7. /\ Least(10000, m) \in Nat /\ Least(10000, n) \in Nat
      /\ Least(10000, m) <= Least(10000, n)
  BY <1>5 DEF Least
<1> QED BY <1>6, <1>7

(* What is scored of the instructions is the same: the code is there in     *)
(* both images, or in neither.                                             *)
LEMMA OllvmGrows ==
  ASSUME NEW a, NEW b, ShowsMore(a, b), Seen(a, "no_code") <=> Seen(b, "no_code")
  PROVE  /\ OllvmScore(a) \in Nat /\ OllvmScore(b) \in Nat
         /\ OllvmScore(a) <= OllvmScore(b)
         /\ Abnormal(a) \in Nat /\ Abnormal(b) \in Nat /\ Abnormal(a) <= Abnormal(b)
         /\ ExecEntropy(a) => ExecEntropy(b)
<1> DEFINE k == CodeScore(a.library.code)
           p == OllvmSigns(a) q == OllvmSigns(b)
           x == One(ExecEntropy(a)) y == One(ExecEntropy(b))
           w(s, n) == Weight(a, s, n) v(s, n) == Weight(b, s, n)
<1>1. \A s : \A n \in Nat : w(s, n) \in Nat /\ v(s, n) \in Nat /\ w(s, n) <= v(s, n) BY SignsGrow
<1>2. p \in Nat /\ q \in Nat /\ p <= q
  <2>1. /\ p = w("few_strings", 500) + w("hardly_strings", 500) + w("no_symtab", 1000)
               + w("section_name", 1500)
        /\ q = v("few_strings", 500) + v("hardly_strings", 500) + v("no_symtab", 1000)
               + v("section_name", 1500)
    BY DEF OllvmSigns
  <2> HIDE DEF w, v, p, q
  <2> QED BY <1>1, <2>1
<1>3. k \in Nat
  <2>1. \A c : One(c) \in 0 .. 1 BY OneRange
  <2> DEFINE code == a.library.code
             c1 == One(Above(code, branches(code), 120))
             c2 == One(Above(code, branches(code), 180))
             c3 == One(Above(code, CountOf(code, {"br", "blr"}), 8))
             c4 == One(Above(code, CountOf(code, {"br", "blr"}), 15))
             c5 == One(Above(code, obf_arith(code), 200))
             c6 == One(Above(code, obf_arith(code), 280))
  <2>2. k = 1000 * (c1 + c2 + c3 + c4 + c5 + c6) BY DEF CodeScore
  <2>3. /\ c1 \in 0 .. 1 /\ c2 \in 0 .. 1 /\ c3 \in 0 .. 1 /\ c4 \in 0 .. 1 /\ c5 \in 0 .. 1
        /\ c6 \in 0 .. 1
    BY <2>1
  <2> HIDE DEF k, c1, c2, c3, c4, c5, c6
  <2> QED BY <2>2, <2>3
<1>4. ExecEntropy(a) => ExecEntropy(b) BY SignsGrow DEF ExecEntropy
<1>5. x \in 0 .. 1 /\ y \in 0 .. 1 /\ x <= y BY <1>4, OneRange, OneGrows
<1>6. /\ OllvmScore(a) = Least(10000, k + p + 1200 * x)
      /\ OllvmScore(b) = Least(10000, k + q + 1200 * y)
  BY DEF OllvmScore, ShowsMore
<1> DEFINE m == AbnormalSigns(a) n == AbnormalSigns(b) z == One(~HasDynsym(a))
<1>7. m \in Nat /\ n \in Nat /\ m <= n
  <2>1. /\ m = w("few_sections", 1000) + w("no_symtab", 600) + w("dense_section", 1000)
        /\ n = v("few_sections", 1000) + v("no_symtab", 600) + v("dense_section", 1000)
    BY DEF AbnormalSigns
  <2> HIDE DEF w, v, m, n
  <2> QED BY <1>1, <2>1
<1>8. z \in 0 .. 1 BY OneRange
<1>9. Abnormal(a) = m + 800 * z /\ Abnormal(b) = n + 800 * z
  BY DEF Abnormal, HasDynsym, ShowsMore
<1> HIDE DEF k, p, q, x, y, m, n, z, w, v
<1> DEFINE less == k + p + 1200 * x more == k + q + 1200 * y
<1>10. less \in Nat /\ more \in Nat /\ less <= more BY <1>2, <1>3, <1>5
<1>11. m + 800 * z \in Nat /\ n + 800 * z \in Nat /\ m + 800 * z <= n + 800 * z BY <1>7, <1>8
<1>12. OllvmScore(a) = Least(10000, less) /\ OllvmScore(b) = Least(10000, more) BY <1>6
<1> HIDE DEF less, more
<1>13. /\ Least(10000, less) \in Nat /\ Least(10000, more) \in Nat
       /\ Least(10000, less) <= Least(10000, more)
  BY <1>10, LeastGrows
<1> QED BY <1>4, <1>9, <1>11, <1>12, <1>13

LEMMA HeldEvidenceGrows ==
  ASSUME NEW a, NEW b, ShowsMore(a, b), NEW c, NEW d, ContextGrows(c, d)
  PROVE  Grows(Evidence(c, a.texts, a.imports), Evidence(d, b.texts, b.imports))
<1> DEFINE e == Evidence(c, a.texts, a.imports) f == Evidence(d, b.texts, b.imports)
<1>1. /\ e.context = c /\ e.imports = a.imports
      /\ e.texts = a.texts \cup UNION {Part(x) : x \in a.texts}
      /\ f.context = d /\ f.imports = b.imports
      /\ f.texts = b.texts \cup UNION {Part(x) : x \in b.texts}
      /\ IsFiniteSet(e.texts) /\ IsFiniteSet(f.texts)
  BY EvidenceFields, ShowsFinite
<1>2. UNION {Part(x) : x \in a.texts} \subseteq UNION {Part(x) : x \in b.texts}
  BY DEF ShowsMore
<1> HIDE DEF e, f
<1>3. e.texts \subseteq f.texts /\ e.imports \subseteq f.imports
  BY <1>1, <1>2 DEF ShowsMore
<1>4. Finite(e) /\ Finite(f) BY <1>1, ShowsFinite DEF Finite
<1>5. Grows(e, f) BY <1>1, <1>3, <1>4 DEF Grows
<1> QED BY <1>5 DEF e, f

LEMMA PineGrows ==
  ASSUME NEW a, NEW b, ShowsMore(a, b)
  PROVE  PineIdentity(a) => PineIdentity(b)
<1> DEFINE e == Evidence(0, a.texts, a.imports) f == Evidence(0, b.texts, b.imports)
           m(k) == Hits(k, e) n(k) == Hits(k, f)
<1>1. Grows(e, f)
  <2>1. ContextGrows(0, 0) BY DEF ContextGrows
  <2> QED BY <2>1, HeldEvidenceGrows
<1> HIDE DEF e, f
<1>2. /\ m(PineNames) \in Nat /\ n(PineNames) \in Nat /\ m(PineNames) <= n(PineNames)
      /\ m(PineArt) \in Nat /\ n(PineArt) \in Nat /\ m(PineArt) <= n(PineArt)
  BY <1>1, HitsGrow
<1>3. /\ PineIdentity(a) <=>
           \/ /\ a.library.basename \cap {"libpine.so", "libpinehook.so"} # {}
              /\ m(PineNames) >= 1 /\ m(PineArt) >= 1
           \/ m(PineNames) >= 2 /\ m(PineArt) >= 2
      /\ PineIdentity(b) <=>
           \/ /\ b.library.basename \cap {"libpine.so", "libpinehook.so"} # {}
              /\ n(PineNames) >= 1 /\ n(PineArt) >= 1
           \/ n(PineNames) >= 2 /\ n(PineArt) >= 2
  BY DEF PineIdentity, e, f
<1>4. b.library = a.library BY DEF ShowsMore
<1> DEFINE p == m(PineNames) q == n(PineNames) s == m(PineArt) u == n(PineArt)
<1>5. (p >= 1 => q >= 1) /\ (p >= 2 => q >= 2) /\ (s >= 1 => u >= 1) /\ (s >= 2 => u >= 2)
  <2>1. p \in Nat /\ q \in Nat /\ p <= q /\ s \in Nat /\ u \in Nat /\ s <= u BY <1>2
  <2> HIDE DEF p, q, s, u
  <2> QED BY <2>1
<1> HIDE DEF m, n
<1> QED BY <1>3, <1>4, <1>5

LEMMA LinkerGrows ==
  ASSUME NEW a, NEW b, ShowsMore(a, b), Obscured(b) => Obscured(a)
  PROVE  /\ Linker(a).hook_alternative => Linker(b).hook_alternative
         /\ Rank(Linker(a)) >= 2 => Rank(Linker(b)) >= 2
         /\ Rank(Linker(a)) \in 0 .. 3 /\ Rank(Linker(b)) \in 0 .. 3
         /\ (Linker(b).hook_alternative => Linker(a).hook_alternative)
              => Rank(Linker(b)) >= Rank(Linker(a))
<1> DEFINE c == LinkerContext(a) d == LinkerContext(b)
           e == Evidence(c, a.texts, a.imports) f == Evidence(d, b.texts, b.imports)
<1>1. ContextGrows(c, d)
  <2>1. PineIdentity(a) => PineIdentity(b) BY PineGrows
  <2>2. Obscured(a) = Obscured(b)
    <3>1. Obscured(a) => Obscured(b) BY SignsGrow
    <3> QED BY <3>1 DEF Obscured
  <2>3. b.library = a.library BY DEF ShowsMore
  <2>4. (Seen(a, "blob") => Seen(b, "blob")) /\ (Seen(a, "zip") => Seen(b, "zip")) BY SignsGrow
  <2> QED BY <2>1, <2>2, <2>3, <2>4 DEF LinkerContext, ContextGrows
<1> HIDE DEF c, d
<1>2. Grows(e, f) BY <1>1, HeldEvidenceGrows
<1>3. Linker(a) = analyze(e) /\ Linker(b) = analyze(f) BY DEF Linker, c, d
<1> HIDE DEF e, f
<1>4. /\ Linker(a).hook_alternative = HookAlternative(e)
      /\ Linker(b).hook_alternative = HookAlternative(f)
  BY <1>3 DEF analyze
<1>5. HookAlternative(e) => HookAlternative(f) BY <1>2, AxesGrow
<1>6. /\ Rank(analyze(e)) >= 2 => Rank(analyze(f)) >= 2
      /\ (HookAlternative(f) <=> HookAlternative(e)) => Rank(analyze(f)) >= Rank(analyze(e))
  BY <1>2, RankGrows
<1>7. Rank(analyze(e)) \in 0 .. 3 /\ Rank(analyze(f)) \in 0 .. 3 BY RankOf
<1> HIDE DEF Rank
<1> QED BY <1>3, <1>4, <1>5, <1>6, <1>7

LEMMA OutcomeByRank ==
  ASSUME NEW a
  PROVE  /\ PossibleLinker(Linker(a)) <=> Rank(Linker(a)) = 3
         /\ Linker(a).outcome \in {"CUSTOM_LOADER_COMPONENT", "LIKELY_CUSTOM_LINKER_PROTECTION"}
              <=> Rank(Linker(a)) >= 2
BY DEF PossibleLinker, Rank

-----------------------------------------------------------------------------
(* The packer score and the context that Report judges the sites in.       *)
PackerOf(a) ==
  IF PossibleLinker(Linker(a)) /\ PackerScore(a) < 7200 THEN 7200 ELSE PackerScore(a)
ContextOf(a) == VmpContext(a, Linker(a), PackerOf(a))
FindingsOf(a) ==
  Findings(a, Linker(a), Sites(a), ContextOf(a), V!Score(Sites(a), ContextOf(a)))

LEMMA ReportOf ==
  ASSUME NEW a
  PROVE  /\ Report(a).risk = R!risk_rank(R!Analyzed(1, FindingsOf(a)))
         /\ Report(a).explanations = Explanations(a, Linker(a), ContextOf(a))
<1>1. Report(a) = Judged(a, Linker(a), Sites(a), ContextOf(a)) BY DEF Report, PackerOf, ContextOf
<1> QED BY <1>1 DEF Judged, Summary, FindingsOf

(* What b shows more than a explains nothing, and hides nothing.           *)
Unexplained(a, b) ==
  /\ Linker(b).hook_alternative => Linker(a).hook_alternative
  /\ KnownHook(b, Linker(b)) => KnownHook(a, Linker(a))
  /\ KnownRuntime(b) => KnownRuntime(a)
  /\ Runtime(b).classes >= 1 => Runtime(a).classes >= 1
  /\ Runtime(b).classes >= 2 => Runtime(a).classes >= 2
  /\ Flattened(b, PackerOf(b)) => Flattened(a, PackerOf(a))
  /\ Obscured(b) => Obscured(a)
  /\ Seen(b, "no_code") => Seen(a, "no_code")
  /\ FewImports(a) => FewImports(b)

LEMMA ExplanationsAre ==
  ASSUME NEW a, NEW linker, NEW x
  PROVE  /\ "hook" \in Explanations(a, linker, x) <=> linker.hook_alternative
         /\ "known_hook" \in Explanations(a, linker, x) <=> KnownHook(a, linker)
         /\ "known_runtime" \in Explanations(a, linker, x) <=> KnownRuntime(a)
         /\ "weak_runtime" \in Explanations(a, linker, x) <=> x.runtime_evidence_classes >= 1
         /\ "confirmed_runtime" \in Explanations(a, linker, x) <=> x.runtime_evidence_classes >= 2
         /\ "flattened" \in Explanations(a, linker, x) <=> x.control_flow_obfuscation_likely
         /\ "obscured" \in Explanations(a, linker, x) <=> Obscured(a)
         /\ "no_code" \in Explanations(a, linker, x) <=> Seen(a, "no_code")
         /\ "many_imports" \in Explanations(a, linker, x) <=> ~FewImports(a)
BY DEF Explanations

LEMMA NoReasonIsUnexplained ==
  ASSUME NEW a, NEW b, Report(b).explanations \subseteq Report(a).explanations
  PROVE  Unexplained(a, b)
<1>1. Explanations(b, Linker(b), ContextOf(b)) \subseteq Explanations(a, Linker(a), ContextOf(a))
  BY ReportOf
<1>2. \A e : e \in Explanations(b, Linker(b), ContextOf(b))
               => e \in Explanations(a, Linker(a), ContextOf(a))
  BY <1>1
<1>3. /\ ContextOf(a).runtime_evidence_classes = Runtime(a).classes
      /\ ContextOf(b).runtime_evidence_classes = Runtime(b).classes
      /\ ContextOf(a).control_flow_obfuscation_likely = Flattened(a, PackerOf(a))
      /\ ContextOf(b).control_flow_obfuscation_likely = Flattened(b, PackerOf(b))
  BY DEF ContextOf, VmpContext
<1>4. /\ Linker(b).hook_alternative => Linker(a).hook_alternative
      /\ KnownHook(b, Linker(b)) => KnownHook(a, Linker(a))
      /\ KnownRuntime(b) => KnownRuntime(a)
  BY <1>2, ExplanationsAre
<1>5. /\ Runtime(b).classes >= 1 => Runtime(a).classes >= 1
      /\ Runtime(b).classes >= 2 => Runtime(a).classes >= 2
      /\ Flattened(b, PackerOf(b)) => Flattened(a, PackerOf(a))
  BY <1>2, <1>3, ExplanationsAre
<1>6. /\ Obscured(b) => Obscured(a)
      /\ Seen(b, "no_code") => Seen(a, "no_code")
      /\ FewImports(a) => FewImports(b)
  BY <1>2, ExplanationsAre
<1> QED BY <1>4, <1>5, <1>6 DEF Unexplained

LEMMA ContextPresses ==
  ASSUME NEW a, NEW b, ShowsMore(a, b), Unexplained(a, b)
  PROVE  Presses(ContextOf(a), ContextOf(b)) /\ Sites(b) = Sites(a)
<1> DEFINE x == ContextOf(a) y == ContextOf(b)
<1>1. /\ x.runtime_evidence_classes = Runtime(a).classes
      /\ x.known_non_vm_framework =
           ((KnownRuntime(a) /\ Runtime(a).classes < 2) \/ KnownHook(a, Linker(a)))
      /\ x.vmp_metadata_marker =
           (Seen(a, "vmp_metadata") \/ {"JavaVMP", "interpreter_wrap_"} \subseteq a.texts)
      /\ x.custom_linker_likely = PossibleLinker(Linker(a))
      /\ x.has_large_entropy_blob = Seen(a, "blob")
      /\ x.few_imports_and_init_array = (FewImports(a) /\ Seen(a, "init_array"))
      /\ x.code_obscured_by_packing = CodeObscured(a)
      /\ x.control_flow_obfuscation_likely = Flattened(a, PackerOf(a))
      /\ x.rounds_down = a.library.rounds_down
  BY DEF ContextOf, VmpContext
<1>2. /\ y.runtime_evidence_classes = Runtime(b).classes
      /\ y.known_non_vm_framework =
           ((KnownRuntime(b) /\ Runtime(b).classes < 2) \/ KnownHook(b, Linker(b)))
      /\ y.vmp_metadata_marker =
           (Seen(b, "vmp_metadata") \/ {"JavaVMP", "interpreter_wrap_"} \subseteq b.texts)
      /\ y.custom_linker_likely = PossibleLinker(Linker(b))
      /\ y.has_large_entropy_blob = Seen(b, "blob")
      /\ y.few_imports_and_init_array = (FewImports(b) /\ Seen(b, "init_array"))
      /\ y.code_obscured_by_packing = CodeObscured(b)
      /\ y.control_flow_obfuscation_likely = Flattened(b, PackerOf(b))
      /\ y.rounds_down = b.library.rounds_down
  BY DEF ContextOf, VmpContext
<1>3. b.library = a.library /\ a.texts \subseteq b.texts /\ \A s : Seen(a, s) => Seen(b, s)
  BY SignsGrow DEF ShowsMore
<1>4. PossibleLinker(Linker(a)) => PossibleLinker(Linker(b))
  <2> DEFINE m == Rank(Linker(a)) n == Rank(Linker(b))
  <2>1. m \in 0 .. 3 /\ n \in 0 .. 3 /\ n >= m BY LinkerGrows DEF Unexplained
  <2>2. (PossibleLinker(Linker(a)) <=> m = 3) /\ (PossibleLinker(Linker(b)) <=> n = 3)
    BY OutcomeByRank
  <2> HIDE DEF m, n
  <2> QED BY <2>1, <2>2
<1> DEFINE p == Runtime(a).classes q == Runtime(b).classes
<1>5. p \in 0 .. 3 /\ q \in 0 .. 3 /\ p <= q BY RuntimeGrows
<1>6. (q >= 1 => p >= 1) /\ (q >= 2 => p >= 2) BY DEF Unexplained
<1> HIDE DEF p, q, x, y
<1>7. /\ (V!ConfirmedRuntime(x) <=> p >= 2) /\ (V!WeakRuntime(x) <=> p = 1)
      /\ (V!ConfirmedRuntime(y) <=> q >= 2) /\ (V!WeakRuntime(y) <=> q = 1)
  BY <1>1, <1>2 DEF V!ConfirmedRuntime, V!WeakRuntime, p, q
<1>8. /\ V!ConfirmedRuntime(y) <=> V!ConfirmedRuntime(x)
      /\ V!WeakRuntime(y) <=> V!WeakRuntime(x)
  BY <1>5, <1>6, <1>7
<1>9. y.known_non_vm_framework => x.known_non_vm_framework
  <2>1. q < 2 => p < 2 BY <1>5
  <2> QED BY <1>1, <1>2, <2>1 DEF Unexplained, p, q
<1>10. /\ x.vmp_metadata_marker => y.vmp_metadata_marker
       /\ x.custom_linker_likely => y.custom_linker_likely
       /\ x.has_large_entropy_blob => y.has_large_entropy_blob
       /\ x.few_imports_and_init_array => y.few_imports_and_init_array
  BY <1>1, <1>2, <1>3, <1>4 DEF Unexplained
<1>11. /\ y.code_obscured_by_packing <=> x.code_obscured_by_packing
       /\ y.control_flow_obfuscation_likely => x.control_flow_obfuscation_likely
       /\ y.rounds_down = x.rounds_down
  BY <1>1, <1>2, <1>3, SignsGrow DEF Unexplained
<1>12. Presses(x, y) BY <1>8, <1>9, <1>10, <1>11 DEF Presses
<1>13. Sites(b) = Sites(a)
  <2>1. Seen(b, "no_code") = Seen(a, "no_code")
    BY <1>3 DEF Unexplained, Seen
  <2>2. EmbeddedRuntime(b) = EmbeddedRuntime(a) BY <1>3 DEF EmbeddedRuntime, Anchors
  <2> QED BY <1>3, <2>1, <2>2 DEF Sites
<1> QED BY <1>12, <1>13 DEF x, y

-----------------------------------------------------------------------------
(* Findings g that speak for all that the findings f speak for.            *)
Worse(f, g) ==
  /\ f.packer \in Nat /\ g.packer \in Nat /\ f.packer <= g.packer
  /\ f.ollvm \in Nat /\ g.ollvm \in Nat /\ f.ollvm <= g.ollvm
  /\ f.abnormal \in Nat /\ g.abnormal \in Nat /\ f.abnormal <= g.abnormal
  /\ f.vmp_score \in Nat /\ g.vmp_score \in Nat /\ f.vmp_score <= g.vmp_score
  /\ f.structure \in Nat /\ g.structure = f.structure
  /\ R!PossibleLinker(f) => R!PossibleLinker(g)
  /\ R!LoaderComponent(f) => R!LoaderComponent(g)
  /\ R!VmpPossible(f) => R!VmpPossible(g)
  /\ f.known_hook_framework => g.known_hook_framework \/ R!LoaderComponent(g)
  /\ R!PlainKnownRuntime(g) => R!PlainKnownRuntime(f)
  /\ R!PlainKnownHook(g) => R!PlainKnownHook(f)

Scored(r) == r.packer_score \in Nat /\ r.ollvm_score \in Nat /\ r.strong_obf_score \in Nat
LEMMA ScoresOfWorse ==
  ASSUME NEW f, NEW g, Worse(f, g), ~R!VmpPossible(g)
  PROVE  /\ Scored(R!Capped(f)) /\ Scored(R!Capped(g))
         /\ R!Capped(f).packer_score <= R!Capped(g).packer_score
         /\ R!Capped(f).ollvm_score <= R!Capped(g).ollvm_score
         /\ R!Capped(f).strong_obf_score <= R!Capped(g).strong_obf_score
<1> DEFINE p == R!Packer(f) q == R!Packer(g) o == f.ollvm u == g.ollvm
           c == f.abnormal d == g.abnormal e == f.structure
           s == R!StrongObf(f) t == R!StrongObf(g)
           one == R!PlainKnownRuntime(f) \/ R!PlainKnownHook(f)
           two == R!PlainKnownRuntime(g) \/ R!PlainKnownHook(g)
<1>1. p \in Nat /\ q \in Nat /\ p <= q BY DEF Worse, R!Packer, R!AtLeast
<1>2. /\ o \in Nat /\ u \in Nat /\ o <= u /\ c \in Nat /\ d \in Nat /\ c <= d
      /\ e \in Nat /\ g.structure = e
      /\ ~R!VmpPossible(f) /\ (two => one)
  BY DEF Worse
<1>3. /\ s = R!AtMost(10000, R!AtMost(10000, (55 * p + 65 * o) \div 100 + c)
                               + (6 * e) \div 100)
      /\ t = R!AtMost(10000, R!AtMost(10000, (55 * q + 65 * u) \div 100 + d)
                               + (6 * e) \div 100)
  BY <1>2 DEF R!StrongObf
<1>4. /\ R!Capped(f).packer_score = IF one THEN R!AtMost(p, 4400) ELSE p
      /\ R!Capped(f).ollvm_score = IF one THEN R!AtMost(o, 4900) ELSE o
      /\ R!Capped(f).strong_obf_score = IF one THEN R!AtMost(s, 4900) ELSE s
      /\ R!Capped(g).packer_score = IF two THEN R!AtMost(q, 4400) ELSE q
      /\ R!Capped(g).ollvm_score = IF two THEN R!AtMost(u, 4900) ELSE u
      /\ R!Capped(g).strong_obf_score = IF two THEN R!AtMost(t, 4900) ELSE t
  BY DEF R!Capped
<1> HIDE DEF p, q, o, u, c, d, e, s, t, one, two
<1>5. s \in Nat /\ t \in Nat /\ s <= t
  <2> DEFINE m == (55 * p + 65 * o) \div 100 n == (55 * q + 65 * u) \div 100
             k == (6 * e) \div 100
             a == R!AtMost(10000, m + c) b == R!AtMost(10000, n + d)
  <2>1. m \in Nat /\ n \in Nat /\ m <= n BY <1>1, <1>2
  <2>2. k \in Nat BY <1>2
  <2>3. s = R!AtMost(10000, a + k) /\ t = R!AtMost(10000, b + k) BY <1>3
  <2> HIDE DEF m, n, k
  <2>4. a \in Nat /\ b \in Nat /\ a <= b BY <2>1, <1>2 DEF R!AtMost
  <2> HIDE DEF a, b
  <2> QED BY <2>2, <2>3, <2>4 DEF R!AtMost
<1>7. /\ R!AtMost(p, 4400) \in Nat /\ R!AtMost(q, 4400) \in Nat
      /\ R!AtMost(p, 4400) <= q /\ R!AtMost(p, 4400) <= R!AtMost(q, 4400)
      /\ R!AtMost(o, 4900) \in Nat /\ R!AtMost(u, 4900) \in Nat
      /\ R!AtMost(o, 4900) <= u /\ R!AtMost(o, 4900) <= R!AtMost(u, 4900)
      /\ R!AtMost(s, 4900) \in Nat /\ R!AtMost(t, 4900) \in Nat
      /\ R!AtMost(s, 4900) <= t /\ R!AtMost(s, 4900) <= R!AtMost(t, 4900)
  BY <1>1, <1>2, <1>5 DEF R!AtMost
<1>8. CASE one /\ two BY <1>4, <1>7, <1>8 DEF Scored
<1>9. CASE one /\ ~two BY <1>1, <1>2, <1>4, <1>5, <1>7, <1>9 DEF Scored
<1>10. CASE ~one /\ ~two BY <1>1, <1>2, <1>4, <1>5, <1>10 DEF Scored
<1> QED BY <1>2, <1>8, <1>9, <1>10

LEMMA WorseIsRiskier ==
  ASSUME NEW f, NEW g, Worse(f, g)
  PROVE  R!risk_rank(R!Elf(1, g)) >= R!risk_rank(R!Elf(1, f))
<1> DEFINE r == R!Elf(1, f) z == R!Elf(1, g)
<1>1. /\ r.vmp_protected_client = FALSE /\ r.linker = f.linker /\ r.outcome = f.outcome
      /\ r.packer_score = R!Capped(f).packer_score /\ r.ollvm_score = R!Capped(f).ollvm_score
      /\ r.strong_obf_score = R!Capped(f).strong_obf_score /\ r.vmp_score = f.vmp_score
      /\ r.known_hook_framework = f.known_hook_framework
  BY DEF R!Elf
<1>2. /\ z.vmp_protected_client = FALSE /\ z.linker = g.linker /\ z.outcome = g.outcome
      /\ z.packer_score = R!Capped(g).packer_score /\ z.ollvm_score = R!Capped(g).ollvm_score
      /\ z.strong_obf_score = R!Capped(g).strong_obf_score /\ z.vmp_score = g.vmp_score
      /\ z.known_hook_framework = g.known_hook_framework
  BY DEF R!Elf
<1> HIDE DEF r, z
<1>3. /\ (R!PossibleLinker(r) <=> R!PossibleLinker(f))
      /\ (R!PossibleLinker(z) <=> R!PossibleLinker(g))
      /\ (R!LoaderComponent(r) <=> R!LoaderComponent(f))
      /\ (R!LoaderComponent(z) <=> R!LoaderComponent(g))
      /\ (R!VmpPossible(r) <=> R!VmpPossible(f)) /\ (R!VmpPossible(z) <=> R!VmpPossible(g))
  BY <1>1, <1>2 DEF R!PossibleLinker, R!LoaderComponent, R!VmpPossible
<1>4. CASE R!VmpPossible(g)
  <2>1. R!is_high_risk_result(z) BY <1>3, <1>4 DEF R!is_high_risk_result
  <2> QED BY <2>1 DEF R!risk_rank, r, z
<1>5. CASE ~R!VmpPossible(g)
  <2> DEFINE p == r.packer_score q == z.packer_score o == r.ollvm_score u == z.ollvm_score
             s == r.strong_obf_score t == z.strong_obf_score
             v == r.vmp_score w == z.vmp_score
  <2>1. /\ p \in Nat /\ q \in Nat /\ p <= q /\ o \in Nat /\ u \in Nat /\ o <= u
        /\ s \in Nat /\ t \in Nat /\ s <= t
    BY <1>1, <1>2, <1>5, ScoresOfWorse DEF Scored
  <2>2. v \in Nat /\ w \in Nat /\ v <= w BY <1>1, <1>2 DEF Worse
  <2>3. /\ ~R!VmpPossible(r) /\ (R!PossibleLinker(r) => R!PossibleLinker(z))
        /\ R!LoaderComponent(r) => R!LoaderComponent(z)
        /\ r.known_hook_framework => z.known_hook_framework \/ R!LoaderComponent(z)
    BY <1>1, <1>2, <1>3, <1>5 DEF Worse
  <2>4. /\ R!is_high_risk_result(r) <=>
             \/ R!PossibleLinker(r) \/ p >= 6800 \/ s >= 7000 \/ (p >= 6200 /\ s >= 5800)
             \/ (o >= 6500 /\ s >= 6000)
        /\ R!PossibleLinker(z) \/ q >= 6800 \/ t >= 7000 \/ (q >= 6200 /\ t >= 5800)
             \/ (u >= 6500 /\ t >= 6000) => R!is_high_risk_result(z)
    BY <1>1, <2>3 DEF R!is_high_risk_result
  <2>5. /\ R!is_medium_risk_result(r) <=>
             \/ r.known_hook_framework \/ R!LoaderComponent(r)
             \/ p >= 4500 \/ o >= 5000 \/ s >= 5000 \/ v >= 5000
        /\ R!is_medium_risk_result(z) <=>
             \/ z.known_hook_framework \/ R!LoaderComponent(z)
             \/ q >= 4500 \/ u >= 5000 \/ t >= 5000 \/ w >= 5000
    BY DEF R!is_medium_risk_result
  <2> HIDE DEF p, q, o, u, s, t, v, w
  <2>6. /\ (p >= 6800 => q >= 6800) /\ (p >= 6200 => q >= 6200) /\ (p >= 4500 => q >= 4500)
        /\ (o >= 6500 => u >= 6500) /\ (o >= 5000 => u >= 5000)
        /\ (s >= 7000 => t >= 7000) /\ (s >= 5800 => t >= 5800) /\ (s >= 6000 => t >= 6000)
        /\ (s >= 5000 => t >= 5000) /\ (v >= 5000 => w >= 5000)
    BY <2>1, <2>2
  <2>7. R!is_high_risk_result(r) => R!is_high_risk_result(z) BY <2>3, <2>4, <2>6
  <2>8. R!is_medium_risk_result(r) => R!is_medium_risk_result(z) BY <2>3, <2>5, <2>6
  <2> QED BY <2>7, <2>8 DEF R!risk_rank, r, z
<1> QED BY <1>4, <1>5

LEMMA FindingsAre ==
  ASSUME NEW a
  PROVE  LET f == FindingsOf(a)  t == Sites(a)  x == ContextOf(a)
         IN  /\ f.image = "elf" /\ f.packer = PackerScore(a) /\ f.ollvm = OllvmScore(a)
             /\ f.abnormal = Abnormal(a) /\ f.linker = Linker(a).outcome
             /\ f.outcome = V!Outcome(t, x, a.library.truncated /\ ~Seen(a, "no_code"))
             /\ f.vmp_score = IF V!Score(t, x) > 0 THEN V!Score(t, x) ELSE 0
             /\ f.structure = 100 * V!Structure(t) /\ f.intent = 100 * V!Intent(t, x)
             /\ f.known_hook_framework = KnownHook(a, Linker(a))
             /\ f.known_runtime_framework = KnownRuntime(a) /\ f.packed = Packed(a)
BY DEF FindingsOf, Findings

LEMMA FindingsGetWorse ==
  ASSUME NEW a, NEW b, ShowsMore(a, b), Unexplained(a, b)
  PROVE  Worse(FindingsOf(a), FindingsOf(b))
<1> DEFINE f == FindingsOf(a) g == FindingsOf(b)
           t == Sites(a) x == ContextOf(a) y == ContextOf(b)
           cut == a.library.truncated /\ ~Seen(a, "no_code")
<1>1. Presses(x, y) /\ Sites(b) = t BY ContextPresses
<1>2. Seen(a, "no_code") = Seen(b, "no_code")
  BY SignsGrow DEF Unexplained, Seen
<1>3. /\ f.packer = PackerScore(a) /\ f.ollvm = OllvmScore(a)
      /\ f.abnormal = Abnormal(a) /\ f.linker = Linker(a).outcome
      /\ f.outcome = V!Outcome(t, x, cut)
      /\ f.vmp_score = IF V!Score(t, x) > 0 THEN V!Score(t, x) ELSE 0
      /\ f.structure = 100 * V!Structure(t) /\ f.intent = 100 * V!Intent(t, x)
      /\ f.known_hook_framework = KnownHook(a, Linker(a))
      /\ f.known_runtime_framework = KnownRuntime(a) /\ f.packed = Packed(a)
  BY FindingsAre
<1>4. /\ g.packer = PackerScore(b) /\ g.ollvm = OllvmScore(b)
      /\ g.abnormal = Abnormal(b) /\ g.linker = Linker(b).outcome
      /\ g.outcome = V!Outcome(t, y, cut)
      /\ g.vmp_score = IF V!Score(t, y) > 0 THEN V!Score(t, y) ELSE 0
      /\ g.structure = 100 * V!Structure(t) /\ g.intent = 100 * V!Intent(t, y)
      /\ g.known_hook_framework = KnownHook(b, Linker(b))
      /\ g.known_runtime_framework = KnownRuntime(b) /\ g.packed = Packed(b)
  <2>1. b.library = a.library BY DEF ShowsMore
  <2> QED BY <1>1, <1>2, <2>1, FindingsAre
<1>5. V!Structure(t) \in Nat BY SitesHaveStructure
<1> HIDE DEF f, g, t, x, y, cut
<1>6. /\ f.packer \in Nat /\ g.packer \in Nat /\ f.packer <= g.packer
      /\ f.ollvm \in Nat /\ g.ollvm \in Nat /\ f.ollvm <= g.ollvm
      /\ f.abnormal \in Nat /\ g.abnormal \in Nat /\ f.abnormal <= g.abnormal
  <2>1. /\ PackerScore(a) \in Nat /\ PackerScore(b) \in Nat
        /\ PackerScore(a) <= PackerScore(b)
    BY PackerGrows
  <2>2. /\ OllvmScore(a) \in Nat /\ OllvmScore(b) \in Nat
        /\ OllvmScore(a) <= OllvmScore(b)
        /\ Abnormal(a) \in Nat /\ Abnormal(b) \in Nat /\ Abnormal(a) <= Abnormal(b)
    BY <1>2, OllvmGrows
  <2> QED BY <1>3, <1>4, <2>1, <2>2, Zenon
<1>7. f.vmp_score \in Nat /\ g.vmp_score \in Nat /\ f.vmp_score <= g.vmp_score
  <2> DEFINE m == V!Score(t, x) n == V!Score(t, y)
  <2>1. m \in Int /\ n \in Int /\ m <= n BY <1>1, <1>5, ScorePresses
  <2>2. f.vmp_score = (IF m > 0 THEN m ELSE 0) /\ g.vmp_score = (IF n > 0 THEN n ELSE 0)
    BY <1>3, <1>4
  <2> HIDE DEF m, n
  <2> QED BY <2>1, <2>2
<1>8. f.structure \in Nat /\ g.structure = f.structure
  <2> DEFINE s == V!Structure(t)
  <2>1. s \in Nat /\ f.structure = 100 * s /\ g.structure = 100 * s BY <1>3, <1>4, <1>5
  <2> HIDE DEF s
  <2> QED BY <2>1
<1>9. /\ R!PossibleLinker(f) => R!PossibleLinker(g)
      /\ R!LoaderComponent(f) => R!LoaderComponent(g)
      /\ f.known_hook_framework => g.known_hook_framework \/ R!LoaderComponent(g)
  <2> DEFINE m == Rank(Linker(a)) n == Rank(Linker(b))
  <2>1. m \in 0 .. 3 /\ n \in 0 .. 3 /\ n >= m BY LinkerGrows DEF Unexplained
  <2>2. /\ R!PossibleLinker(f) <=> m = 3
        /\ R!PossibleLinker(g) <=> n = 3
        /\ R!LoaderComponent(f) <=> m >= 2
        /\ R!LoaderComponent(g) <=> n >= 2
    BY <1>3, <1>4, OutcomeByRank DEF R!PossibleLinker, R!LoaderComponent, PossibleLinker
  <2>3. ASSUME KnownHook(a, Linker(a)) PROVE KnownHook(b, Linker(b)) \/ n >= 2
    <3>1. CASE PineIdentity(a) BY <3>1, PineGrows DEF KnownHook
    <3>2. CASE ~PineIdentity(a)
      <4>1. Linker(a).hook_alternative /\ Linker(a).outcome = "ELF_INSPECTION_OR_HOOK"
        BY <2>3, <3>2 DEF KnownHook
      <4>2. Linker(b).hook_alternative BY <4>1, LinkerGrows DEF Unexplained
      <4>3. m = 1 BY <4>1 DEF Rank
      <4>4. n = 1 => Linker(b).outcome = "ELF_INSPECTION_OR_HOOK" BY DEF Rank
      <4> HIDE DEF m, n
      <4>5. n = 1 \/ n >= 2 BY <2>1, <4>3
      <4> QED BY <4>2, <4>4, <4>5 DEF KnownHook
    <3> QED BY <3>1, <3>2
  <2> HIDE DEF m, n
  <2> QED BY <1>3, <1>4, <2>1, <2>2, <2>3
<1>10. /\ R!VmpPossible(f) => R!VmpPossible(g)
       /\ g.outcome = "VM_LIKE_INTERPRETER" => f.outcome = "VM_LIKE_INTERPRETER"
  <2>1. V!Structure(t) \in Int BY <1>5
  <2>2. /\ V!Outcome(t, x, cut) = "LIKELY_VMP" => V!Outcome(t, y, cut) = "LIKELY_VMP"
        /\ V!Outcome(t, y, cut) = "VM_LIKE_INTERPRETER"
             => V!Outcome(t, x, cut) = "VM_LIKE_INTERPRETER"
    BY <1>1, <2>1, OutcomePresses
  <2> QED BY <1>3, <1>4, <2>2 DEF R!VmpPossible
<1>11. g.intent < 5000 => f.intent < 5000
  <2> DEFINE i == V!Intent(t, x) j == V!Intent(t, y)
  <2>1. i \in 0 .. 100 /\ j \in 0 .. 100 /\ i <= j BY <1>1, IntentPresses
  <2>2. f.intent = 100 * i /\ g.intent = 100 * j BY <1>3, <1>4
  <2> HIDE DEF i, j
  <2>3. 100 * j < 5000 => 100 * i < 5000 BY <2>1
  <2> QED BY <2>2, <2>3
<1>12. /\ g.known_runtime_framework => f.known_runtime_framework
       /\ g.known_hook_framework => f.known_hook_framework
       /\ f.packed => g.packed
  BY <1>3, <1>4, SignsGrow DEF Unexplained
<1>13. /\ R!PlainKnownRuntime(g) => R!PlainKnownRuntime(f)
       /\ R!PlainKnownHook(g) => R!PlainKnownHook(f)
  BY <1>9, <1>10, <1>11, <1>12 DEF R!PlainKnownRuntime, R!PlainKnownHook
<1>14. Worse(f, g) BY <1>6, <1>7, <1>8, <1>9, <1>10, <1>13 DEF Worse
<1> QED BY <1>14 DEF f, g

LEMMA MoreIsRiskier ==
  ASSUME NEW a, NEW b, ShowsMore(a, b),
         Report(b).explanations \subseteq Report(a).explanations
  PROVE  Report(b).risk >= Report(a).risk
<1> DEFINE f == FindingsOf(a) g == FindingsOf(b)
<1>1. Worse(f, g) BY NoReasonIsUnexplained, FindingsGetWorse
<1>2. f.image = "elf" /\ g.image = "elf" BY FindingsAre
<1>3. /\ Report(a).risk = R!risk_rank(R!Analyzed(1, f))
      /\ Report(b).risk = R!risk_rank(R!Analyzed(1, g))
  BY ReportOf
<1> HIDE DEF f, g
<1>4. R!Analyzed(1, f) = R!Elf(1, f) /\ R!Analyzed(1, g) = R!Elf(1, g)
  BY <1>2 DEF R!Analyzed
<1> QED BY <1>1, <1>3, <1>4, WorseIsRiskier

(* RiskNeverFalls: one more sign, text or import never lowers the risk of a *)
(* library, unless it explains the library or hides it.                    *)
THEOREM MoreEvidenceMoreRisk == ScoresSpec => RiskNeverFalls
<1> DEFINE A == report'.explanations \subseteq report.explanations => report'.risk >= report.risk
           a == Image(library, texts, imports, signs)
<1>1. ASSUME Reported, NEW t, NEW i, NEW s, IsFiniteSet(t), IsFiniteSet(i),
             Meet(Image(library, t, i, s)),
             texts \subseteq t, imports \subseteq i, signs \subseteq s
      PROVE  A
  <2> DEFINE b == Image(library, t, i, s)
  <2>1. ShowsMore(a, b) BY <1>1, ImageFields DEF ShowsMore
  <2>2. report = Report(a) /\ report' = Report(b) BY <1>1 DEF Reported, Meet
  <2> HIDE DEF a, b
  <2> QED BY <2>1, <2>2, MoreIsRiskier
<1>2. Reported /\ [ScoresNext]_found => [A]_found
  <2> SUFFICES ASSUME Reported, ScoresNext PROVE A OBVIOUS
  <2> HIDE DEF A
  <2>1. CASE MeetText
    <3>1. PICK t \in Texts \ texts : Meet(Image(library, texts \cup {t}, imports, signs))
      BY <2>1 DEF MeetText
    <3>2. IsFiniteSet(texts \cup {t}) BY FS_AddElement DEF Reported
    <3> QED BY <1>1, <3>1, <3>2 DEF Reported
  <2>2. CASE MeetImport
    <3>1. PICK n \in Names \ imports : Meet(Image(library, texts, imports \cup {n}, signs))
      BY <2>2 DEF MeetImport
    <3>2. IsFiniteSet(imports \cup {n}) BY FS_AddElement DEF Reported
    <3> QED BY <1>1, <3>1, <3>2 DEF Reported
  <2>3. CASE MeetSign
    <3>1. PICK s \in Signs \ signs : Meet(Image(library, texts, imports, signs \cup {s}))
      BY <2>3 DEF MeetSign
    <3> QED BY <1>1, <3>1 DEF Reported
  <2> QED BY <2>1, <2>2, <2>3 DEF ScoresNext
<1> QED BY <1>2, ReportIsOfTheEvidence, PTL DEF ScoresSpec, RiskNeverFalls

=============================================================================
