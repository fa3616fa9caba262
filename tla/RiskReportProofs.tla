-------------------------- MODULE RiskReportProofs --------------------------
(***************************************************************************)
(* What the report says, for every package and whatever the detectors      *)
(* found: labels and risks agree, the protected clients are exactly those  *)
(* the dependencies make, and the report is in the order of the risk.      *)
(***************************************************************************)
EXTENDS RiskReport, FiniteSetTheorems, WellFoundedInduction, TLAPS

(* The least element of a set of natural numbers. *)
LEMMA LeastNatural ==
  ASSUME NEW T, T \subseteq Nat, T # {}
  PROVE  \E x \in T : \A y \in T : x <= y
<1>1. \E x \in T : \A y \in T : ~(<<y, x>> \in OpToRel(<, Nat))
  BY WFMin, NatLessThanWellFounded
<1>2. PICK x \in T : \A y \in T : ~(<<y, x>> \in OpToRel(<, Nat)) BY <1>1
<1>3. \A y \in T : ~(y < x) BY <1>2 DEF OpToRel
<1> QED BY <1>3

-----------------------------------------------------------------------------
IsScore(x) == x \in Int /\ 0 <= x /\ x <= 10000
LEMMA ScoreRange ==
  /\ \A x : x \in Scores => IsScore(x)
  /\ \A x : IsScore(x) => x \in Scores
<1>1. ASSUME NEW x, x \in Scores PROVE IsScore(x) BY <1>1 DEF Scores, IsScore
<1>2. ASSUME NEW x, IsScore(x) PROVE x \in Scores BY <1>2 DEF Scores, IsScore
<1> QED BY <1>1, <1>2

(* The scores, capped or not, stay scores. *)
LEMMA ScoresTyped ==
  ASSUME NEW f \in Findings
  PROVE  /\ Capped(f).packer_score \in Scores /\ Capped(f).ollvm_score \in Scores
         /\ Capped(f).strong_obf_score \in Scores
         /\ PlainKnownHook(f) => /\ Capped(f).packer_score <= 4400
                                 /\ Capped(f).ollvm_score <= 4900
                                 /\ Capped(f).strong_obf_score <= 4900
<1>1. /\ f.packer \in Scores /\ f.ollvm \in Scores /\ f.abnormal \in Scores
      /\ f.structure \in Scores
  BY DEF Findings
<1>2. IsScore(f.packer) /\ IsScore(f.ollvm) /\ IsScore(f.abnormal) /\ IsScore(f.structure) BY <1>1, ScoreRange
<1>3. IsScore(Packer(f)) BY <1>2 DEF Packer, AtLeast, IsScore
<1>4. \A p, o \in Nat : (55 * p + 65 * o) \div 100 \in Nat /\ (6 * p) \div 100 \in Nat
  OBVIOUS
<1>5. IsScore(StrongObf(f))
  <2> DEFINE mixed == (55 * Packer(f) + 65 * f.ollvm) \div 100
             base == AtMost(10000, mixed + f.abnormal)
             more == IF VmpPossible(f) THEN 1400 ELSE (6 * f.structure) \div 100
  <2>1. mixed \in Nat BY <1>2, <1>3, <1>4 DEF IsScore
  <2>2. more \in Nat BY <1>2, <1>4 DEF IsScore
  <2>3. StrongObf(f) = AtMost(10000, base + more) BY DEF StrongObf
  <2> HIDE DEF mixed, more
  <2>4. IsScore(base) BY <1>2, <2>1 DEF AtMost, IsScore
  <2> HIDE DEF base
  <2> QED BY <2>2, <2>3, <2>4 DEF AtMost, IsScore
<1> DEFINE plain == PlainKnownRuntime(f) \/ PlainKnownHook(f)
<1>6. /\ Capped(f).packer_score = IF plain THEN AtMost(Packer(f), 4400) ELSE Packer(f)
      /\ Capped(f).ollvm_score = IF plain THEN AtMost(f.ollvm, 4900) ELSE f.ollvm
      /\ Capped(f).strong_obf_score = IF plain THEN AtMost(StrongObf(f), 4900) ELSE StrongObf(f)
  BY DEF Capped
<1>7. PlainKnownHook(f) => plain OBVIOUS
<1> HIDE DEF plain
<1>8. IsScore(Capped(f).packer_score) /\ IsScore(Capped(f).ollvm_score) /\ IsScore(Capped(f).strong_obf_score)
  BY <1>2, <1>3, <1>5, <1>6 DEF AtMost, IsScore
<1>9. PlainKnownHook(f) => /\ Capped(f).packer_score <= 4400
                           /\ Capped(f).ollvm_score <= 4900
                           /\ Capped(f).strong_obf_score <= 4900
  BY <1>2, <1>3, <1>5, <1>6, <1>7 DEF AtMost, IsScore
<1> QED BY <1>8, <1>9, ScoreRange

(* Whatever analyze_so finds, label and risk of its result agree. *)
LEMMA AnalyzedIsConsistent ==
  ASSUME NEW n, NEW f \in Findings
  PROVE  Consistent(Analyzed(n, f))
<1>1. CASE f.image = "elf"
  <2> DEFINE r == Analyzed(n, f)
             s == Capped(f)
  <2>1. r = Elf(n, f) BY <1>1 DEF Analyzed
  <2>2. /\ r.final_label = FinalLabel(f, s) /\ r.outcome = f.outcome /\ r.linker = f.linker
        /\ r.known_hook_framework = f.known_hook_framework
        /\ r.packer_score = s.packer_score /\ r.ollvm_score = s.ollvm_score
        /\ r.strong_obf_score = s.strong_obf_score /\ r.vmp_protected_client = FALSE
    BY <2>1 DEF Elf, Blank
  <2>3. /\ PossibleLinker(r) <=> PossibleLinker(f)
        /\ VmpPossible(r) <=> VmpPossible(f)
        /\ LoaderComponent(r) <=> LoaderComponent(f)
    BY <2>2 DEF PossibleLinker, VmpPossible, LoaderComponent
  <2>4. /\ IsScore(s.packer_score) /\ IsScore(s.ollvm_score) /\ IsScore(s.strong_obf_score)
        /\ PlainKnownHook(f) => s.packer_score <= 4400 /\ s.ollvm_score <= 4900
                                /\ s.strong_obf_score <= 4900
    BY ScoresTyped, ScoreRange
  <2>5. PossibleLinker(f) => LoaderComponent(f) BY DEF PossibleLinker, LoaderComponent
  <2>6. PlainKnownHook(f) => ~VmpPossible(f) /\ ~PossibleLinker(f) /\ r.known_hook_framework
    BY <2>2 DEF PlainKnownHook
  <2> HIDE DEF r, s
  <2>7. r.final_label \in Accusing => is_high_risk_result(r)
    BY <2>2, <2>3, <2>4 DEF FinalLabel, Accusing, is_high_risk_result
  <2>8. r.final_label \in {"KNOWN_HOOK_FRAMEWORK", "NORMAL_OR_LIGHT_OBF", "INVALID_ELF",
                           "UNSUPPORTED_OR_NOT_AARCH64"} => ~is_high_risk_result(r)
    BY <2>2, <2>3, <2>4, <2>6 DEF FinalLabel, is_high_risk_result, IsScore
  <2>9. r.final_label \in {"KNOWN_HOOK_FRAMEWORK", "CUSTOM_LOADER_COMPONENT",
                           "STRONG_OBFUSCATION", "POSSIBLE_OLLVM"} => is_medium_risk_result(r)
    BY <2>2, <2>3, <2>4, <2>6 DEF FinalLabel, is_medium_risk_result, IsScore
  <2> QED BY <2>7, <2>8, <2>9 DEF Consistent, risk_rank, r
<1>2. CASE f.image # "elf"
  <2>1. CASE f.image \in {"container", "stopped"}
    <3>1. Analyzed(n, f) = Container(n, f) BY <2>1 DEF Analyzed
    <3>2. Analyzed(n, f).final_label = "ZIP_SO_CONTAINER" /\ Analyzed(n, f).packer_score = 7800
      BY <3>1 DEF Container, Unread
    <3> QED BY <3>2 DEF Consistent, is_high_risk_result
  <2>2. CASE f.image \in {"foreign", "invalid"}
    <3>1. Analyzed(n, f) = Blank(n, f) \/ Analyzed(n, f) = Foreign(n, f) BY <2>2 DEF Analyzed
    <3>2. /\ Analyzed(n, f).final_label \in {"INVALID_ELF", "UNSUPPORTED_OR_NOT_AARCH64"}
          /\ ~is_high_risk_result(Analyzed(n, f))
      BY <3>1 DEF Blank, Foreign, Unread, is_high_risk_result, PossibleLinker, VmpPossible
    <3> QED BY <3>2 DEF Consistent, Accusing
  <2>3. f.image \in Images BY DEF Findings
  <2> QED BY <1>2, <2>1, <2>2, <2>3 DEF Images
<1> QED BY <1>1, <1>2

-----------------------------------------------------------------------------
Labels ==
  {"POSSIBLE_CUSTOM_LINKER_VMP", "POSSIBLE_CUSTOM_LINKER", "KNOWN_HOOK_FRAMEWORK",
   "CUSTOM_LOADER_COMPONENT", "POSSIBLE_PACKER", "POSSIBLE_VMP_OR_STRONG_OBF",
   "POSSIBLE_OLLVM_OR_STRONG_OBF", "STRONG_OBFUSCATION", "POSSIBLE_OLLVM",
   "NORMAL_OR_LIGHT_OBF", "ZIP_SO_CONTAINER", "INVALID_ELF", "UNSUPPORTED_OR_NOT_AARCH64", "VMP_PROTECTED_CLIENT"}
Clients == Outcomes \cup {"VMP_PROTECTED_CLIENT"}
Libraries ==
  [so_name : Nat, base : Nat, final_label : Labels, vmp_protected_client : BOOLEAN,
   outcome : Clients, vmp_score : Scores, linker : Linkers,
   loader_score : Scores, known_hook_framework : BOOLEAN, needed_libraries : Seq(Nat),
   imports : SUBSET Nat, defined_exports : SUBSET Nat, provider : Nat,
   shared_symbols : SUBSET Nat, packer_score : Scores, ollvm_score : Scores,
   strong_obf_score : Scores]

LEMMA FinalLabelTyped == ASSUME NEW f, NEW s PROVE FinalLabel(f, s) \in Labels
BY DEF FinalLabel, Labels

LEMMA UnreadTyped ==
  ASSUME NEW n \in Nat, NEW f \in Findings, NEW label \in Labels, NEW outcome \in Clients,
         NEW packer \in Scores, NEW strong \in Scores
  PROVE  Unread(n, f, label, outcome, packer, strong) \in Libraries
<1>1. f.base \in Nat BY DEF Findings
<1>2. 0 \in Scores BY DEF Scores
<1>3. <<>> \in Seq(Nat) OBVIOUS
<1>6. "NONE" \in Linkers BY DEF Linkers
<1> QED BY <1>1, <1>2, <1>3, <1>6 DEF Unread, Libraries

LEMMA BlankTyped ==
  ASSUME NEW n \in Nat, NEW f \in Findings
  PROVE  /\ Blank(n, f) \in Libraries /\ Foreign(n, f) \in Libraries
         /\ Container(n, f) \in Libraries
<1>1. 0 \in Scores /\ 7800 \in Scores /\ 6800 \in Scores BY DEF Scores
<1>2. /\ "INVALID_ELF" \in Labels /\ "ZIP_SO_CONTAINER" \in Labels
      /\ "UNSUPPORTED_OR_NOT_AARCH64" \in Labels
  BY DEF Labels
<1>3. /\ "NO_VMP_EVIDENCE" \in Clients /\ "INCONCLUSIVE_PACKED" \in Clients
      /\ "PARTIAL_ANALYSIS" \in Clients
  BY DEF Clients, Outcomes
<1> QED BY <1>1, <1>2, <1>3, UnreadTyped DEF Blank, Foreign, Container

LEMMA AnalyzedTyped ==
  ASSUME NEW n \in Nat, NEW f \in Findings
  PROVE  /\ Analyzed(n, f) \in Libraries
         /\ Analyzed(n, f).so_name = n /\ Analyzed(n, f).vmp_protected_client = FALSE
         /\ Analyzed(n, f).imports \in {{}, f.imports}
<1>1. Blank(n, f) \in Libraries BY BlankTyped
<1>3. CASE f.image = "elf"
  <2>1. Analyzed(n, f) = Elf(n, f) BY <1>3 DEF Analyzed
  <2>2. FinalLabel(f, Capped(f)) \in Labels BY FinalLabelTyped
  <2>3. /\ Capped(f).packer_score \in Scores /\ Capped(f).ollvm_score \in Scores
        /\ Capped(f).strong_obf_score \in Scores
    BY ScoresTyped
  <2>4. /\ f.base \in Nat /\ f.outcome \in Clients /\ f.vmp_score \in Scores
        /\ f.linker \in Linkers /\ f.loader_score \in Scores
        /\ f.known_hook_framework \in BOOLEAN /\ f.needed_libraries \in Seq(Nat)
        /\ f.imports \in SUBSET Nat /\ f.defined_exports \in SUBSET Nat
    BY DEF Findings, Clients
  <2>5. 0 \in Scores BY DEF Scores
  <2>7. Elf(n, f) \in Libraries BY <2>2, <2>3, <2>4, <2>5 DEF Elf, Libraries
  <2>8. /\ Elf(n, f).so_name = n /\ Elf(n, f).vmp_protected_client = FALSE
        /\ Elf(n, f).imports = f.imports
    BY DEF Elf
  <2> QED BY <2>1, <2>7, <2>8
<1>4. CASE f.image \in {"container", "stopped"}
  <2>1. Analyzed(n, f) = Container(n, f) BY <1>4 DEF Analyzed
  <2>2. Container(n, f) \in Libraries BY BlankTyped
  <2>3. Container(n, f).so_name = n /\ Container(n, f).vmp_protected_client = FALSE
        /\ Container(n, f).imports = {}
    BY DEF Container, Unread
  <2> QED BY <2>1, <2>2, <2>3
<1>5. CASE f.image \in {"foreign", "invalid"}
  <2>1. Analyzed(n, f) = Blank(n, f) \/ Analyzed(n, f) = Foreign(n, f) BY <1>5 DEF Analyzed
  <2>2. \A label, outcome : LET u == Unread(n, f, label, outcome, 0, 0)
                            IN  u.so_name = n /\ u.vmp_protected_client = FALSE /\ u.imports = {}
    BY DEF Unread
  <2> QED BY <2>1, <2>2, BlankTyped DEF Blank, Foreign
<1>6. f.image \in Images BY DEF Findings
<1> QED BY <1>3, <1>4, <1>5, <1>6 DEF Images

(* The edge that find_protected_provider takes exists, and no other shares *)
(* more symbols.                                                           *)
LEMMA BestEdgeExists ==
  ASSUME NEW client, NEW views, IsFiniteSet(client.imports), Edges(client, views) # {},
         DOMAIN client.needed_libraries \subseteq Nat, DOMAIN views \subseteq Nat
  PROVE  BestEdge(client, views) \in Best(client, views)
<1> DEFINE E == Edges(client, views)
           Most == Cardinality(client.imports)
           Size(e) == Cardinality(Shared(client, views[e[2]]))
           B == Best(client, views)
<1>1. Most \in Nat BY FS_CardinalityType
<1>2. \A e \in E : Size(e) \in Nat /\ Size(e) <= Most
  <2>1. TAKE e \in E
  <2>2. Shared(client, views[e[2]]) \in SUBSET client.imports BY DEF Shared
  <2> QED BY <2>2, FS_Subset, FS_CardinalityType
<1>3. \A e \in E : e \in Nat \X Nat
  <2>1. TAKE e \in E
  <2>2. e \in (DOMAIN client.needed_libraries) \X (DOMAIN views) BY DEF Edges
  <2> QED BY <2>2
<1>4. B = {e \in E : \A d \in E : Size(d) <= Size(e)} BY DEF Best
<1> HIDE DEF Size, Most, E
<1>5. B # {}
  <2> DEFINE Short == {Most - Size(e) : e \in E}
  <2>1. Short \subseteq Nat BY <1>1, <1>2
  <2>2. Short # {} BY DEF E
  <2> HIDE DEF Short
  <2>3. PICK s \in Short : \A t \in Short : s <= t BY <2>1, <2>2, LeastNatural
  <2>4. PICK e \in E : s = Most - Size(e) BY <2>3 DEF Short
  <2>5. ASSUME NEW d \in E PROVE Size(d) <= Size(e)
    <3>1. Most - Size(d) \in Short BY DEF Short
    <3>2. Most - Size(e) <= Most - Size(d) BY <2>3, <2>4, <3>1
    <3> QED BY <1>1, <1>2, <3>2
  <2> QED BY <1>4, <2>4, <2>5
<1>6. B \subseteq Nat \X Nat BY <1>3, <1>4
<1> HIDE DEF B
<1> DEFINE Firsts == {e[1] : e \in B}
<1>7. Firsts \subseteq Nat /\ Firsts # {} BY <1>5, <1>6
<1> HIDE DEF Firsts
<1>8. PICK a \in Firsts : \A x \in Firsts : a <= x BY <1>7, LeastNatural
<1> DEFINE Seconds == {x[2] : x \in {y \in B : y[1] = a}}
<1>9. Seconds \subseteq Nat /\ Seconds # {} BY <1>6, <1>8 DEF Firsts
<1> HIDE DEF Seconds
<1>10. PICK b \in Seconds : \A y \in Seconds : b <= y BY <1>9, LeastNatural
<1>11. PICK e \in B : e[1] = a /\ e[2] = b BY <1>10 DEF Seconds
<1>12. ASSUME NEW d \in B PROVE Earlier(e, d)
  <2>1. d[1] \in Nat /\ d[2] \in Nat /\ a \in Nat /\ b \in Nat BY <1>6, <1>7, <1>9
  <2>2. a <= d[1] BY <1>8 DEF Firsts
  <2>3. d[1] = a => b <= d[2] BY <1>10 DEF Seconds
  <2> QED BY <1>11, <2>1, <2>2, <2>3 DEF Earlier
<1>13. \E x \in B : \A d \in B : Earlier(x, d) BY <1>11, <1>12
<1> QED BY <1>13 DEF BestEdge, B

-----------------------------------------------------------------------------
(* The state: what a library was before linking, and what the linker makes *)
(* of it, whose place in the report the sort decides.                      *)
Entry(r, n) ==
  /\ r \in Libraries /\ r.so_name = n /\ r.vmp_protected_client = FALSE
  /\ IsFiniteSet(r.imports) /\ Consistent(r)
IsClient(r) == r.outcome # "LIKELY_VMP" /\ Edges(r, providers) # {}
Relinked(r) == Linked(r, BestEdge(r, providers))
Treated(r) == IF IsClient(r) THEN Relinked(r) ELSE r

Shown == {originals[i] : i \in 1 .. Len(originals)}
         \cup {Relinked(originals[i]) : i \in 1 .. Len(originals)}
Analyzing ==
  /\ at = 1 /\ results \in Seq(Libraries) /\ Len(results) <= MaxLibraries
  /\ \A i \in 1 .. Len(results) : Entry(results[i], i)
Taken ==
  /\ originals \in Seq(Libraries) /\ Len(originals) <= MaxLibraries
  /\ \A i \in 1 .. Len(originals) : Entry(originals[i], i)
  /\ providers = [i \in 1 .. Len(originals) |-> ProviderView(originals[i])]
  /\ results \in Seq(Shown) /\ Len(results) = Len(originals)
  /\ at \in 1 .. Len(originals) + 1
LinkedSoFar ==
  \A i \in 1 .. Len(originals) :
    results[i] = IF i < at THEN Treated(originals[i]) ELSE originals[i]
Sorted ==
  \E order \in Orders(Len(originals)) :
    /\ \A k \in 1 .. Len(originals) : results[k] = Treated(originals[order[k]])
    /\ \A i, j \in 1 .. Len(originals) : i < j =>
         Before(results[i], results[j]) \/ ~Before(results[j], results[i])
RInv ==
  /\ phase \in {"analyze", "link", "report"}
  /\ phase = "analyze" => Analyzing
  /\ phase # "analyze" => Taken
  /\ phase = "link" => LinkedSoFar
  /\ phase = "report" => Sorted

(* Init and each step keep the invariant. *)
LEMMA RInit == Init => RInv
<1> SUFFICES ASSUME Init PROVE RInv OBVIOUS
<1>1. results \in Seq(Libraries) /\ Len(results) = 0 BY DEF Init
<1> QED BY <1>1, CatalogueAssumption DEF Init, RInv, Analyzing

LEMMA RAnalyze == ASSUME RInv, AnalyzeLibrary PROVE RInv'
<1>1. PICK f \in Catalogue : results' = Append(results, Analyzed(Len(results) + 1, f))
  BY DEF AnalyzeLibrary
<1>2. phase = "analyze" /\ phase' = "analyze" /\ at' = at /\ Len(results) < MaxLibraries
      /\ Analyzing
  BY DEF AnalyzeLibrary, RInv
<1>3. Len(results) \in Nat BY <1>2 DEF Analyzing
<1> DEFINE r == Analyzed(Len(results) + 1, f)
<1>4. f \in Findings /\ IsFiniteSet(f.imports) BY CatalogueAssumption
<1>5. Entry(r, Len(results) + 1)
  <2>1. r \in Libraries /\ r.so_name = Len(results) + 1 /\ r.vmp_protected_client = FALSE
        /\ r.imports \in {{}, f.imports}
    <3>1. Len(results) + 1 \in Nat BY <1>3
    <3> QED BY <1>4, <3>1, AnalyzedTyped
  <2>2. IsFiniteSet(r.imports) BY <1>4, <2>1, FS_EmptySet
  <2>3. Consistent(r) BY <1>4, AnalyzedIsConsistent
  <2> QED BY <2>1, <2>2, <2>3 DEF Entry
<1>6. r \in Libraries BY <1>5 DEF Entry
<1> HIDE DEF r
<1>7. /\ results' \in Seq(Libraries) /\ Len(results') = Len(results) + 1
      /\ \A i \in 1 .. Len(results) : results'[i] = results[i]
      /\ results'[Len(results) + 1] = r
  BY <1>1, <1>2, <1>6 DEF Analyzing, r
<1>8. ASSUME NEW i \in 1 .. Len(results') PROVE Entry(results'[i], i)
  <2>1. CASE i \in 1 .. Len(results) BY <1>2, <1>7, <2>1 DEF Analyzing
  <2>2. CASE i = Len(results) + 1 BY <1>5, <1>7, <2>2
  <2> QED BY <1>3, <1>7, <2>1, <2>2
<1>9. Len(results') <= MaxLibraries BY <1>2, <1>3, <1>7, CatalogueAssumption
<1> QED BY <1>2, <1>7, <1>8, <1>9 DEF RInv, Analyzing

LEMMA RTake == ASSUME RInv, TakeProviders PROVE RInv'
<1>1. Analyzing BY DEF RInv, TakeProviders
<1>2. /\ results' = results /\ originals' = results /\ phase' = "link" /\ at' = 1
      /\ providers' = [i \in 1 .. Len(results) |-> ProviderView(results[i])]
  BY DEF TakeProviders
<1>3. Len(results) \in Nat BY <1>1 DEF Analyzing
<1>4. results \in Seq(Shown')
  <2>1. \A i \in 1 .. Len(results) : results[i] \in Shown' BY <1>2 DEF Shown
  <2> QED BY <1>1, <2>1 DEF Analyzing
<1>5. Taken' BY <1>1, <1>2, <1>3, <1>4 DEF Taken, Analyzing
<1>6. LinkedSoFar' BY <1>2, <1>3 DEF LinkedSoFar
<1> QED BY <1>2, <1>5, <1>6 DEF RInv

LEMMA RSkip == ASSUME RInv, SkipClient PROVE RInv'
<1>1. /\ phase = "link" /\ phase' = "link" /\ results' = results /\ originals' = originals
      /\ providers' = providers /\ at' = at + 1 /\ at <= Len(results)
  BY DEF SkipClient
<1>2. Taken /\ LinkedSoFar BY <1>1 DEF RInv
<1>3. Len(originals) \in Nat /\ Len(results) = Len(originals) /\ at \in 1 .. Len(originals)
      /\ at' \in 1 .. Len(originals) + 1
  BY <1>1, <1>2 DEF Taken
<1>4. results[at] = originals[at] BY <1>2, <1>3 DEF LinkedSoFar
<1>5. Treated(originals[at]) = originals[at]
  BY <1>4 DEF SkipClient, Client, Treated, IsClient
<1>6. Shown' = Shown BY <1>1 DEF Shown, Relinked, Linked
<1>7. Taken' BY <1>1, <1>2, <1>3, <1>6 DEF Taken
<1>8. \A r : Treated(r)' = Treated(r) BY <1>1 DEF Treated, IsClient, Relinked, Linked
<1>9. LinkedSoFar'
  <2> SUFFICES ASSUME NEW i \in 1 .. Len(originals)
               PROVE  results[i] = IF i < at + 1 THEN Treated(originals[i]) ELSE originals[i]
    BY <1>1, <1>8 DEF LinkedSoFar, Treated, IsClient, Relinked, Linked
  <2>1. CASE i = at BY <1>3, <1>4, <1>5, <2>1
  <2>2. CASE i # at
    <3>1. i < at + 1 <=> i < at BY <1>3, <2>2
    <3> QED BY <1>2, <3>1 DEF LinkedSoFar
  <2> QED BY <2>1, <2>2
<1> QED BY <1>1, <1>7, <1>9 DEF RInv

LEMMA RLink == ASSUME RInv, LinkClient PROVE RInv'
<1>1. /\ phase = "link" /\ phase' = "link" /\ originals' = originals
      /\ providers' = providers /\ at' = at + 1 /\ at <= Len(results)
      /\ results' = [results EXCEPT ![at] = Relinked(results[at])]
  BY DEF LinkClient, Client, Relinked
<1>2. Taken /\ LinkedSoFar BY <1>1 DEF RInv
<1>3. Len(originals) \in Nat /\ Len(results) = Len(originals) /\ at \in 1 .. Len(originals)
      /\ at' \in 1 .. Len(originals) + 1
  BY <1>1, <1>2 DEF Taken
<1>4. results[at] = originals[at] BY <1>2, <1>3 DEF LinkedSoFar
<1>5. Treated(originals[at]) = Relinked(results[at])
  BY <1>4 DEF LinkClient, Client, Treated, IsClient
<1>6. Shown' = Shown BY <1>1 DEF Shown, Relinked, Linked
<1>7. Relinked(results[at]) \in Shown BY <1>3, <1>4 DEF Shown
<1>8. /\ results' \in Seq(Shown) /\ Len(results') = Len(results)
      /\ results'[at] = Relinked(results[at])
      /\ \A i \in 1 .. Len(results) : i # at => results'[i] = results[i]
  <2>1. results \in Seq(Shown) BY <1>2 DEF Taken
  <2> HIDE DEF Shown
  <2> QED BY <1>1, <1>3, <1>7, <2>1
<1>9. Taken'
  <2> HIDE DEF Shown
  <2> QED BY <1>1, <1>2, <1>3, <1>6, <1>8 DEF Taken
<1>10. LinkedSoFar'
  <2> SUFFICES ASSUME NEW i \in 1 .. Len(originals)
               PROVE  results'[i] = IF i < at + 1 THEN Treated(originals[i]) ELSE originals[i]
    BY <1>1 DEF LinkedSoFar, Treated, IsClient, Relinked, Linked
  <2>1. CASE i = at BY <1>3, <1>5, <1>8, <2>1
  <2>2. CASE i # at
    <3>1. i < at + 1 <=> i < at BY <1>3, <2>2
    <3>2. results'[i] = results[i] BY <1>3, <1>8, <2>2
    <3> QED BY <1>2, <3>1, <3>2 DEF LinkedSoFar
  <2> QED BY <2>1, <2>2
<1> QED BY <1>1, <1>9, <1>10 DEF RInv

LEMMA RSort == ASSUME RInv, SortResults PROVE RInv'
<1>1. /\ phase = "link" /\ phase' = "report" /\ originals' = originals
      /\ providers' = providers /\ at' = at /\ at > Len(results)
  BY DEF SortResults
<1>2. Taken /\ LinkedSoFar BY <1>1 DEF RInv
<1> DEFINE n == Len(originals)
<1>3. n \in Nat /\ Len(results) = n /\ results \in Seq(Shown) /\ at = n + 1
  BY <1>1, <1>2 DEF Taken
<1>4. PICK order \in Orders(n) :
        /\ \A i, j \in 1 .. n : i < j =>
             \/ Before(results[order[i]], results[order[j]])
             \/ ~Before(results[order[j]], results[order[i]]) /\ order[i] < order[j]
        /\ results' = [k \in 1 .. n |-> results[order[k]]]
  BY <1>3 DEF SortResults
<1>5. order \in [1 .. n -> 1 .. n] BY DEF Orders
<1> HIDE DEF n
<1>6. \A k \in 1 .. n : results'[k] = results[order[k]] BY <1>4
<1>7. results' \in Seq(Shown) /\ Len(results') = n
  <2>1. \A i \in 1 .. n : results[i] \in Shown BY <1>3
  <2>2. \A k \in 1 .. n : results[order[k]] \in Shown BY <1>5, <2>1
  <2> QED BY <1>3, <1>4, <2>2
<1>8. Shown' = Shown BY <1>1 DEF Shown, Relinked, Linked
<1>9. Taken' BY <1>1, <1>2, <1>3, <1>7, <1>8 DEF Taken, n
<1>10. Sorted'
  <2>1. \A k \in 1 .. n : results'[k] = Treated(originals[order[k]])
    <3>1. \A i \in 1 .. n : results[i] = Treated(originals[i])
      BY <1>2, <1>3 DEF LinkedSoFar, n
    <3> QED BY <1>5, <1>6, <3>1
  <2>2. \A i, j \in 1 .. n : i < j =>
          Before(results'[i], results'[j]) \/ ~Before(results'[j], results'[i])
    BY <1>4, <1>6
  <2>3. \E o \in Orders(n) :
          /\ \A k \in 1 .. n : results'[k] = Treated(originals[o[k]])
          /\ \A i, j \in 1 .. n : i < j =>
               Before(results'[i], results'[j]) \/ ~Before(results'[j], results'[i])
    BY <2>1, <2>2
  <2> QED BY <1>1, <2>3 DEF Sorted, Treated, IsClient, Relinked, Linked, n
<1> QED BY <1>1, <1>9, <1>10 DEF RInv

LEMMA RNext == ASSUME RInv, [Next]_vars PROVE RInv'
<1>1. CASE AnalyzeLibrary BY <1>1, RAnalyze
<1>2. CASE TakeProviders BY <1>2, RTake
<1>3. CASE SkipClient BY <1>3, RSkip
<1>4. CASE LinkClient BY <1>4, RLink
<1>5. CASE SortResults BY <1>5, RSort
<1>6. CASE UNCHANGED vars
  <2>1. /\ results' = results /\ originals' = originals /\ providers' = providers
        /\ at' = at /\ phase' = phase
    BY <1>6 DEF vars
  <2>2. Shown' = Shown BY <2>1 DEF Shown, Relinked, Linked
  <2>3. Analyzing' = Analyzing BY <2>1 DEF Analyzing
  <2>4. Taken' = Taken BY <2>1, <2>2 DEF Taken
  <2>5. LinkedSoFar' = LinkedSoFar
    BY <2>1 DEF LinkedSoFar, Treated, IsClient, Relinked, Linked
  <2>6. Sorted' = Sorted BY <2>1 DEF Sorted, Treated, IsClient, Relinked, Linked
  <2> QED BY <2>1, <2>3, <2>4, <2>5, <2>6 DEF RInv
<1> QED BY <1>1, <1>2, <1>3, <1>4, <1>5, <1>6 DEF Next

THEOREM RiskInvariant == Spec => []RInv
<1>1. Init => RInv BY RInit
<1>2. RInv /\ [Next]_vars => RInv' BY RNext
<1> QED BY <1>1, <1>2, PTL DEF Spec

-----------------------------------------------------------------------------
(* What linking makes of a library. *)
LEMMA TreatedFields ==
  ASSUME NEW r \in Libraries
  PROVE  /\ Treated(r).so_name = r.so_name /\ Treated(r).imports = r.imports
         /\ Treated(r).defined_exports = r.defined_exports
         /\ Treated(r).needed_libraries = r.needed_libraries
         /\ Treated(r).base = r.base
         /\ r.vmp_protected_client = FALSE => (Treated(r).vmp_protected_client <=> IsClient(r))
         /\ Treated(r).outcome = "LIKELY_VMP" <=> r.outcome = "LIKELY_VMP"
         /\ r.outcome = "LIKELY_VMP" => Treated(r) = r
         /\ IsClient(r) => /\ Treated(r).final_label = "VMP_PROTECTED_CLIENT"
                           /\ Treated(r).vmp_protected_client = TRUE
<1> r.vmp_protected_client \in BOOLEAN BY DEF Libraries
<1>1. CASE IsClient(r)
  BY <1>1 DEF Treated, Relinked, Linked, Libraries, IsClient
<1>2. CASE ~IsClient(r)
  BY <1>2 DEF Treated, IsClient
<1> QED BY <1>1, <1>2

LEMMA TreatedConsistent ==
  ASSUME NEW r \in Libraries, Consistent(r)
  PROVE  Consistent(Treated(r))
<1>1. CASE IsClient(r)
  <2>1. /\ Treated(r).final_label = "VMP_PROTECTED_CLIENT"
        /\ Treated(r).vmp_protected_client = TRUE
    BY <1>1, TreatedFields
  <2> QED BY <2>1 DEF Consistent, is_high_risk_result
<1>2. CASE ~IsClient(r) BY <1>2 DEF Treated
<1> QED BY <1>1, <1>2

(* Every result shown is an original or what linking made of it. *)
LEMMA ResultIsTreated ==
  ASSUME RInv, phase # "analyze", NEW i \in DOMAIN results
  PROVE  \E o \in 1 .. Len(originals) :
           results[i] = originals[o] \/ results[i] = Treated(originals[o])
<1>1. Taken BY DEF RInv
<1>2. i \in 1 .. Len(originals) BY <1>1 DEF Taken
<1>3. CASE phase = "link" BY <1>2, <1>3 DEF RInv, LinkedSoFar
<1>4. CASE phase = "report"
  <2>1. PICK order \in Orders(Len(originals)) : results[i] = Treated(originals[order[i]])
    BY <1>2, <1>4 DEF RInv, Sorted
  <2>2. order[i] \in 1 .. Len(originals) BY <1>2 DEF Orders
  <2> QED BY <2>1, <2>2
<1> QED BY <1>3, <1>4 DEF RInv

(* LabelMatchesRisk: for every package and all that the detectors may find, *)
(* no result contradicts itself in label and risk, before and after linking. *)
THEOREM LabelsMatch == Spec => []LabelMatchesRisk
<1>1. RInv => LabelMatchesRisk
  <2> SUFFICES ASSUME RInv, NEW i \in DOMAIN results PROVE Consistent(results[i])
    BY DEF LabelMatchesRisk
  <2>1. CASE phase = "analyze"
    <3>1. Analyzing BY <2>1 DEF RInv
    <3>2. i \in 1 .. Len(results) BY <3>1 DEF Analyzing
    <3> QED BY <3>1, <3>2 DEF Analyzing, Entry
  <2>2. CASE phase # "analyze"
    <3>1. PICK o \in 1 .. Len(originals) :
            results[i] = originals[o] \/ results[i] = Treated(originals[o])
      BY <2>2, ResultIsTreated
    <3>2. originals[o] \in Libraries /\ Consistent(originals[o])
      BY <2>2, <3>1 DEF RInv, Taken, Entry
    <3> QED BY <3>1, <3>2, TreatedConsistent
  <2> QED BY <2>1, <2>2
<1> QED BY <1>1, RiskInvariant, PTL

(* Among the originals, the edges of a client lead to those who serve it.  *)
LEMMA EdgesServe ==
  ASSUME RInv, phase # "analyze", NEW c \in 1 .. Len(originals)
  PROVE  /\ \A e \in Edges(originals[c], providers) :
              /\ e[2] \in 1 .. Len(originals)
              /\ originals[c].outcome # "LIKELY_VMP" => Served(originals[c], originals[e[2]])
              /\ Shared(originals[c], providers[e[2]]) = Shared(originals[c], originals[e[2]])
              /\ providers[e[2]].so_name = e[2]
         /\ \A p \in 1 .. Len(originals) : Served(originals[c], originals[p]) =>
              \E e \in Edges(originals[c], providers) : e[2] = p
<1>1. Taken BY DEF RInv
<1>2. DOMAIN providers = 1 .. Len(originals) BY <1>1 DEF Taken
<1>3. \A p \in 1 .. Len(originals) : providers[p] = ProviderView(originals[p])
  BY <1>1 DEF Taken
<1>4. \A p \in 1 .. Len(originals) :
        /\ providers[p].so_name = p /\ providers[p].base = originals[p].base
        /\ providers[p].defined_exports = originals[p].defined_exports
        /\ providers[p].likely_vmp <=> originals[p].outcome = "LIKELY_VMP"
        /\ originals[p].outcome = "LIKELY_VMP" => providers[p].high_risk
  <2> SUFFICES ASSUME NEW p \in 1 .. Len(originals)
               PROVE  /\ ProviderView(originals[p]).so_name = p
                      /\ ProviderView(originals[p]).base = originals[p].base
                      /\ ProviderView(originals[p]).defined_exports = originals[p].defined_exports
                      /\ ProviderView(originals[p]).likely_vmp
                           <=> originals[p].outcome = "LIKELY_VMP"
                      /\ originals[p].outcome = "LIKELY_VMP"
                           => ProviderView(originals[p]).high_risk
    BY <1>3
  <2>1. originals[p].so_name = p BY <1>1 DEF Taken, Entry
  <2>2. ProviderView(originals[p]).high_risk <=> is_high_risk_result(originals[p])
    BY DEF ProviderView, is_high_risk_result
  <2>3. originals[p].outcome = "LIKELY_VMP" => is_high_risk_result(originals[p])
    BY DEF is_high_risk_result, VmpPossible
  <2>4. ProviderView(originals[p]).likely_vmp <=> originals[p].outcome = "LIKELY_VMP"
    BY DEF ProviderView
  <2> QED BY <2>1, <2>2, <2>3, <2>4 DEF ProviderView
<1>5. ASSUME NEW e \in Edges(originals[c], providers)
      PROVE  /\ e[2] \in 1 .. Len(originals)
             /\ originals[c].outcome # "LIKELY_VMP" => Served(originals[c], originals[e[2]])
             /\ Shared(originals[c], providers[e[2]]) = Shared(originals[c], originals[e[2]])
             /\ providers[e[2]].so_name = e[2]
  <2>1. /\ e \in (DOMAIN originals[c].needed_libraries) \X (DOMAIN providers)
        /\ providers[e[2]].likely_vmp
        /\ providers[e[2]].base = originals[c].needed_libraries[e[1]]
        /\ Shared(originals[c], providers[e[2]]) # {}
    BY DEF Edges
  <2>2. e[1] \in DOMAIN originals[c].needed_libraries /\ e[2] \in 1 .. Len(originals)
    BY <1>2, <2>1
  <2>3. Shared(originals[c], providers[e[2]]) = Shared(originals[c], originals[e[2]])
    BY <1>4, <2>2 DEF Shared
  <2>4. originals[c].outcome # "LIKELY_VMP" => Served(originals[c], originals[e[2]])
    BY <1>4, <2>1, <2>2, <2>3 DEF Served
  <2> QED BY <1>4, <2>2, <2>3, <2>4
<1>6. ASSUME NEW p \in 1 .. Len(originals), Served(originals[c], originals[p])
      PROVE  \E e \in Edges(originals[c], providers) : e[2] = p
  <2>1. PICK k \in DOMAIN originals[c].needed_libraries :
          originals[c].needed_libraries[k] = originals[p].base
    BY <1>6 DEF Served
  <2>2. <<k, p>> \in (DOMAIN originals[c].needed_libraries) \X (DOMAIN providers)
    BY <1>2, <2>1
  <2>3. Shared(originals[c], providers[p]) # {} BY <1>4, <1>6 DEF Served, Shared
  <2>4. <<k, p>>[1] = k /\ <<k, p>>[2] = p OBVIOUS
  <2>5. <<k, p>> \in Edges(originals[c], providers)
    BY <1>4, <1>6, <2>1, <2>2, <2>3, <2>4 DEF Edges, Served
  <2> QED BY <2>4, <2>5
<1> QED BY <1>5, <1>6

(* ClientsExactly: the protected clients are those the dependencies make,  *)
(* whatever the order of the entries.                                      *)
THEOREM ClientsAreExact == Spec => []ClientsExactly
<1>1. RInv => ClientsExactly
  <2> SUFFICES ASSUME RInv, phase = "report", NEW i \in DOMAIN results
               PROVE  results[i].vmp_protected_client
                        <=> \E p \in DOMAIN originals : Served(Original(results[i]), originals[p])
    BY DEF ClientsExactly
  <2>1. Taken /\ Sorted BY DEF RInv
  <2>2. i \in 1 .. Len(originals) /\ DOMAIN originals = 1 .. Len(originals)
    BY <2>1 DEF Taken
  <2>3. PICK order \in Orders(Len(originals)) : results[i] = Treated(originals[order[i]])
    BY <2>1, <2>2 DEF Sorted
  <2> DEFINE o == order[i]
  <2>4. o \in 1 .. Len(originals) BY <2>2 DEF Orders
  <2> HIDE DEF o
  <2>5. Entry(originals[o], o) BY <2>1, <2>4 DEF Taken
  <2>6. /\ results[i].so_name = o
        /\ results[i].vmp_protected_client <=> IsClient(originals[o])
    BY <2>3, <2>5, TreatedFields DEF Entry, o
  <2>7. Original(results[i]) = originals[o] BY <2>6 DEF Original
  <2>8. IsClient(originals[o]) <=> \E p \in 1 .. Len(originals) : Served(originals[o], originals[p])
    <3>1. ASSUME IsClient(originals[o])
          PROVE  \E p \in 1 .. Len(originals) : Served(originals[o], originals[p])
      BY <2>4, <3>1, EdgesServe DEF IsClient
    <3>2. ASSUME NEW p \in 1 .. Len(originals), Served(originals[o], originals[p])
          PROVE  IsClient(originals[o])
      <4>1. \E e \in Edges(originals[o], providers) : e[2] = p BY <2>4, <3>2, EdgesServe
      <4> QED BY <3>2, <4>1 DEF IsClient, Served
    <3> QED BY <3>1, <3>2
  <2> QED BY <2>2, <2>6, <2>7, <2>8
<1> QED BY <1>1, RiskInvariant, PTL

(* Ranked: the report is in the order of risk and then of combined score.  *)
LEMMA ScoreIsNumber ==
  ASSUME NEW r, {r.loader_score, r.packer_score, r.strong_obf_score, r.ollvm_score,
                 r.vmp_score} \subseteq Scores
  PROVE  combined_score(r) \in Int
<1>1. /\ r.loader_score \in Int /\ r.packer_score \in Int /\ r.strong_obf_score \in Int
      /\ r.ollvm_score \in Int /\ r.vmp_score \in Int
  BY ScoreRange DEF IsScore
<1> DEFINE a == IF r.vmp_protected_client THEN 1000000 ELSE 0
           b == IF LoaderComponent(r) THEN 55 * r.loader_score ELSE 0
           c == IF PossibleLinker(r) THEN 350000 ELSE 0
           d == IF VmpPossible(r) THEN 120000 ELSE 0
<1>2. a \in Int /\ b \in Int /\ c \in Int /\ d \in Int BY <1>1
<1>3. combined_score(r) = a + b + c + 120 * r.packer_score + 100 * r.strong_obf_score
                          + 90 * r.ollvm_score + 35 * r.vmp_score + d
  BY DEF combined_score
<1> HIDE DEF a, b, c, d
<1> QED BY <1>1, <1>2, <1>3

LEMMA TreatedScores ==
  ASSUME NEW r \in Libraries
  PROVE  combined_score(Treated(r)) \in Int
<1>1. {r.loader_score, r.packer_score, r.strong_obf_score, r.ollvm_score, r.vmp_score}
      \subseteq Scores
  BY DEF Libraries
<1>2. CASE IsClient(r)
  <2> DEFINE t == Relinked(r)
  <2>1. Treated(r) = t BY <1>2 DEF Treated
  <2>2. /\ t.loader_score = r.loader_score /\ t.packer_score = r.packer_score
        /\ t.strong_obf_score = r.strong_obf_score /\ t.ollvm_score = r.ollvm_score
        /\ t.vmp_score = 0
    BY DEF Relinked, Linked, Libraries
  <2>3. 0 \in Scores BY DEF Scores
  <2> HIDE DEF t
  <2> QED BY <1>1, <2>1, <2>2, <2>3, ScoreIsNumber
<1>3. CASE ~IsClient(r) BY <1>1, <1>3, ScoreIsNumber DEF Treated
<1> QED BY <1>2, <1>3

THEOREM ReportIsRanked == Spec => []Ranked
<1>1. RInv => Ranked
  <2> SUFFICES ASSUME RInv, phase = "report",
                      NEW i \in DOMAIN results, NEW j \in DOMAIN results, i < j
               PROVE  /\ risk_rank(results[i]) >= risk_rank(results[j])
                      /\ risk_rank(results[i]) = risk_rank(results[j])
                           => combined_score(results[i]) >= combined_score(results[j])
    BY DEF Ranked
  <2>1. Taken /\ Sorted BY DEF RInv
  <2>2. i \in 1 .. Len(originals) /\ j \in 1 .. Len(originals) BY <2>1 DEF Taken
  <2>3. Before(results[i], results[j]) \/ ~Before(results[j], results[i])
    BY <2>1, <2>2 DEF Sorted
  <2>4. ASSUME NEW k \in 1 .. Len(originals) PROVE combined_score(results[k]) \in Int
    <3>1. PICK order \in Orders(Len(originals)) : results[k] = Treated(originals[order[k]])
      BY <2>1 DEF Sorted
    <3>2. order[k] \in 1 .. Len(originals) BY DEF Orders
    <3>3. originals[order[k]] \in Libraries BY <2>1, <3>2 DEF Taken
    <3> QED BY <3>1, <3>3, TreatedScores
  <2>5. \A r : risk_rank(r) \in 1 .. 3 BY DEF risk_rank
  <2> QED BY <2>2, <2>3, <2>4, <2>5 DEF Before
<1> QED BY <1>1, RiskInvariant, PTL
-----------------------------------------------------------------------------
(* Where the library number o is in the report.                            *)
LEMMA PlaceOf ==
  ASSUME RInv, phase = "report"
  PROVE  \E order \in [1 .. Len(originals) -> 1 .. Len(originals)] :
           /\ \A k \in 1 .. Len(originals) :
                /\ results[k] = Treated(originals[order[k]])
                /\ originals[order[k]] \in Libraries
                /\ results[k].so_name = order[k]
           /\ \A o \in 1 .. Len(originals) : \E k \in 1 .. Len(originals) :
                \A j \in 1 .. Len(originals) : order[j] = o <=> j = k
<1>1. Taken /\ Sorted BY DEF RInv
<1>2. PICK order \in Orders(Len(originals)) :
        \A k \in 1 .. Len(originals) : results[k] = Treated(originals[order[k]])
  BY <1>1 DEF Sorted
<1>3. order \in [1 .. Len(originals) -> 1 .. Len(originals)] BY DEF Orders
<1>4. ASSUME NEW k \in 1 .. Len(originals)
      PROVE  originals[order[k]] \in Libraries /\ results[k].so_name = order[k]
  <2>1. Entry(originals[order[k]], order[k]) BY <1>1, <1>3 DEF Taken
  <2> QED BY <1>2, <2>1, TreatedFields DEF Entry
<1>5. \A o \in 1 .. Len(originals) : \E k \in 1 .. Len(originals) :
        \A j \in 1 .. Len(originals) : order[j] = o <=> j = k
  BY DEF Orders
<1> QED BY <1>2, <1>3, <1>4, <1>5

(* Linking never lowers a risk.                                            *)
LEMMA TreatedRank ==
  ASSUME NEW r \in Libraries
  PROVE  risk_rank(Treated(r)) >= risk_rank(r)
<1>1. CASE IsClient(r)
  <2>1. Treated(r).vmp_protected_client = TRUE BY <1>1, TreatedFields
  <2>2. risk_rank(Treated(r)) = 3 BY <2>1 DEF risk_rank, is_high_risk_result
  <2> QED BY <2>2 DEF risk_rank
<1>2. CASE ~IsClient(r) BY <1>2 DEF Treated, risk_rank
<1> QED BY <1>1, <1>2

(* NothingLost: from the copy of the providers on, each library analysed is *)
(* among the results exactly once, with no lower risk than it had.         *)
THEOREM NothingIsLost == Spec => []NothingLost
<1>1. RInv => NothingLost
  <2> SUFFICES ASSUME RInv, phase # "analyze", NEW o \in DOMAIN originals
               PROVE  Cardinality({i \in DOMAIN results :
                         /\ results[i].so_name = o
                         /\ risk_rank(results[i]) >= risk_rank(originals[o])}) = 1
    BY DEF NothingLost
  <2> DEFINE Here == {i \in DOMAIN results : /\ results[i].so_name = o
                                             /\ risk_rank(results[i]) >= risk_rank(originals[o])}
  <2>1. Taken BY DEF RInv
  <2>2. DOMAIN results = 1 .. Len(originals) /\ o \in 1 .. Len(originals) BY <2>1 DEF Taken
  <2>3. \E k \in 1 .. Len(originals) : Here = {k}
    <3>1. CASE phase = "link"
      <4>1. ASSUME NEW i \in 1 .. Len(originals)
            PROVE  results[i].so_name = i /\ risk_rank(results[i]) >= risk_rank(originals[i])
        <5>1. Entry(originals[i], i) BY <2>1 DEF Taken
        <5>2. results[i] = Treated(originals[i]) \/ results[i] = originals[i]
          BY <3>1 DEF RInv, LinkedSoFar
        <5>3. risk_rank(originals[i]) >= risk_rank(originals[i]) BY DEF risk_rank
        <5> QED BY <5>1, <5>2, <5>3, TreatedFields, TreatedRank DEF Entry
      <4> QED BY <2>2, <4>1
    <3>2. CASE phase = "report"
      <4>1. PICK order \in [1 .. Len(originals) -> 1 .. Len(originals)] :
              /\ \A k \in 1 .. Len(originals) :
                   /\ results[k] = Treated(originals[order[k]])
                   /\ originals[order[k]] \in Libraries
                   /\ results[k].so_name = order[k]
              /\ \A n \in 1 .. Len(originals) : \E k \in 1 .. Len(originals) :
                   \A j \in 1 .. Len(originals) : order[j] = n <=> j = k
        BY <3>2, PlaceOf
      <4>2. PICK k \in 1 .. Len(originals) :
              \A j \in 1 .. Len(originals) : order[j] = o <=> j = k
        BY <2>2, <4>1
      <4>3. \A j \in 1 .. Len(originals) : results[j].so_name = o <=> j = k BY <4>1, <4>2
      <4>4. order[k] = o BY <4>2
      <4>5. risk_rank(results[k]) >= risk_rank(originals[o]) BY <4>1, <4>4, TreatedRank
      <4> QED BY <2>2, <4>3, <4>5
    <3> QED BY <3>1, <3>2 DEF RInv
  <2>4. Cardinality(Here) = 1 BY <2>3, FS_Singleton
  <2> QED BY <2>4
<1> QED BY <1>1, RiskInvariant, PTL

(* What linking writes into a client.                                      *)
LEMMA TreatedNames ==
  ASSUME NEW r \in Libraries, IsClient(r)
  PROVE  /\ Treated(r).provider = providers[BestEdge(r, providers)[2]].so_name
         /\ Treated(r).shared_symbols = Shared(r, providers[BestEdge(r, providers)[2]])
BY DEF Treated, Relinked, Linked, Libraries

(* ProvidersStand: the provider named in the report is in it, unchanged by *)
(* the linking, and no other serves the client with more symbols.          *)
THEOREM ProvidersKeepStanding == Spec => []ProvidersStand
<1>1. RInv => ProvidersStand
  <2> SUFFICES ASSUME RInv, phase = "report", NEW i \in DOMAIN results,
                      results[i].vmp_protected_client
               PROVE  \E p \in DOMAIN results :
                        /\ results[p].so_name = results[i].provider
                        /\ results[p].outcome = "LIKELY_VMP"
                        /\ results[i].shared_symbols = Shared(results[i], results[p])
                        /\ \A q \in DOMAIN results :
                             Served(Original(results[i]), results[q])
                               => Cardinality(Shared(results[i], results[q]))
                                    <= Cardinality(results[i].shared_symbols)
    BY DEF ProvidersStand
  <2>1. Taken BY DEF RInv
  <2>2. DOMAIN results = 1 .. Len(originals) BY <2>1 DEF Taken
  <2>3. PICK order \in [1 .. Len(originals) -> 1 .. Len(originals)] :
          /\ \A k \in 1 .. Len(originals) :
               /\ results[k] = Treated(originals[order[k]])
               /\ originals[order[k]] \in Libraries
               /\ results[k].so_name = order[k]
          /\ \A n \in 1 .. Len(originals) : \E k \in 1 .. Len(originals) :
               \A j \in 1 .. Len(originals) : order[j] = n <=> j = k
    BY PlaceOf
  <2> DEFINE c == order[i]
             r == originals[c]
             e == BestEdge(r, providers)
  <2>4. c \in 1 .. Len(originals) /\ results[i] = Treated(r) /\ r \in Libraries
        /\ results[i].so_name = c
    BY <2>2, <2>3
  <2>5. Entry(r, c) BY <2>1, <2>4 DEF Taken
  <2>6. Original(results[i]) = r BY <2>4 DEF Original
  <2> HIDE DEF c
  <2> HIDE DEF r
  <2>7. IsClient(r) BY <2>4, <2>5, TreatedFields DEF Entry
  <2>8. r.outcome # "LIKELY_VMP" /\ Edges(r, providers) # {} BY <2>7 DEF IsClient
  <2>9. DOMAIN r.needed_libraries \subseteq Nat /\ DOMAIN providers \subseteq Nat
    <3>1. r.needed_libraries \in Seq(Nat) BY <2>4 DEF Libraries
    <3>2. DOMAIN providers = 1 .. Len(originals) BY <2>1 DEF Taken
    <3> QED BY <3>1, <3>2
  <2>10. e \in Best(r, providers) BY <2>5, <2>8, <2>9, BestEdgeExists DEF Entry
  <2>11. e \in Edges(r, providers)
         /\ \A d \in Edges(r, providers) :
              Cardinality(Shared(r, providers[d[2]])) <= Cardinality(Shared(r, providers[e[2]]))
    BY <2>10 DEF Best
  <2>12. /\ results[i].provider = providers[e[2]].so_name
         /\ results[i].shared_symbols = Shared(r, providers[e[2]])
         /\ results[i].imports = r.imports
    <3>1. /\ Treated(r).provider = providers[e[2]].so_name
          /\ Treated(r).shared_symbols = Shared(r, providers[e[2]])
      BY <2>4, <2>7, TreatedNames
    <3>2. Treated(r).imports = r.imports BY <2>4, TreatedFields
    <3> HIDE DEF e
    <3> QED BY <2>4, <3>1, <3>2
  <2> HIDE DEF e
  <2>13. /\ e[2] \in 1 .. Len(originals) /\ Served(r, originals[e[2]])
         /\ Shared(r, providers[e[2]]) = Shared(r, originals[e[2]])
         /\ providers[e[2]].so_name = e[2]
    BY <2>4, <2>8, <2>11, EdgesServe DEF r
  <2>14. originals[e[2]].outcome = "LIKELY_VMP" BY <2>13 DEF Served
  <2>15. PICK p \in 1 .. Len(originals) : order[p] = e[2] BY <2>3, <2>13
  <2>16. results[p] = originals[e[2]] /\ results[p].so_name = e[2]
    <3>1. results[p] = Treated(originals[e[2]]) /\ originals[e[2]] \in Libraries
      BY <2>3, <2>15
    <3>2. Treated(originals[e[2]]) = originals[e[2]] BY <2>14, <3>1, TreatedFields
    <3>3. results[p].so_name = e[2] BY <2>3, <2>15
    <3> QED BY <3>1, <3>2, <3>3
  <2>17. results[i].shared_symbols = Shared(results[i], results[p])
    BY <2>12, <2>13, <2>16 DEF Shared
  <2>18. ASSUME NEW q \in 1 .. Len(originals), Served(r, results[q])
         PROVE  Cardinality(Shared(results[i], results[q]))
                  <= Cardinality(results[i].shared_symbols)
    <3>1. results[q].outcome = "LIKELY_VMP" BY <2>18 DEF Served
    <3>2. results[q] = originals[order[q]]
      <4> DEFINE o == originals[order[q]]
      <4>1. results[q] = Treated(o) /\ o \in Libraries BY <2>3
      <4> HIDE DEF o
      <4>2. o.outcome = "LIKELY_VMP" BY <3>1, <4>1, TreatedFields
      <4>3. Treated(o) = o BY <4>1, <4>2, TreatedFields
      <4> QED BY <4>1, <4>3 DEF o
    <3>3. order[q] \in 1 .. Len(originals) BY <2>3
    <3>4. PICK d \in Edges(r, providers) : d[2] = order[q]
      BY <2>4, <2>18, <3>2, <3>3, EdgesServe DEF r
    <3>5. Shared(r, providers[d[2]]) = Shared(r, originals[d[2]])
      BY <2>4, <3>4, EdgesServe DEF r
    <3>6. Shared(results[i], results[q]) = Shared(r, providers[d[2]])
      BY <2>12, <3>2, <3>4, <3>5 DEF Shared
    <3> QED BY <2>11, <2>12, <3>4, <3>6
  <2> QED BY <2>2, <2>6, <2>12, <2>13, <2>14, <2>16, <2>17, <2>18
<1> QED BY <1>1, RiskInvariant, PTL
=============================================================================
