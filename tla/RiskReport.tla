----------------------------- MODULE RiskReport -----------------------------
(***************************************************************************)
(* main.cpp from the scores of a library to the report: the label and the  *)
(* risk of each (the end of analyze_so), link_vmp_protected_clients, which *)
(* turns clients of a protected runtime into protected clients, and the    *)
(* order of the report. Libraries come in the order of their ZIP entries.  *)
(* Scores are in ten thousandths; names are numbers, in their order.       *)
(***************************************************************************)
EXTENDS Integers, Sequences, FiniteSets

CONSTANTS
  Catalogue,       \* what analyze_so may find in a library
  MaxLibraries

(* What is known of a library before its label is chosen: whether the      *)
(* image could be analysed at all, the scores before the verdict of the    *)
(* VMP detector counts, that verdict and the one of the linker detector,   *)
(* and what is a sign of packing (huge blob, tiny text, RWX, writable      *)
(* entry, ZIP).                                                            *)
Outcomes == {"LIKELY_VMP", "VM_LIKE_INTERPRETER", "INCONCLUSIVE_PACKED", "PARTIAL_ANALYSIS",
             "SUSPICIOUS_VM_STRUCTURE", "NO_VMP_EVIDENCE"}
Linkers == {"NONE", "ELF_INSPECTION_OR_HOOK", "CUSTOM_LOADER_COMPONENT",
            "LIKELY_CUSTOM_LINKER_PROTECTION", "INCONCLUSIVE_PACKED"}
Scores == 0 .. 10000
(* "stopped" is a container whose inner scan gave up. *)
Images == {"elf", "container", "stopped", "foreign", "invalid"}
Findings ==
  [base : Nat, image : Images, packer : Scores, ollvm : Scores,
   abnormal : Scores, outcome : Outcomes, vmp_score : Scores, structure : Scores,
   intent : Scores, linker : Linkers, loader_score : Scores,
   known_hook_framework : BOOLEAN, known_runtime_framework : BOOLEAN, packed : BOOLEAN,
   needed_libraries : Seq(Nat), imports : SUBSET Nat, defined_exports : SUBSET Nat]

ASSUME CatalogueAssumption ==
  /\ Catalogue \subseteq Findings /\ MaxLibraries \in Nat
  /\ \A f \in Catalogue : IsFiniteSet(f.imports)

VARIABLES results,        \* AnalysisResults
          originals,      \* the results as they were before linking
          providers,      \* ProviderViews
          at, phase
vars == <<results, originals, providers, at, phase>>

-----------------------------------------------------------------------------
(* The end of analyze_so                                                   *)
AtMost(m, n) == IF m <= n THEN m ELSE n
AtLeast(m, n) == IF m >= n THEN m ELSE n

PossibleLinker(f) == f.linker = "LIKELY_CUSTOM_LINKER_PROTECTION"
LoaderComponent(f) == f.linker \in {"CUSTOM_LOADER_COMPONENT", "LIKELY_CUSTOM_LINKER_PROTECTION"}
VmpPossible(f) == f.outcome = "LIKELY_VMP"

Packer(f) == IF PossibleLinker(f) THEN AtLeast(f.packer, 7200) ELSE f.packer
StrongObf(f) ==
  LET base == AtMost(10000, (55 * Packer(f) + 65 * f.ollvm) \div 100 + f.abnormal)
  IN  AtMost(10000, base + (IF VmpPossible(f) THEN 1400 ELSE (6 * f.structure) \div 100))

PlainKnownRuntime(f) ==
  /\ f.known_runtime_framework /\ f.outcome = "VM_LIKE_INTERPRETER" /\ f.intent < 5000
  /\ ~PossibleLinker(f) /\ ~f.packed
PlainKnownHook(f) == f.known_hook_framework /\ ~VmpPossible(f) /\ ~PossibleLinker(f) /\ ~f.packed

Uncapped(f) ==                                                     \* mutant
  [packer_score |-> Packer(f), ollvm_score |-> f.ollvm, strong_obf_score |-> StrongObf(f)]
Capped(f) ==
  LET plain == PlainKnownRuntime(f) \/ PlainKnownHook(f)
  IN  [packer_score |-> IF plain THEN AtMost(Packer(f), 4400) ELSE Packer(f),
       ollvm_score |-> IF plain THEN AtMost(f.ollvm, 4900) ELSE f.ollvm,
       strong_obf_score |-> IF plain THEN AtMost(StrongObf(f), 4900) ELSE StrongObf(f)]

FinalLabel(f, s) ==
  IF PossibleLinker(f) /\ VmpPossible(f) THEN "POSSIBLE_CUSTOM_LINKER_VMP"
  ELSE IF PossibleLinker(f) THEN "POSSIBLE_CUSTOM_LINKER"
  ELSE IF PlainKnownHook(f) THEN "KNOWN_HOOK_FRAMEWORK"
  ELSE IF LoaderComponent(f) THEN "CUSTOM_LOADER_COMPONENT"
  ELSE IF s.packer_score >= 6800 \/ (s.packer_score >= 6200 /\ s.strong_obf_score >= 5800)
  THEN "POSSIBLE_PACKER"
  ELSE IF VmpPossible(f) THEN "POSSIBLE_VMP_OR_STRONG_OBF"
  ELSE IF s.strong_obf_score >= 7000 /\ s.ollvm_score >= 5200 THEN "POSSIBLE_OLLVM_OR_STRONG_OBF"
  ELSE IF s.strong_obf_score >= 6800 THEN "STRONG_OBFUSCATION"
  ELSE IF s.ollvm_score >= 6000 THEN "POSSIBLE_OLLVM" ELSE "NORMAL_OR_LIGHT_OBF"

(* The AnalysisResult of the entry number n, with findings f.              *)
Unread(n, f, label, outcome, packer_score, strong_obf_score) ==
  [so_name |-> n, base |-> f.base, final_label |-> label, vmp_protected_client |-> FALSE,
   outcome |-> outcome, vmp_score |-> 0, linker |-> "NONE", loader_score |-> 0,
   known_hook_framework |-> FALSE, needed_libraries |-> <<>>, imports |-> {},
   defined_exports |-> {}, provider |-> 0, shared_symbols |-> {},
   packer_score |-> packer_score, ollvm_score |-> 0, strong_obf_score |-> strong_obf_score]
Blank(n, f) == Unread(n, f, "INVALID_ELF", "NO_VMP_EVIDENCE", 0, 0)
Foreign(n, f) == Unread(n, f, "UNSUPPORTED_OR_NOT_AARCH64", "NO_VMP_EVIDENCE", 0, 0)
Container(n, f) ==
  Unread(n, f, "ZIP_SO_CONTAINER",
         IF f.image = "stopped" THEN "PARTIAL_ANALYSIS" ELSE "INCONCLUSIVE_PACKED", 7800, 6800)
Elf(n, f) ==
  [so_name |-> n, base |-> f.base, final_label |-> FinalLabel(f, Capped(f)),
   vmp_protected_client |-> FALSE, outcome |-> f.outcome, vmp_score |-> f.vmp_score,
   linker |-> f.linker, loader_score |-> f.loader_score,
   known_hook_framework |-> f.known_hook_framework,
   needed_libraries |-> f.needed_libraries, imports |-> f.imports,
   defined_exports |-> f.defined_exports, provider |-> 0, shared_symbols |-> {},
   packer_score |-> Capped(f).packer_score, ollvm_score |-> Capped(f).ollvm_score,
   strong_obf_score |-> Capped(f).strong_obf_score]
Analyzed(n, f) ==
  CASE f.image = "elf" -> Elf(n, f)
    [] f.image \in {"container", "stopped"} -> Container(n, f)
    [] f.image = "foreign" -> Foreign(n, f)
    [] f.image = "invalid" -> Blank(n, f)

-----------------------------------------------------------------------------
(* The risk of a result                                                    *)
is_high_risk_result(r) ==
  \/ r.vmp_protected_client \/ PossibleLinker(r) \/ VmpPossible(r)
  \/ r.packer_score >= 6800 \/ r.strong_obf_score >= 7000
  \/ r.packer_score >= 6200 /\ r.strong_obf_score >= 5800
  \/ r.ollvm_score >= 6500 /\ r.strong_obf_score >= 6000
is_medium_risk_result(r) ==
  \/ r.known_hook_framework \/ LoaderComponent(r)
  \/ r.packer_score >= 4500 \/ r.ollvm_score >= 5000 \/ r.strong_obf_score >= 5000
  \/ r.vmp_score >= 5000
risk_rank(r) == IF is_high_risk_result(r) THEN 3 ELSE IF is_medium_risk_result(r) THEN 2 ELSE 1

(* In millionths. *)
combined_score(r) ==
  (IF r.vmp_protected_client THEN 1000000 ELSE 0)
  + (IF LoaderComponent(r) THEN 55 * r.loader_score ELSE 0)
  + (IF PossibleLinker(r) THEN 350000 ELSE 0)
  + 120 * r.packer_score + 100 * r.strong_obf_score + 90 * r.ollvm_score + 35 * r.vmp_score
  + (IF VmpPossible(r) THEN 120000 ELSE 0)

-----------------------------------------------------------------------------
(* vmp_linkage.cpp: find_protected_provider                                *)
Shared(client, provider) == client.imports \cap provider.defined_exports

SymbolsOnly(client, views) ==                                      \* mutant
  {e \in (DOMAIN client.needed_libraries) \X (DOMAIN views) :
     views[e[2]].likely_vmp /\ Shared(client, views[e[2]]) # {}}
Edges(client, views) ==
  {e \in (DOMAIN client.needed_libraries) \X (DOMAIN views) :
     /\ views[e[2]].likely_vmp /\ views[e[2]].high_risk
     /\ views[e[2]].base = client.needed_libraries[e[1]]
     /\ Shared(client, views[e[2]]) # {}}

(* The first of those that share the most symbols. *)
Earlier(e, d) == e[1] < d[1] \/ (e[1] = d[1] /\ e[2] <= d[2])
FirstEdge(client, views) ==                                        \* mutant
  CHOOSE e \in Edges(client, views) : \A d \in Edges(client, views) : Earlier(e, d)
Best(client, views) ==
  {e \in Edges(client, views) : \A d \in Edges(client, views) :
     Cardinality(Shared(client, views[d[2]])) <= Cardinality(Shared(client, views[e[2]]))}
BestEdge(client, views) ==
  CHOOSE e \in Best(client, views) : \A d \in Best(client, views) : Earlier(e, d)

-----------------------------------------------------------------------------
Init == results = <<>> /\ originals = <<>> /\ providers = <<>> /\ at = 1 /\ phase = "analyze"

(* One entry of the candidates of analyze_arm64_sos_from_apk. *)
AnalyzeLibrary ==
  /\ phase = "analyze" /\ Len(results) < MaxLibraries
  /\ \E f \in Catalogue : results' = Append(results, Analyzed(Len(results) + 1, f))
  /\ UNCHANGED <<originals, providers, at, phase>>

(* The providers are copied before the first client changes. *)
ProviderView(r) ==
  [so_name |-> r.so_name, base |-> r.base, defined_exports |-> r.defined_exports,
   likely_vmp |-> r.outcome = "LIKELY_VMP", high_risk |-> is_high_risk_result(r)]
TakeProviders ==
  /\ phase = "analyze"
  /\ providers' = [i \in 1 .. Len(results) |-> ProviderView(results[i])]
  /\ originals' = results
  /\ phase' = "link" /\ at' = 1
  /\ UNCHANGED results

Client == results[at]

(* The client itself has no dispatcher: its own findings are replaced. *)
OnlyLabelled(client, e) ==                                         \* mutant
  [client EXCEPT !.provider = providers[e[2]].so_name,
                 !.shared_symbols = Shared(client, providers[e[2]]),
                 !.final_label = "VMP_PROTECTED_CLIENT",
                 !.outcome = "VMP_PROTECTED_CLIENT", !.vmp_score = 0]
Linked(client, e) ==
  [client EXCEPT !.vmp_protected_client = TRUE, !.provider = providers[e[2]].so_name,
                 !.shared_symbols = Shared(client, providers[e[2]]),
                 !.final_label = "VMP_PROTECTED_CLIENT",
                 !.outcome = "VMP_PROTECTED_CLIENT", !.vmp_score = 0]

SkipClient ==
  /\ phase = "link" /\ at <= Len(results)
  /\ Client.outcome = "LIKELY_VMP" \/ Edges(Client, providers) = {}
  /\ at' = at + 1
  /\ UNCHANGED <<results, originals, providers, phase>>

LinkClient ==
  /\ phase = "link" /\ at <= Len(results)
  /\ Client.outcome # "LIKELY_VMP" /\ Edges(Client, providers) # {}
  /\ results' = [results EXCEPT ![at] = Linked(Client, BestEdge(Client, providers))]
  /\ at' = at + 1
  /\ UNCHANGED <<originals, providers, phase>>

(* sort_results_by_risk, with a stable sort. *)
Before(a, b) ==
  \/ risk_rank(a) > risk_rank(b)
  \/ /\ risk_rank(a) = risk_rank(b)
     /\ \/ combined_score(a) > combined_score(b)
        \/ combined_score(a) = combined_score(b) /\ a.so_name < b.so_name
Orders(n) ==
  {order \in [1 .. n -> 1 .. n] :
     \A k \in 1 .. n : \E i \in 1 .. n : \A j \in 1 .. n : order[j] = k <=> j = i}

SortResults ==
  /\ phase = "link" /\ at > Len(results)
  /\ \E order \in Orders(Len(results)) :
       /\ \A i, j \in 1 .. Len(results) : i < j =>
            \/ Before(results[order[i]], results[order[j]])
            \/ ~Before(results[order[j]], results[order[i]]) /\ order[i] < order[j]
       /\ results' = [k \in 1 .. Len(results) |-> results[order[k]]]
  /\ phase' = "report"
  /\ UNCHANGED <<originals, providers, at>>

Next == AnalyzeLibrary \/ TakeProviders \/ SkipClient \/ LinkClient \/ SortResults
Spec == Init /\ [][Next]_vars

-----------------------------------------------------------------------------
(* Label and risk are computed from the same scores by two separate        *)
(* cascades, and the label of a client changes later: a label that accuses *)
(* comes with a high risk, a label that explains or clears never does.     *)
Accusing == {"POSSIBLE_CUSTOM_LINKER_VMP", "POSSIBLE_CUSTOM_LINKER", "POSSIBLE_PACKER",
             "POSSIBLE_VMP_OR_STRONG_OBF", "POSSIBLE_OLLVM_OR_STRONG_OBF",
             "ZIP_SO_CONTAINER", "VMP_PROTECTED_CLIENT"}
Consistent(r) ==
  /\ r.final_label \in Accusing => is_high_risk_result(r)
  /\ r.final_label \in {"KNOWN_HOOK_FRAMEWORK", "NORMAL_OR_LIGHT_OBF", "INVALID_ELF",
                        "UNSUPPORTED_OR_NOT_AARCH64"}
       => ~is_high_risk_result(r)
  /\ r.final_label \in {"KNOWN_HOOK_FRAMEWORK", "CUSTOM_LOADER_COMPONENT",
                        "STRONG_OBFUSCATION", "POSSIBLE_OLLVM"} => risk_rank(r) >= 2
LabelMatchesRisk == \A i \in DOMAIN results : Consistent(results[i])

(* Whatever the order of the entries, the clients are the libraries, not    *)
(* likely VMPs themselves, that need a likely VMP of this package and       *)
(* import one of its symbols.                                              *)
Served(c, p) ==
  /\ p.outcome = "LIKELY_VMP" /\ c.outcome # "LIKELY_VMP"
  /\ \E n \in DOMAIN c.needed_libraries : c.needed_libraries[n] = p.base
  /\ Shared(c, p) # {}
Original(r) == originals[r.so_name]
ClientsExactly ==
  phase = "report" => \A i \in DOMAIN results :
    results[i].vmp_protected_client
      <=> \E p \in DOMAIN originals : Served(Original(results[i]), originals[p])

(* The provider that a client names is in the report, and still a likely    *)
(* VMP there; none of the others serves the client with more symbols.      *)
ProvidersStand ==
  phase = "report" => \A i \in DOMAIN results :
    results[i].vmp_protected_client => \E p \in DOMAIN results :
      /\ results[p].so_name = results[i].provider /\ results[p].outcome = "LIKELY_VMP"
      /\ results[i].shared_symbols = Shared(results[i], results[p])
      /\ \A q \in DOMAIN results :
           Served(Original(results[i]), results[q])
             => Cardinality(Shared(results[i], results[q])) <= Cardinality(results[i].shared_symbols)

(* Linking and sorting lose no library and no risk: every library analysed  *)
(* is reported once, as high as it was or higher.                          *)
NothingLost ==
  phase # "analyze" => \A o \in DOMAIN originals :
    Cardinality({i \in DOMAIN results : /\ results[i].so_name = o
                                        /\ risk_rank(results[i]) >= risk_rank(originals[o])}) = 1

(* The report is in the order of the risk, and where that is the same, of   *)
(* the combined score: the order of the entries does not show in it.       *)
Ranked ==
  phase = "report" => \A i, j \in DOMAIN results : i < j =>
    /\ risk_rank(results[i]) >= risk_rank(results[j])
    /\ risk_rank(results[i]) = risk_rank(results[j])
         => combined_score(results[i]) >= combined_score(results[j])

=============================================================================
