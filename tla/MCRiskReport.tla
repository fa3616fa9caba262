---------------------------- MODULE MCRiskReport ----------------------------
(* RiskReport for TLC: two likely VMPs with the same file name, clients that *)
(* need them, and libraries on both sides of the thresholds of the scores. *)
EXTENDS RiskReport

Plain == [base |-> 9, image |-> "elf", packer |-> 500, ollvm |-> 1200, abnormal |-> 0,
          outcome |-> "NO_VMP_EVIDENCE", vmp_score |-> 0, structure |-> 0, intent |-> 0,
          linker |-> "NONE", loader_score |-> 0, known_hook_framework |-> FALSE,
          known_runtime_framework |-> FALSE, packed |-> FALSE,
          needed_libraries |-> <<>>, imports |-> {}, defined_exports |-> {}]

Provider == [Plain EXCEPT !.base = 1, !.outcome = "LIKELY_VMP", !.vmp_score = 7500,
                          !.structure = 8600, !.intent = 4500, !.defined_exports = {1, 2}]
LocalClient == [Plain EXCEPT !.needed_libraries = <<7, 1>>, !.imports = {1, 2},
                             !.outcome = "SUSPICIOUS_VM_STRUCTURE", !.vmp_score = 5400,
                             !.structure = 6000]
Linking ==
  {Provider, LocalClient, Plain,
   [Provider EXCEPT !.base = 2, !.defined_exports = {2, 3}, !.packer = 7600,
                      !.ollvm = 6500, !.abnormal = 3400],
   [Provider EXCEPT !.defined_exports = {2}, !.needed_libraries = <<2>>, !.imports = {3}],
   [LocalClient EXCEPT !.needed_libraries = <<2, 1>>, !.outcome = "PARTIAL_ANALYSIS"],
   [LocalClient EXCEPT !.needed_libraries = <<1>>, !.imports = {3}, !.defined_exports = {1}],
   [LocalClient EXCEPT !.needed_libraries = <<9>>, !.base = 1, !.defined_exports = {1, 2}],
   [LocalClient EXCEPT !.known_hook_framework = TRUE, !.imports = {2}, !.packer = 9000,
                       !.outcome = "NO_VMP_EVIDENCE"],
   [Plain EXCEPT !.image = "container", !.base = 1], [Plain EXCEPT !.image = "invalid"],
   [Plain EXCEPT !.image = "stopped"], [Plain EXCEPT !.image = "foreign", !.base = 2],
   [Plain EXCEPT !.linker = "CUSTOM_LOADER_COMPONENT", !.loader_score = 8000,
                 !.needed_libraries = <<1>>, !.imports = {1}]}

(* Scores on both sides of the thresholds of labels and risks. *)
Labelled ==
  {[Plain EXCEPT !.packer = 6800, !.ollvm = 6500, !.abnormal = 3400, !.packed = TRUE,
                 !.known_hook_framework = TRUE],
   [Plain EXCEPT !.packer = 6200, !.ollvm = 5200, !.abnormal = 1000],
   [Plain EXCEPT !.packer = 6100, !.ollvm = 6000],
   [Plain EXCEPT !.packer = 6800, !.ollvm = 6500, !.outcome = "VM_LIKE_INTERPRETER",
                 !.structure = 7000, !.vmp_score = 2700, !.known_runtime_framework = TRUE],
   [Plain EXCEPT !.outcome = "INCONCLUSIVE_PACKED", !.packer = 7200, !.packed = TRUE,
                 !.linker = "LIKELY_CUSTOM_LINKER_PROTECTION"]}

Kinds == Linking \cup Labelled
=============================================================================
