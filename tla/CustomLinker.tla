---------------------------- MODULE CustomLinker ----------------------------
(***************************************************************************)
(* custom_linker_detector.cpp: whether a library loads other ELF images    *)
(* itself, and whether it does so to protect one. The evidence is texts of *)
(* the image and names it imports, met here one after the other: result is *)
(* at any time what analyze returns for a library with just these, so that *)
(* a step compares two libraries that differ in one piece of evidence.     *)
(* Left out: the evidence codes, the texts that are only noise, and the    *)
(* relationship to a protected client, which main.cpp never sets. Scores   *)
(* are in hundredths.                                                      *)
(***************************************************************************)
EXTENDS Integers, FiniteSets

CONSTANTS
  Texts,           \* what the image may hold
  Names,           \* what it may import
  Considered       \* the contexts it may come in

Contexts ==
  [known_hook_framework : BOOLEAN, exact_hook_basename : BOOLEAN, protecting_basename : BOOLEAN,
   code_obscured_by_packing : BOOLEAN, high_entropy_payload : BOOLEAN, packed_container : BOOLEAN]

ASSUME ConsideredAssumption == Considered \subseteq Contexts

VARIABLES context, texts, imports, result
vars == <<context, texts, imports, result>>

-----------------------------------------------------------------------------
(* The texts and names of a kind                                           *)
HookNames == {"top/canyie/pine", "top.canyie.pine", "PineNativeInlineHook",
  "pine_direct_jump_trampoline", "libpine.so", "ShadowHook", "ByteHook", "DobbyHook",
  "libdobby", "libxhook", "SandHook", "WhaleHook", "frida-gum"}
HookPrimitives == {"ArtMethod", "trampoline", "inline hook", "InlineHook", "RegisterNatives",
  "quick_entrypoint", "interpreter_entrypoint", "ScopedMemoryAccessProtection"}
LoaderNames == {"u4proc.linker", "linkerversion:", "/linker/linker.c", "/linker/uc_linker",
  "manual elf loader", "custom elf loader"}
ProtectionNames == {"customlinker", "shelllinker", "protectlinker", "libshieldlinker.so"}
PayloadTexts == {"decrypted payload", "decrypt payload", "payload decrypt", "decrypting payload",
  "encrypted payload", "uncompress payload", "payload uncompress", "decompress payload",
  "payload decompress", "protected payload", "payload PT_LOAD"}
LayoutTexts == {"PT_LOAD", "PT_DYNAMIC", "Elf64_Ehdr", "Elf64_Phdr", "Elf32_Ehdr", "Elf32_Phdr",
  "load_segments", "map_segments", "reserve_address_space", "load_library_wrap"}
RelocationTexts == {"DT_RELA", "DT_JMPREL", "DT_PLTREL", "R_AARCH64_", "R_ARM_", "apply_reloc",
  "relocate_symbol", "relocate_phdr", "reloc_library", "reloc_relative"}
DependencyTexts == {"DT_NEEDED", "DT_SYMTAB", "DT_STRTAB", "DT_GNU_HASH", "DT_HASH",
  "find_library", "lookup_symbol", "resolve_symbol", "link_image"}
ConstructorTexts == {"DT_INIT_ARRAY", "DT_FINI_ARRAY", "call_constructors", "call_destructors",
  "call_array"}
InternalTexts == {"soinfo", "solist", "android_namespace", "__loader_dlopen",
  "call_constructors", "find_library", "link_image"}

(* One text may be part of another: who holds the one holds the other.     *)
Part(t) ==
  IF t = "PineNativeInlineHook" THEN {"InlineHook"}
  ELSE IF t = "pine_direct_jump_trampoline" THEN {"trampoline"}
  ELSE IF t = "payload PT_LOAD" THEN {"PT_LOAD"} ELSE {}

(* What analyze is given, and how much of a kind is in it.                 *)
Evidence(c, t, i) == [context |-> c, texts |-> t \cup UNION {Part(x) : x \in t}, imports |-> i]
Hits(kind, e) == Cardinality(kind \cap e.texts)
ImportHits(kind, e) == Cardinality(kind \cap e.imports)
HasImport(kind, e) == kind \cap e.imports # {}

-----------------------------------------------------------------------------
(* The axes of a loader                                                    *)
Parser(e) == Hits(LayoutTexts, e) >= 2
Relocation(e) == Hits(RelocationTexts, e) >= 1
DynamicSymbols(e) ==
  ImportHits({"dlopen", "android_dlopen_ext", "dlsym", "dl_iterate_phdr", "dladdr"}, e) >= 2
Dependency(e) ==
  \/ Hits(DependencyTexts, e) >= 2
  \/ Parser(e) /\ Relocation(e) /\ DynamicSymbols(e)
Mapping(e) == HasImport({"mmap", "mmap64"}, e) /\ HasImport({"mprotect"}, e)
FileSource(e) ==
  /\ HasImport({"open", "open64", "openat", "fopen", "fopen64"}, e)
  /\ HasImport({"read", "pread", "pread64", "fread"}, e)
Constructor(e) == Hits(ConstructorTexts, e) >= 1
LoaderIdentity(e) == Hits(LoaderNames, e) >= 1 \/ Hits(InternalTexts, e) >= 3

One(b) == IF b THEN 1 ELSE 0
Axes(e) == One(Parser(e)) + One(Relocation(e)) + One(Dependency(e)) + One(Mapping(e))
           + One(Constructor(e)) + One(FileSource(e))

ExactlyFour(e) ==                                                  \* mutant
  /\ Parser(e) /\ Relocation(e) /\ Dependency(e) /\ (Mapping(e) \/ Constructor(e))
  /\ Axes(e) = 4
LoaderGate(e) ==
  /\ Parser(e) /\ Relocation(e) /\ Dependency(e)
  /\ Mapping(e) \/ Constructor(e)
  /\ Axes(e) >= 4
  /\ LoaderIdentity(e) \/ Constructor(e) \/ (Mapping(e) /\ FileSource(e))

(* Signs of protection, and of a hook framework                            *)
ProtectionIdentity(e) == Hits(ProtectionNames, e) + One(e.context.protecting_basename) >= 1
EntropyIsPayload(e) ==                                             \* mutant
  Hits(PayloadTexts, e) >= 1 \/ e.context.high_entropy_payload
Payload(e) == Hits(PayloadTexts, e) >= 1
ProtectionAxes(e) == One(ProtectionIdentity(e)) + One(Payload(e))
HookIdentity(e) ==
  \/ e.context.known_hook_framework \/ e.context.exact_hook_basename
  \/ Hits(HookNames, e) >= 1 /\ Hits(HookPrimitives, e) >= 1
HookAlternative(e) == HookIdentity(e) \/ Hits(HookNames, e) >= 2

(* A hook framework needs a stronger chain.                                *)
ProtectionGate(e) ==
  /\ LoaderGate(e) /\ ProtectionAxes(e) >= 1
  /\ HookAlternative(e) => Mapping(e) /\ Axes(e) >= 5 /\ (Constructor(e) \/ LoaderIdentity(e))

Inspection(e) == Parser(e) /\ (Relocation(e) \/ Dependency(e)) /\ ~LoaderGate(e)

LoaderScore(e) ==
  20 * One(Parser(e)) + 18 * One(Relocation(e)) + 18 * One(Dependency(e)) + 14 * One(Mapping(e))
  + 12 * One(Constructor(e)) + 8 * One(FileSource(e)) + 7 * One(LoaderIdentity(e))
  + 3 * One(Hits(InternalTexts, e) >= 2)
ProtectionScore(e) ==
  LET sum == 40 * One(ProtectionIdentity(e)) + 35 * One(Payload(e))
             + 8 * One(Payload(e) /\ e.context.high_entropy_payload)
             + 7 * One(Payload(e) /\ e.context.packed_container) + 10 * One(LoaderGate(e))
  IN  IF sum <= 100 THEN sum ELSE 100

Outcome(e) ==
  IF ProtectionGate(e) THEN "LIKELY_CUSTOM_LINKER_PROTECTION"
  ELSE IF LoaderGate(e) THEN "CUSTOM_LOADER_COMPONENT"
  ELSE IF HookAlternative(e) THEN "ELF_INSPECTION_OR_HOOK"
  ELSE IF e.context.code_obscured_by_packing THEN "INCONCLUSIVE_PACKED"
  ELSE IF Inspection(e) THEN "ELF_INSPECTION_OR_HOOK" ELSE "NONE"

Certain(e) ==
  IF ProtectionGate(e) THEN Axes(e) >= 5 /\ ProtectionAxes(e) >= 1
  ELSE IF LoaderGate(e) THEN Axes(e) >= 5 /\ LoaderIdentity(e) ELSE HookIdentity(e)
Confidence(e) ==
  IF Outcome(e) = "INCONCLUSIVE_PACKED" THEN "UNKNOWN"
  ELSE IF Outcome(e) = "NONE" THEN "LOW"
  ELSE IF Certain(e) THEN "HIGH" ELSE "MEDIUM"

analyze(e) ==
  [outcome |-> Outcome(e), confidence |-> Confidence(e), loader_score |-> LoaderScore(e),
   protection_score |-> ProtectionScore(e), hook_alternative |-> HookAlternative(e)]

-----------------------------------------------------------------------------
Init ==
  /\ context \in Considered /\ texts = {} /\ imports = {}
  /\ result = analyze(Evidence(context, texts, imports))

FindText ==
  /\ \E t \in Texts \ texts : texts' = texts \cup {t}
  /\ result' = analyze(Evidence(context, texts', imports))
  /\ UNCHANGED <<context, imports>>

FindImport ==
  /\ \E n \in Names \ imports : imports' = imports \cup {n}
  /\ result' = analyze(Evidence(context, texts, imports'))
  /\ UNCHANGED <<context, texts>>

Next == FindText \/ FindImport
Spec == Init /\ [][Next]_vars

-----------------------------------------------------------------------------
Rank(r) ==
  IF r.outcome = "LIKELY_CUSTOM_LINKER_PROTECTION" THEN 3
  ELSE IF r.outcome = "CUSTOM_LOADER_COMPONENT" THEN 2
  ELSE IF r.outcome = "ELF_INSPECTION_OR_HOOK" THEN 1 ELSE 0

(* One text or import more never makes a loader or a protected one look    *)
(* more innocent, unless it is the one that speaks of a hook framework; nor *)
(* does it make the same outcome less certain or score lower.              *)
MoreNeverLowers ==
  [][context' = context /\ result'.hook_alternative = result.hook_alternative =>
       /\ Rank(result') >= Rank(result)
       /\ result'.loader_score >= result.loader_score
       /\ result'.protection_score >= result.protection_score
       /\ result'.outcome = result.outcome /\ result.confidence = "HIGH"
            => result'.confidence = "HIGH"]_vars

(* The explanation as a hook framework may take the protection away, never *)
(* the loader (tests/custom_linker_detector_tests.cpp:238).                *)
HookHidesNoLoader ==
  [][/\ Rank(result) >= 2 => Rank(result') >= 2
     /\ result.hook_alternative => result'.hook_alternative]_vars

(* Packing, entropy and a ZIP around the library neither accuse it nor      *)
(* clear it: they replace at most an outcome below a loader.               *)
PackingProvesNothing ==
  LET bare == [context EXCEPT !.code_obscured_by_packing = FALSE,
                              !.high_entropy_payload = FALSE, !.packed_container = FALSE]
      plain == analyze(Evidence(bare, texts, imports))
  IN  /\ result.loader_score = plain.loader_score
      /\ \/ result.outcome = plain.outcome /\ result.confidence = plain.confidence
         \/ result.outcome = "INCONCLUSIVE_PACKED" /\ Rank(plain) <= 1 /\ ~plain.hook_alternative

=============================================================================
