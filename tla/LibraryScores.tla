--------------------------- MODULE LibraryScores ---------------------------
(***************************************************************************)
(* analyze_so of main.cpp: from what one ELF image shows to its scores,    *)
(* its label and its risk. It joins the three detectors: CustomLinker,     *)
(* which reads texts and imports, VmpVerdict, which judges the dispatch    *)
(* sites, and the end of analyze_so in RiskReport. Evidence is met here    *)
(* one piece after the other: report is at any time what analyze_so        *)
(* returns for a library with just this much, so that a step compares two  *)
(* libraries that differ in one piece. Measures (entropies, densities,     *)
(* sizes) are signs: whether a threshold is passed. Scores are in ten      *)
(* thousandths, and added exactly, where the code adds doubles. Texts are  *)
(* compared without their case, so one spelling stands for all of them.    *)
(***************************************************************************)
EXTENDS CustomLinker, SequencesExt

CONSTANTS
  Libraries,       \* what a library is, and what is seen of it at first
  Signs,           \* what else may be seen of it
  MostFound,       \* how many pieces of evidence are met after that
  AlsoJumps        \* mnemonics of calls and returns that are jumps as well

VARIABLES library, signs, report
found == <<context, texts, imports, result, library, signs, report>>

-----------------------------------------------------------------------------
(* The detectors, asked for values only                                    *)
V == INSTANCE VmpVerdict WITH
       Catalogue <- {}, Repeats <- {}, Considered <- {}, Steps <- 0, candidates <- <<>>,
       switch_like_sites <- 0, vtable_sites <- 0, tallies <- <<>>, steps <- 0
R == INSTANCE RiskReport WITH
       Catalogue <- {}, MaxLibraries <- 0, results <- <<>>, originals <- <<>>,
       providers <- <<>>, at <- 0, phase <- ""

(* A measure that passes a second threshold has passed the first.          *)
Weaker == [heavy_init |-> "some_init", some_init |-> "init_array",
           hardly_strings |-> "few_strings"]
AllSigns == {"assets", "zip", "rwx", "writable_entry", "init_array", "some_init", "heavy_init",
  "jni_onload", "blob", "dense_section", "tiny_text", "no_code", "few_strings", "hardly_strings",
  "few_sections", "no_symtab", "section_name", "exec_entropy", "more_imports", "vmp_metadata"}

(* The name without its path, as the set of what is looked for in it; the  *)
(* tables that symbols can be read from, and how many functions of the C++ *)
(* ABI they define, close together; the instructions of its text; a kind   *)
(* of dispatch site and how many there are, in all and outside of the C++  *)
(* ABI.                                                                    *)
Tables == {"sections", "dynamic"}
LibraryFields == {"basename", "tables", "anchors", "code", "sites", "own_sites", "truncated",
                  "rounds_down", "signs", "texts", "imports"}
ASSUME LibrariesAssumption ==
  /\ Signs \subseteq AllSigns /\ MostFound \in Nat
  /\ \A l \in Libraries :
       /\ DOMAIN l = LibraryFields
       /\ l.tables \subseteq Tables /\ l.signs \subseteq AllSigns /\ l.anchors \in Nat
       /\ l.tables = {} => l.imports = {}
       /\ IsFiniteSet(l.texts) /\ IsFiniteSet(l.imports)

(* What analyze_so sees. *)
Image(l, t, i, s) == [library |-> l, texts |-> t, imports |-> i, signs |-> s]
Seen(a, s) == s \in a.signs

-----------------------------------------------------------------------------
(* Symbols. The imports are the names that either table leaves undefined:  *)
(* merge_import puts them together, dropping repeats, before any of them   *)
(* is counted. Which table holds which name is left out, and so are the    *)
(* exports, which the tables do not treat alike (a value of zero). The     *)
(* functions of the C++ ABI are counted in each table they are read from.  *)
LoaderImports == {"android_dlopen_ext", "mremap", "memfd_create", "ptrace",
                  "process_vm_readv", "process_vm_writev", "dl_iterate_phdr"}
LoaderHits(a) == Cardinality(LoaderImports \cap a.imports)
FewImports(a) == Cardinality(a.imports) <= 8 /\ ~Seen(a, "more_imports")
HasDynsym(a) == a.library.tables # {}
Anchors(a) == a.library.anchors * Cardinality(a.library.tables)
EmbeddedRuntime(a) == Anchors(a) >= 8

(* Instructions. Words that do not decode ("data") are passed over; a       *)
(* compare counts twice.                                                   *)
Jumps == {"b", "b.cond", "cbz", "tbz", "br"}
Calls == {"bl", "blr"}
Arithmetic == {"add", "sub", "subs", "adc", "sbc", "mul", "madd", "msub", "udiv", "sdiv", "neg",
               "cmp", "cmn"}
Logical == {"and", "ands", "orr", "eor", "bic", "orn", "eon", "tst"}
Compare == {"cmp", "cmn", "tst"}
CountOf(code, mnemonics) == MapThenSumSet(LAMBDA m : code[m], mnemonics \cap DOMAIN code)
total_insn(code) == CountOf(code, DOMAIN code \ {"data"})
branches(code) ==
  CountOf(code, Jumps \cup AlsoJumps) + CountOf(code, Calls) + CountOf(code, {"ret"})
obf_arith(code) == CountOf(code, Arithmetic) + CountOf(code, Logical) + CountOf(code, Compare)
(* More than n per mille of all. *)
Above(code, count, n) == 1000 * count > n * total_insn(code)

ExecEntropy(a) == Seen(a, "exec_entropy") /\ ~Seen(a, "no_code")

-----------------------------------------------------------------------------
(* Runtimes that explain a VM or many branches                             *)
KnownNames == {"libreact", "librn", "libhermes", "libjsi", "libjsc", "libturbomodule",
  "libuimanager", "libmapbuffer", "libyoga", "libfbjni", "libglog", "libsentry", "libgifimage",
  "libglide-webp", "libnative-imagetranscoder", "libreanimated", "libvisioncamera",
  "libjscexecutor", "libjserrorhandler", "libjsinspector", "libjsijniprofiler",
  "libnative-filters", "libmetis", "liblogger", "libtt_ugen_layout"}

Family(family, names, identities, apis) ==
  [family |-> family, names |-> names, identities |-> identities, apis |-> apis]
CxxRuntime ==
  Family("C++", {"libc++_shared.so", "libc++_shared_64.so", "libstlport_shared.so",
                 "libgnustl_shared.so"},
         {"std::__ndk1", "LLVM libc++", "__cxa_demangle", "__gxx_personality_v0",
          "__vmi_class_type_info", "__cxxabi"},
         {"__cxa_throw", "__cxa_begin_catch", "__cxa_end_catch", "__gxx_personality_v0"})
NanoCompose ==
  Family("Nano Compose", {"nano_compose"},
         {"ComposeFunc", "ExprIDValue", "OpGroupValue", "LayoutNode"}, {})
QuickJS ==
  Family("QuickJS", {"quickjs"},
         {"QuickJS", "JS_EvalInternal", "JS_CallInternal", "JS_ExecutePendingJob"},
         {"JS_NewRuntime", "JS_NewContext", "JS_Eval", "JS_ExecutePendingJob"})
FFmpeg ==
  Family("FFmpeg", {"ffmpeg", "libavcodec.so", "libavutil.so", "libavfilter.so",
                    "libavformat.so", "libswscale.so", "libavdevice.so", "libijkplayer.so"},
         {"FFmpeg version", "Lavc", "Lavf", "Lavu", "Lavfi", "Sws", "ff_h264_", "libavcodec",
          "libavutil", "libavformat", "libavfilter", "libswscale", "ijkplayer"},
         {"avcodec_send_packet", "avcodec_receive_frame", "avformat_open_input",
          "av_read_frame", "av_malloc", "av_free", "av_log", "av_frame_alloc", "sws_scale",
          "avfilter_graph_alloc"})
SQLite ==
  Family("SQLite", {"sqlite"},
         {"SQLite format 3", "sqlite3VdbeExec", "database disk image is malformed",
          "malformed database schema", "sqlite_master", "sqlite_sequence"},
         {"sqlite3_prepare_v2", "sqlite3_step", "sqlite3_finalize", "sqlite3_open_v2"})
Flutter ==
  Family("Flutter", {"libunicorn.so", "libunicorn_"},
         {"Unicorn Engine", "unicorn_render_engine", "FlutterJNI", "FlutterMutatorsStack",
          "unicorn_library_loader"}, {})
CpuEmulation ==
  Family("CPU emulation", {"unicorn", "qemu"},
         {"Unicorn Engine", "qemu-system", "cpu_exec", "uc_version"},
         {"uc_open", "uc_emu_start", "uc_hook_add", "uc_close"})
Hermes ==
  Family("Hermes", {"hermes"},
         {"facebook::hermes", "HermesRuntime", "Hermes bytecode", "HermesVM"},
         {"hermes_create_runtime", "hermes_get_runtime_properties"})
Lua ==
  Family("Lua", {"liblua", "lua"}, {"Lua 5.", "luaV_execute", "luaD_precall", "luaG_runerror"},
         {"lua_pcall", "lua_pcallk", "lua_newstate", "luaL_newstate"})
JavaScriptCore ==
  Family("JavaScriptCore", {"libjsc", "javascriptcore"},
         {"JavaScriptCore", "JSC::VM", "WTF::", "JSGlobalObject"},
         {"JSEvaluateScript", "JSGlobalContextCreate", "JSContextGroupCreate"})
WebAssembly ==
  Family("WebAssembly", {"libwasm", "webassembly"},
         {"WebAssembly", "wasm interpreter", "wasm_runtime", "WASM bytecode"},
         {"wasm_runtime_init", "wasm_runtime_load", "wasm_runtime_instantiate"})
RegularExpressions ==
  Family("regular expressions", {"libpcre", "libre2", "libregex"},
         {"PCRE2", "pcre2_match", "regex bytecode", "RE2::"},
         {"pcre_exec", "pcre2_match", "regexec"})
Families == <<CxxRuntime, NanoCompose, QuickJS, FFmpeg, SQLite, Flutter, CpuEmulation, Hermes, Lua,
              JavaScriptCore, WebAssembly, RegularExpressions>>

(* The name of an import is a text of the image too, and what is looked    *)
(* for may be part of something longer.                                    *)
Containing ==
  [Lavfi |-> "Lavf", sws_scale |-> "Sws", libswscale |-> "Sws", pcre2_match |-> "PCRE2",
   wasm_runtime_init |-> "wasm_runtime", wasm_runtime_load |-> "wasm_runtime",
   wasm_runtime_instantiate |-> "wasm_runtime"]
Spelled(held) == held \cup {Containing[t] : t \in held \cap DOMAIN Containing}
RuntimeEvidence(basename, image, names, f) ==
  LET raw == Cardinality(f.identities \cap Spelled(image \cup names))
      api == Cardinality(f.apis \cap names)
      named == f.names \cap basename # {}
  IN  [family |-> f.family, hits |-> raw + api,
       classes |-> One(named) + One(raw >= 2) + One(api >= 2)]
NoRuntime == [family |-> "", hits |-> 0, classes |-> 0]

(* The C++ runtime is only considered in a library of its name.            *)
ConsideredFamilies(basename) ==
  {i \in DOMAIN Families : Families[i].family = "C++" => Families[i].names \cap basename # {}}
MoreHits(item, best) ==                                            \* mutant
  item.hits > best.hits \/ (item.hits = best.hits /\ item.classes > best.classes)
Stronger(item, best) ==
  item.classes > best.classes \/ (item.classes = best.classes /\ item.hits > best.hits)
consider(best, item) == IF item.classes > 0 /\ Stronger(item, best) THEN item ELSE best
Considering(basename, image, names) ==
  LET best[i \in 0 .. Len(Families)] ==
        IF i = 0 THEN NoRuntime
        ELSE IF i \in ConsideredFamilies(basename)
          THEN consider(best[i - 1], RuntimeEvidence(basename, image, names, Families[i]))
          ELSE best[i - 1]
  IN  best
SemanticRuntime(basename, image, names) ==
  Considering(basename, image, names)[Len(Families)]

Runtime(a) == SemanticRuntime(a.library.basename, a.texts, a.imports)
KnownRuntime(a) == a.library.basename \cap KnownNames # {} \/ Runtime(a).classes > 0

(* Pine, and the marks of a protecting VM                                  *)
PineNames == {"_ZN4pine", "top.canyie.pine", "top/canyie/pine", "PineNativeInlineHook",
              "pine::", "PineEnhances", "PineConfig"}
PineArt == {"ElfImage", "ArtMethod", "Jit", "RegisterNatives", "trampoline", "entrypoint"}
PineIdentity(a) ==
  LET held == Evidence(0, a.texts, a.imports)
      names == Hits(PineNames, held)
      art == Hits(PineArt, held)
  IN  \/ a.library.basename \cap {"libpine.so", "libpinehook.so"} # {} /\ names >= 1 /\ art >= 1
      \/ names >= 2 /\ art >= 2

-----------------------------------------------------------------------------
(* The linker detector                                                     *)
Obscured(a) == (Seen(a, "tiny_text") /\ Seen(a, "blob")) \/ Seen(a, "no_code")
HookBasenames == {"libpine.so", "libpinehook.so", "libshadowhook.so", "libbytehook.so",
  "libdobby.so", "libxhook.so", "libsandhook.so", "libwhale.so", "libfrida-gum.so",
  "libfrida-gadget.so"}
LinkerContext(a) ==
  [known_hook_framework |-> PineIdentity(a),
   exact_hook_basename |-> a.library.basename \cap HookBasenames # {},
   protecting_basename |->
     a.library.basename \cap {"customlinker", "shelllinker", "protectlinker", "libshieldlinker"} # {},
   code_obscured_by_packing |-> Obscured(a), high_entropy_payload |-> Seen(a, "blob"),
   packed_container |-> Seen(a, "zip")]
Linker(a) == analyze(Evidence(LinkerContext(a), a.texts, a.imports))
PossibleLinker(linker) == linker.outcome = "LIKELY_CUSTOM_LINKER_PROTECTION"
KnownHook(a, linker) ==
  PineIdentity(a) \/ (linker.hook_alternative /\ linker.outcome = "ELF_INSPECTION_OR_HOOK")

(* The scores before the verdict on a VM                                   *)
Weight(a, s, points) == IF Seen(a, s) THEN points ELSE 0
PackerSigns(a) ==
  Weight(a, "rwx", 2200) + Weight(a, "writable_entry", 1800) + Weight(a, "init_array", 500)
  + Weight(a, "some_init", 600) + Weight(a, "heavy_init", 600) + Weight(a, "jni_onload", 500)
  + Weight(a, "blob", 2200) + Weight(a, "tiny_text", 1800) + Weight(a, "few_strings", 400)
  + Weight(a, "hardly_strings", 400) + Weight(a, "zip", 1500) + Weight(a, "assets", 1200)
OllvmSigns(a) ==
  Weight(a, "few_strings", 500) + Weight(a, "hardly_strings", 500) + Weight(a, "no_symtab", 1000)
  + Weight(a, "section_name", 1500)
AbnormalSigns(a) ==
  Weight(a, "few_sections", 1000) + Weight(a, "no_symtab", 600) + Weight(a, "dense_section", 1000)
Least(m, n) == IF m <= n THEN m ELSE n

PackerScore(a) == Least(10000, Least(5000, 800 * LoaderHits(a)) + PackerSigns(a))
CodeScore(code) ==
  1000 * (One(Above(code, branches(code), 120)) + One(Above(code, branches(code), 180))
          + One(Above(code, CountOf(code, {"br", "blr"}), 8))
          + One(Above(code, CountOf(code, {"br", "blr"}), 15))
          + One(Above(code, obf_arith(code), 200)) + One(Above(code, obf_arith(code), 280)))
OllvmScore(a) ==
  Least(10000, CodeScore(a.library.code) + OllvmSigns(a) + 1200 * One(ExecEntropy(a)))
Abnormal(a) == AbnormalSigns(a) + 800 * One(~HasDynsym(a))

-----------------------------------------------------------------------------
(* The verdict on a VM                                                     *)
Flattened(a, packer) ==
  /\ Above(a.library.code, obf_arith(a.library.code), 280) /\ ExecEntropy(a)
  /\ \/ packer >= 5500 \/ OllvmScore(a) >= 4000
     \/ Least(10000, (55 * packer + 65 * OllvmScore(a)) \div 100 + Abnormal(a)) >= 5500
EitherObscures(a) ==                                               \* mutant
  Seen(a, "tiny_text") \/ Seen(a, "blob") \/ Seen(a, "no_code")
CodeObscured(a) == (Seen(a, "tiny_text") /\ Seen(a, "blob")) \/ Seen(a, "no_code")
VmpContext(a, linker, packer) ==
  [runtime_evidence_classes |-> Runtime(a).classes,
   known_non_vm_framework |->
     (KnownRuntime(a) /\ Runtime(a).classes < 2) \/ KnownHook(a, linker),
   vmp_metadata_marker |-> \/ Seen(a, "vmp_metadata")
                           \/ {"JavaVMP", "interpreter_wrap_"} \subseteq a.texts,
   custom_linker_likely |-> PossibleLinker(linker),
   has_large_entropy_blob |-> Seen(a, "blob"),
   few_imports_and_init_array |-> FewImports(a) /\ Seen(a, "init_array"),
   code_obscured_by_packing |-> CodeObscured(a),
   control_flow_obfuscation_likely |-> Flattened(a, packer),
   rounds_down |-> a.library.rounds_down]

(* The regions that are executable hold the sites; those of the C++ ABI    *)
(* are left out where it was recognised.                                   *)
Candidates(sites) ==
  IF sites.number = 0 THEN V!EmptyBag ELSE V!InternalCandidate(sites.kind) :> sites.number
Sites(a) ==
  V!Tallies(IF Seen(a, "no_code") THEN V!EmptyBag
            ELSE Candidates(IF EmbeddedRuntime(a) THEN a.library.own_sites ELSE a.library.sites),
            0, 0)

Packed(a) == \E s \in {"zip", "rwx", "writable_entry", "blob", "tiny_text"} : Seen(a, s)

(* What speaks for an innocent library, or keeps the detectors from        *)
(* seeing: the only reasons for a lower risk.                              *)
Explanations(a, linker, x) ==
  LET holds == [hook |-> linker.hook_alternative, known_hook |-> KnownHook(a, linker),
                known_runtime |-> KnownRuntime(a),
                weak_runtime |-> x.runtime_evidence_classes >= 1,
                confirmed_runtime |-> x.runtime_evidence_classes >= 2,
                flattened |-> x.control_flow_obfuscation_likely, obscured |-> Obscured(a),
                no_code |-> Seen(a, "no_code"), many_imports |-> ~FewImports(a)]
  IN  {e \in DOMAIN holds : holds[e]}

(* What the detectors say of the dispatch sites t in the context x, and the *)
(* end of analyze_so.                                                      *)
Findings(a, linker, t, x, score) ==
  [base |-> 1, image |-> "elf", packer |-> PackerScore(a), ollvm |-> OllvmScore(a),
   abnormal |-> Abnormal(a),
   outcome |-> V!Outcome(t, x, a.library.truncated /\ ~Seen(a, "no_code")),
   vmp_score |-> IF score > 0 THEN score ELSE 0, structure |-> 100 * V!Structure(t),
   intent |-> 100 * V!Intent(t, x), linker |-> linker.outcome,
   loader_score |-> 100 * linker.loader_score,
   known_hook_framework |-> KnownHook(a, linker),
   known_runtime_framework |-> KnownRuntime(a), packed |-> Packed(a),
   needed_libraries |-> <<>>, imports |-> {}, defined_exports |-> {}]
Summary(a, linker, x, analyzed) ==
  [label |-> analyzed.final_label, risk |-> R!risk_rank(analyzed),
   outcome |-> analyzed.outcome, packer_score |-> analyzed.packer_score,
   ollvm_score |-> analyzed.ollvm_score, strong_obf_score |-> analyzed.strong_obf_score,
   runtime |-> Runtime(a), explanations |-> Explanations(a, linker, x)]
Judged(a, linker, t, x) ==
  Summary(a, linker, x, R!Analyzed(1, Findings(a, linker, t, x, V!Score(t, x))))
Report(a) ==
  LET linker == Linker(a)
      packer == IF PossibleLinker(linker) /\ PackerScore(a) < 7200 THEN 7200 ELSE PackerScore(a)
  IN  Judged(a, linker, Sites(a), VmpContext(a, linker, packer))

-----------------------------------------------------------------------------
ScoresInit ==
  /\ library \in Libraries
  /\ texts = library.texts /\ imports = library.imports /\ signs = library.signs
  /\ context = LinkerContext(Image(library, texts, imports, signs))
  /\ result = Linker(Image(library, texts, imports, signs))
  /\ report = Report(Image(library, texts, imports, signs))

Size(t, i, s) == Cardinality(t) + Cardinality(i) + Cardinality(s)
Meet(a) ==
  /\ Size(texts, imports, signs)
       < Size(library.texts, library.imports, library.signs) + MostFound
  /\ texts' = a.texts /\ imports' = a.imports /\ signs' = a.signs
  /\ context' = LinkerContext(a) /\ result' = Linker(a) /\ report' = Report(a)
  /\ UNCHANGED library

MeetText == \E t \in Texts \ texts : Meet(Image(library, texts \cup {t}, imports, signs))
MeetImport ==
  /\ library.tables # {}
  /\ \E n \in Names \ imports : Meet(Image(library, texts, imports \cup {n}, signs))
MeetSign == \E s \in Signs \ signs :
  /\ s \in DOMAIN Weaker => Weaker[s] \in signs
  /\ Meet(Image(library, texts, imports, signs \cup {s}))

ScoresNext == MeetText \/ MeetImport \/ MeetSign
ScoresSpec == ScoresInit /\ [][ScoresNext]_found

-----------------------------------------------------------------------------
(* The scores add up and cap some forty signs, and label and risk come from *)
(* cascades over them: all the same, one more sign never lowers the risk,   *)
(* unless it explains the library or hides it.                             *)
RiskNeverFalls ==
  [][report'.explanations \subseteq report.explanations => report'.risk >= report.risk]_found

(* main.cpp:839: the name of a file alone never makes it a confirmed        *)
(* runtime, and no stronger evidence is given away for a family considered *)
(* earlier or later.                                                       *)
RuntimeIsStrongest ==
  LET others == {RuntimeEvidence(library.basename, texts, imports, Families[i]) :
                   i \in ConsideredFamilies(library.basename)}
  IN  /\ report.runtime.classes >= 2 => texts \cup imports # {}
      /\ \A e \in others :
           /\ e.classes <= report.runtime.classes
           /\ e.classes = report.runtime.classes /\ e.classes >= 1 => e.hits <= report.runtime.hits
=============================================================================
