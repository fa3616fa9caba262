-------------------------- MODULE MCLibraryScores --------------------------
(* LibraryScores for TLC: libraries that stand near a threshold of a loader, *)
(* a hook framework, a runtime, a VM or a score, and two pieces more.      *)
EXTENDS LibraryScores

(* Dispatch sites: a number of one kind, all of one register and table.    *)
Site == [branch |-> "br", loads |-> <<[advances |-> TRUE, reaches |-> TRUE, vip |-> "x19"]>>,
         pointer |-> "none", target_loaded |-> TRUE, target_computed |-> FALSE,
         decoded |-> FALSE, adr |-> FALSE, chain |-> FALSE, back_edge |-> FALSE,
         shared_context |-> FALSE, ip_registers |-> FALSE, table |-> "x22", page |-> 0]
Closed == [Site EXCEPT !.back_edge = TRUE, !.shared_context = TRUE]
None == [kind |-> Closed, number |-> 0]
Two == [kind |-> Closed, number |-> 2]
Six == [kind |-> Closed, number |-> 6]
Single == [kind |-> Closed, number |-> 1]

Plain == [basename |-> {}, tables |-> Tables, anchors |-> 0, code |-> [add |-> 10, mov |-> 90],
          sites |-> None, own_sites |-> None, truncated |-> FALSE, rounds_down |-> FALSE,
          signs |-> {}, texts |-> {}, imports |-> {}]

Mixing == [add |-> 31, mov |-> 69]
Flat == [b |-> 10, cbz |-> 10, br |-> 3, eor |-> 20, cmp |-> 10, mov |-> 20, data |-> 40]
Busy == [bl |-> 10, blr |-> 1, ret |-> 5, add |-> 21, mov |-> 63]
Loader == {"PT_LOAD", "PT_DYNAMIC", "DT_RELA", "find_library", "link_image"}

SomeLibraries ==
  {Plain,
   [Plain EXCEPT !.code = Mixing, !.sites = Single, !.signs = {"exec_entropy"}],
   [Plain EXCEPT !.code = Busy, !.sites = Six, !.signs = {"no_symtab", "section_name"}],
   [Plain EXCEPT !.sites = Two, !.tables = {"dynamic"}, !.signs = {"init_array", "vmp_metadata"}],
   [Plain EXCEPT !.basename = {"quickjs"}, !.sites = Six, !.imports = {"JS_NewRuntime"}],
   [Plain EXCEPT !.basename = {"libunicorn.so", "unicorn"}, !.sites = Six, !.texts = {"cpu_exec"},
                 !.imports = {"uc_open", "uc_emu_start", "uc_hook_add"}],
   [Plain EXCEPT !.basename = {"quickjs"}, !.texts = {"QuickJS"},
                 !.imports = {"uc_open", "uc_emu_start", "uc_hook_add"}],
   [Plain EXCEPT !.texts = Loader],
   [Plain EXCEPT !.texts = Loader \cup {"call_constructors"}, !.imports = {"mmap"},
                 !.signs = {"no_symtab"}],
   [Plain EXCEPT !.basename = {"libpine.so"}, !.texts = {"ArtMethod"}, !.signs = {"few_strings"},
                 !.code = Busy],
   [Plain EXCEPT !.signs = {"rwx", "blob", "few_strings"}, !.imports = {"ptrace"},
                 !.tables = {"sections"}],
   [Plain EXCEPT !.tables = {}, !.code = Flat, !.sites = Six, !.truncated = TRUE,
                 !.signs = {"few_strings", "few_sections", "writable_entry"}],
   [Plain EXCEPT !.signs = {"rwx", "writable_entry", "tiny_text"}, !.code = Busy],
   [Plain EXCEPT !.signs = {"rwx", "writable_entry", "zip", "jni_onload"}, !.sites = Single],
   [Plain EXCEPT !.code = Flat, !.signs = {"no_symtab"}, !.basename = {"libreact"},
                 !.texts = {"ShadowHook", "trampoline", "PT_LOAD"}, !.sites = Two],
   [Plain EXCEPT !.code = Flat, !.sites = Six, !.basename = {"shelllinker"}, !.texts = Loader,
                 !.signs = {"blob", "zip"}, !.imports = {"mprotect"}],
   [Plain EXCEPT !.basename = {"quickjs"}, !.sites = Six, !.tables = {"dynamic"},
                 !.texts = {"QuickJS", "JavaVMP"}, !.imports = {"JS_Eval"}],
   [Plain EXCEPT !.anchors = 4, !.sites = Six, !.own_sites = Two, !.tables = {"sections"}],
   [Plain EXCEPT !.basename = {"libglog"}, !.sites = Six, !.imports = {"JS_NewRuntime"}],
   [Plain EXCEPT !.texts = Loader \cup {"call_constructors", "ShadowHook", "_ZN4pine", "Jit"},
                 !.imports = {"ptrace", "mremap", "memfd_create", "android_dlopen_ext"},
                 !.signs = {"init_array", "some_init", "heavy_init", "jni_onload", "few_strings",
                            "hardly_strings", "assets"}]}

SomeTexts == {"payload PT_LOAD", "PT_DYNAMIC", "DT_RELA", "customlinker", "ShadowHook",
              "trampoline", "pine::", "QuickJS", "JS_EvalInternal",
              "interpreter_wrap_", "Unicorn Engine", "Lavfi"}
SomeNames == {"mmap", "mprotect", "dlsym", "dl_iterate_phdr", "mremap", "JS_ExecutePendingJob",
              "uc_close"}
SomeSigns == AllSigns
=============================================================================
