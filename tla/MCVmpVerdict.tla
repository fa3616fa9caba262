---------------------------- MODULE MCVmpVerdict ----------------------------
(* VmpVerdict for TLC: one kind of site for every way a site can turn out, *)
(* one or four of them in a row.                                           *)
EXTENDS VmpVerdict

Fetch == [advances |-> TRUE, reaches |-> TRUE, vip |-> "x19"]
Table == [advances |-> FALSE, reaches |-> TRUE, vip |-> "x20"]
Other == [advances |-> TRUE, reaches |-> FALSE, vip |-> "x19"]

Plain == [branch |-> "br", loads |-> <<>>, pointer |-> "none", target_loaded |-> FALSE,
          target_computed |-> FALSE, decoded |-> FALSE, adr |-> FALSE, chain |-> FALSE,
          back_edge |-> FALSE, shared_context |-> FALSE, ip_registers |-> FALSE,
          table |-> "x22", page |-> 0]

Dispatcher == [Plain EXCEPT !.loads = <<Other, Fetch>>, !.target_loaded = TRUE]
Closed == [Dispatcher EXCEPT !.back_edge = TRUE, !.shared_context = TRUE]
Kinds ==
  {Dispatcher, Closed,
   [Dispatcher EXCEPT !.branch = "ret", !.back_edge = TRUE, !.page = 5],
   [Plain EXCEPT !.loads = <<Other>>, !.target_computed = TRUE, !.decoded = TRUE],
   [Plain EXCEPT !.pointer = "advancing", !.shared_context = TRUE],
   [Plain EXCEPT !.pointer = "advancing", !.ip_registers = TRUE],
   [Plain EXCEPT !.pointer = "advancing", !.branch = "blr", !.back_edge = TRUE],
   [Plain EXCEPT !.pointer = "fixed", !.branch = "blr", !.target_loaded = TRUE],
   [Plain EXCEPT !.loads = <<Table>>, !.adr = TRUE, !.target_computed = TRUE],
   [Plain EXCEPT !.branch = "loop", !.loads = <<Fetch>>, !.chain = TRUE]}
(* Two of the facts that only add to the intent come together, and three   *)
(* classes of runtime evidence count as two.                               *)
Some == {x \in Contexts : /\ x.has_large_entropy_blob = x.few_imports_and_init_array
                          /\ x.runtime_evidence_classes < 3
                          /\ x.code_obscured_by_packing => x.has_large_entropy_blob}
=============================================================================
