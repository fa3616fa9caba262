----------------------------- MODULE MCVmpRegions -----------------------------
(* VmpRegions for TLC: libraries of up to four regions of seven kinds. *)
EXTENDS VmpRegions

Site(offset, kind) == [at |-> offset, kind |-> kind, excluded |-> FALSE]
Thunk(offset) == [at |-> offset, kind |-> "transfer", excluded |-> TRUE]
Region(words, list) == [words |-> words, overflows |-> FALSE, sites |-> list]

Kinds ==
  {Region(0, <<>>),
   [Region(3, <<Site(1, "transfer")>>) EXCEPT !.overflows = TRUE],
   Region(3, <<Site(0, "loop"), Site(2, "transfer")>>),
   Region(4, <<Site(0, "transfer"), Site(1, "transfer"), Site(2, "loop"), Thunk(3)>>),
   Region(9, <<Site(1, "transfer"), Site(3, "loop"), Site(5, "transfer"), Site(6, "transfer"),
               Site(8, "loop")>>),
   Region(12, <<Site(0, "transfer"), Site(6, "transfer"), Site(11, "transfer")>>),
   Region(9, <<Site(0, "transfer"), Site(1, "transfer"), Site(3, "transfer"), Site(4, "transfer"),
               Site(6, "transfer"), Site(7, "transfer"), Site(8, "loop")>>)}

Libraries == UNION {[1 .. n -> Kinds] : n \in 0 .. 4}
=============================================================================
