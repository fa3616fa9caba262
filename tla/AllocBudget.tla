---------------------------- MODULE AllocBudget -----------------------------
(***************************************************************************)
(* main.cpp: the allocator that miniz gets, which keeps what it holds      *)
(* within a budget. miniz may ask for any number of items of any size, and *)
(* hand back what it holds in any order; malloc may fail at any time.      *)
(* size_t has Word values; a block is what was counted for it and what was *)
(* asked for, without the wrap-around.                                     *)
(***************************************************************************)
EXTENDS Integers

CONSTANTS Word, Header, Limit, Counts, Sizes, Blocks

ASSUME BudgetAssumption ==
  /\ Word \in Nat /\ Header \in Nat /\ Header < Word /\ Limit \in 0 .. Word - 1
  /\ Counts \subseteq 0 .. Word - 1 /\ Sizes \subseteq 0 .. Word - 1

VARIABLES payload_bytes,   \* of each live block
          asked,           \* the bytes its owner relies on
          current_bytes, peak_bytes, limit_hit,
          answer           \* to the last request
vars == <<payload_bytes, asked, current_bytes, peak_bytes, limit_hit, answer>>

Live == DOMAIN payload_bytes
AtMost(m, n) == IF m <= n THEN m ELSE n
AtLeast(m, n) == IF m >= n THEN m ELSE n

(* checked_allocation_size *)
Requested(items, size) ==
  LET product == (items * size) % Word IN IF product = 0 THEN 1 ELSE product
checked_allocation_size(items, size) ==
  /\ items # 0 => size <= (Word - 1) \div items
  /\ Requested(items, size) <= Word - 1 - Header

FitsAlone(items, size, base) ==                                    \* mutant
  checked_allocation_size(items, size) /\ Requested(items, size) <= Limit
Fits(items, size, base) ==
  /\ checked_allocation_size(items, size)
  /\ Requested(items, size) <= Limit - AtMost(base, Limit)

(* What is left to count once the block is taken off. *)
Without(b) ==
  IF payload_bytes[b] <= current_bytes THEN current_bytes - payload_bytes[b] ELSE 0
Base(b) == Without(b)

Init ==
  /\ payload_bytes = <<>> /\ asked = <<>>
  /\ current_bytes = 0 /\ peak_bytes = 0 /\ limit_hit = FALSE /\ answer = "none"

Count(n) ==
  /\ current_bytes' = n % Word
  /\ peak_bytes' = AtLeast(peak_bytes, n % Word)

(* bounded_miniz_alloc, and bounded_miniz_realloc of nothing *)
AllocOf(b, items, size) ==
  /\ b \in Blocks \ Live /\ items \in Counts /\ size \in Sizes
  /\ Fits(items, size, current_bytes)
  /\ payload_bytes' = [x \in Live \cup {b} |->
       IF x = b THEN Requested(items, size) ELSE payload_bytes[x]]
  /\ asked' = [x \in Live \cup {b} |-> IF x = b THEN items * size ELSE asked[x]]
  /\ Count(current_bytes + Requested(items, size))
  /\ answer' = "block" /\ UNCHANGED limit_hit
Alloc == \E b \in Blocks, items \in Counts, size \in Sizes : AllocOf(b, items, size)

RefuseOf(items, size) ==
  /\ items \in Counts /\ size \in Sizes /\ ~Fits(items, size, current_bytes)
  /\ answer' = "refused" /\ limit_hit' = TRUE
  /\ UNCHANGED <<payload_bytes, asked, current_bytes, peak_bytes>>
RefuseAlloc == \E items \in Counts, size \in Sizes : RefuseOf(items, size)

(* malloc, or realloc, has nothing to give. *)
NoMemoryOf(items, size, base) ==
  /\ items \in Counts /\ size \in Sizes /\ Fits(items, size, base)
  /\ answer' = "no_memory"
  /\ UNCHANGED <<payload_bytes, asked, current_bytes, peak_bytes, limit_hit>>
OutOfMemory == \E items \in Counts, size \in Sizes :
  \E base \in {current_bytes} \cup {Base(b) : b \in Live} : NoMemoryOf(items, size, base)

(* bounded_miniz_free *)
FreeOf(b) ==
  /\ b \in Live
  /\ payload_bytes' = [x \in Live \ {b} |-> payload_bytes[x]]
  /\ asked' = [x \in Live \ {b} |-> asked[x]]
  /\ current_bytes' = Without(b)
  /\ answer' = "none" /\ UNCHANGED <<peak_bytes, limit_hit>>
Free == \E b \in Blocks : FreeOf(b)

(* bounded_miniz_realloc *)
Realloc ==
  /\ \E b \in Live, items \in Counts, size \in Sizes :
       /\ Fits(items, size, Base(b))
       /\ payload_bytes' = [payload_bytes EXCEPT ![b] = Requested(items, size)]
       /\ asked' = [asked EXCEPT ![b] = items * size]
       /\ Count(Base(b) + Requested(items, size))
  /\ answer' = "block" /\ UNCHANGED limit_hit

RefuseRealloc ==
  /\ \E b \in Live, items \in Counts, size \in Sizes : ~Fits(items, size, Base(b))
  /\ answer' = "refused" /\ limit_hit' = TRUE
  /\ UNCHANGED <<payload_bytes, asked, current_bytes, peak_bytes>>

Next == Alloc \/ RefuseAlloc \/ OutOfMemory \/ Free \/ Realloc \/ RefuseRealloc
Spec == Init /\ [][Next]_vars

-----------------------------------------------------------------------------
(* The budget is never overdrawn: what is counted, now and at the peak,    *)
(* stays within the limit whatever is asked for.                           *)
WithinBudget ==
  /\ current_bytes \in 0 .. Limit /\ peak_bytes \in 0 .. Limit /\ current_bytes <= peak_bytes
  /\ DOMAIN asked = Live /\ \A b \in Live : payload_bytes[b] \in 1 .. Limit

(* No block is shorter than its owner believes, however large the product. *)
NoShortBlock == \A b \in Live : asked[b] <= payload_bytes[b]
=============================================================================
